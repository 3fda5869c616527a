--------------------------- MODULE StrategyProofs ---------------------------
(***************************************************************************)
(* One on_candle of each strategy (src/src/strategies), for any parameters *)
(* and any history: the indicators it keeps stand for the candles it was   *)
(* given, and the signal it returns is the reference's.                    *)
(*                                                                         *)
(* The deques of BreakoutStrategy and MACrossoverStrategy are the most     *)
(* recent values of the history (PushKeepsRecent).  The averages of        *)
(* RSIMeanReversionStrategy are Wilder's in closed form: one update of the *)
(* code takes the closed form of n changes to that of n + 1 (WilderNext).  *)
(* Sums and powers are recursive functions; what they compute is proved by *)
(* least counterexample (Induction), with the well-foundedness of Nat.     *)
(***************************************************************************)
EXTENDS Strategies, FiniteSetTheorems, SequenceTheorems, WellFoundedInduction, TLAPS

-----------------------------------------------------------------------------
(* Extrema of finite sets of integers.                                     *)

\* A set of naturals has a least element.
LEMMA LeastNatural ==
    ASSUME NEW S \in SUBSET Nat, S # {}
    PROVE  \E s \in S : \A k \in S : s <= k
<1> DEFINE R == OpToRel(<, Nat)
<1>1. IsWellFoundedOn(R, Nat)
  BY NatLessThanWellFounded, Zenon
<1>2. \A k \in Nat, s \in Nat : k < s => <<k, s>> \in R
  BY DEF OpToRel
<1> HIDE DEF R
<1>3. PICK s \in S : \A k \in S : ~(<<k, s>> \in R)
  BY <1>1, WFMin, Zenon
<1>4. \A k \in S : ~(k < s)
  BY <1>2, <1>3
<1> QED BY <1>4

\* The element with the fewest elements above it is the maximum.
LEMMA MaxIsElement ==
    ASSUME NEW S \in SUBSET Int, S # {}, IsFiniteSet(S)
    PROVE  Max(S) \in S /\ \A k \in S : k <= Max(S)
<1> DEFINE Over(s) == {k \in S : s < k}
           Sizes == {Cardinality(Over(s)) : s \in S}
<1>1. ASSUME NEW s \in S PROVE IsFiniteSet(Over(s)) /\ Cardinality(Over(s)) \in Nat
  <2>1. Over(s) \in SUBSET S
    OBVIOUS
  <2> QED BY <2>1, FS_Subset, FS_CardinalityType
<1>2. Sizes \in SUBSET Nat /\ Sizes # {}
  BY <1>1
<1>3. PICK n \in Sizes : \A k \in Sizes : n <= k
  <2> HIDE DEF Sizes
  <2> QED BY <1>2, LeastNatural
<1>4. PICK s \in S : n = Cardinality(Over(s))
  BY <1>3
<1>5. ASSUME NEW k \in S, s < k PROVE FALSE
  <2>1. Over(k) \in SUBSET Over(s)
    <3>1. \A j \in S : k < j => s < j
      BY <1>5
    <3> QED BY <3>1
  <2>2. k \in Over(s) /\ k \notin Over(k)
    BY <1>5
  <2>3. /\ Cardinality(Over(k)) <= Cardinality(Over(s))
        /\ Cardinality(Over(k)) # Cardinality(Over(s))
    <3> HIDE DEF Over
    <3>1. Over(k) # Over(s)
      BY <2>2
    <3> QED BY <1>1, <2>1, <3>1, FS_Subset
  <2>4. Cardinality(Over(k)) \in Sizes
    OBVIOUS
  <2> HIDE DEF Over, Sizes
  <2> QED BY <1>1, <1>3, <1>4, <2>3, <2>4
<1>6. \A k \in S : s >= k
  BY <1>5
<1>7. Max(S) \in S /\ \A k \in S : Max(S) >= k
  BY <1>6 DEF Max
<1> QED BY <1>7

\* ... and the one with the fewest below it the minimum.
LEMMA MinIsElement ==
    ASSUME NEW S \in SUBSET Int, S # {}, IsFiniteSet(S)
    PROVE  Min(S) \in S /\ \A k \in S : Min(S) <= k
<1> DEFINE Under(s) == {k \in S : k < s}
           Sizes == {Cardinality(Under(s)) : s \in S}
<1>1. ASSUME NEW s \in S PROVE IsFiniteSet(Under(s)) /\ Cardinality(Under(s)) \in Nat
  <2>1. Under(s) \in SUBSET S
    OBVIOUS
  <2> QED BY <2>1, FS_Subset, FS_CardinalityType
<1>2. Sizes \in SUBSET Nat /\ Sizes # {}
  BY <1>1
<1>3. PICK n \in Sizes : \A k \in Sizes : n <= k
  <2> HIDE DEF Sizes
  <2> QED BY <1>2, LeastNatural
<1>4. PICK s \in S : n = Cardinality(Under(s))
  BY <1>3
<1>5. ASSUME NEW k \in S, k < s PROVE FALSE
  <2>1. Under(k) \in SUBSET Under(s)
    <3>1. \A j \in S : j < k => j < s
      BY <1>5
    <3> QED BY <3>1
  <2>2. k \in Under(s) /\ k \notin Under(k)
    BY <1>5
  <2>3. /\ Cardinality(Under(k)) <= Cardinality(Under(s))
        /\ Cardinality(Under(k)) # Cardinality(Under(s))
    <3> HIDE DEF Under
    <3>1. Under(k) # Under(s)
      BY <2>2
    <3> QED BY <1>1, <2>1, <3>1, FS_Subset
  <2>4. Cardinality(Under(k)) \in Sizes
    OBVIOUS
  <2> HIDE DEF Under, Sizes
  <2> QED BY <1>1, <1>3, <1>4, <2>3, <2>4
<1>6. \A k \in S : s =< k
  BY <1>5
<1>7. Min(S) \in S /\ \A k \in S : Min(S) =< k
  BY <1>6 DEF Min
<1> QED BY <1>7

\* The elements of a sequence of integers are finitely many integers.
LEMMA RangeIsFinite ==
    ASSUME NEW s \in Seq(Int), Len(s) > 0
    PROVE  Range(s) \in SUBSET Int /\ Range(s) # {} /\ IsFiniteSet(Range(s))
<1>0. s \in [1..Len(s) -> Int] /\ DOMAIN s = 1..Len(s) /\ Len(s) \in Nat /\ 1 \in 1..Len(s)
  BY LenProperties
<1>1. Range(s) \in SUBSET Int /\ Range(s) # {}
  BY <1>0 DEF Range
<1>2. s \in Surjection(1..Len(s), Range(s))
  <2>1. s \in [1..Len(s) -> Range(s)]
    BY <1>0 DEF Range
  <2>2. \A x \in Range(s) : \E i \in 1..Len(s) : s[i] = x
    BY <1>0 DEF Range
  <2> QED BY <2>1, <2>2 DEF Surjection
<1>3. IsFiniteSet(1..Len(s))
  BY FS_Interval
<1>4. IsFiniteSet(Range(s))
  BY <1>2, <1>3, FS_Surjection
<1> QED BY <1>1, <1>4

-----------------------------------------------------------------------------
(* Windows: the deque of a strategy and the end of a history.              *)

\* The last n of a sequence of values, or all of them while there are fewer.
Recent(values, n) ==
    LET m == IF Len(values) < n THEN Len(values) ELSE n
    IN  [i \in 1..m |-> values[Len(values) - m + i]]

Highs(h) == [i \in DOMAIN h |-> h[i].high]
Lows(h) == [i \in DOMAIN h |-> h[i].low]

\* How many values that are.
Held(values, n) == IF Len(values) < n THEN Len(values) ELSE n

LEMMA RecentFacts ==
    ASSUME NEW values \in Seq(Int), NEW n \in Nat
    PROVE  /\ Held(values, n) \in Nat /\ Held(values, n) <= Len(values) /\ Held(values, n) <= n
           /\ Recent(values, n) \in Seq(Int)
           /\ Len(Recent(values, n)) = Held(values, n)
           /\ \A i \in 1..Held(values, n) :
                Recent(values, n)[i] = values[Len(values) - Held(values, n) + i]
<1> DEFINE m == Held(values, n)
           at(i) == Len(values) - m + i
<1>1. m \in Nat /\ m <= Len(values) /\ m <= n
  BY DEF Held
<1>2. Recent(values, n) = [i \in 1..m |-> values[at(i)]]
  BY DEF Recent, Held
<1>3. \A i \in 1..m : at(i) \in 1..Len(values)
  BY <1>1
<1> HIDE DEF m, at
<1>4. \A i \in 1..m : values[at(i)] \in Int
  BY <1>3, ElementOfSeq
<1>5. Recent(values, n) \in Seq(Int) /\ Len(Recent(values, n)) = m
  BY <1>1, <1>2, <1>4
<1>6. \A i \in 1..m : Recent(values, n)[i] = values[at(i)]
  BY <1>2
<1> QED BY <1>1, <1>5, <1>6 DEF m, at

\* deque(maxlen = n).append keeps the most recent values.
LEMMA PushKeepsRecent ==
    ASSUME NEW values \in Seq(Int), NEW x \in Int, NEW n \in Nat \ {0}
    PROVE  Push(Recent(values, n), x, n) = Recent(Append(values, x), n)
<1> DEFINE l == Len(values)
           m == Held(values, n)
           w == Recent(values, n)
           longer == Append(w, x)
           all == Append(values, x)
           r == Recent(all, n)
           rm == Held(all, n)
<1> HIDE DEF l, m, w, longer, all, r, rm
<1>1. l \in Nat /\ n \in Nat /\ n > 0 /\ m = IF l < n THEN l ELSE n
  BY LenProperties DEF Held, l, m
<1>2. /\ w \in Seq(Int) /\ Len(w) = m /\ m \in Nat /\ m <= l
      /\ \A i \in 1..m : w[i] = values[l - m + i]
  BY RecentFacts DEF w, m, l
<1>3. /\ all \in Seq(Int) /\ Len(all) = l + 1 /\ all[l + 1] = x
      /\ \A i \in 1..l : all[i] = values[i]
  BY AppendProperties DEF all, l
<1>4. /\ longer \in Seq(Int) /\ longer # <<>> /\ Len(longer) = m + 1 /\ longer[m + 1] = x
      /\ \A i \in 1..m : longer[i] = w[i]
  <2>1. w \in Seq(Int) /\ Len(w) = m
    BY <1>2
  <2>2. /\ longer \in Seq(Int) /\ longer # <<>> /\ Len(longer) = Len(w) + 1
        /\ longer[Len(w) + 1] = x
        /\ \A i \in 1..Len(w) : longer[i] = w[i]
    BY <2>1, AppendProperties DEF longer
  <2> QED BY <2>1, <2>2
<1>5. /\ r \in Seq(Int) /\ Len(r) = rm /\ rm \in Nat
      /\ \A i \in 1..rm : r[i] = all[Len(all) - rm + i]
      /\ rm = IF Len(all) < n THEN Len(all) ELSE n
  BY <1>1, <1>3, RecentFacts DEF Held, r, rm
<1>6. Push(w, x, n) = IF Len(longer) > n THEN Tail(longer) ELSE longer
  BY DEF Push, longer
<1>7. \A i \in 1..(m + 1) : longer[i] = all[l - m + i]
  <2> SUFFICES ASSUME NEW i \in 1..(m + 1) PROVE longer[i] = all[l - m + i]
    OBVIOUS
  <2>1. CASE i = m + 1
    <3>1. l - m + i = l + 1
      BY <1>1, <1>2, <2>1
    <3> QED BY <1>3, <1>4, <2>1, <3>1
  <2>2. CASE i # m + 1
    <3>1. l \in Nat /\ m \in Nat /\ m <= l
      BY <1>1, <1>2
    <3>2. i \in 1..m /\ l - m + i \in 1..l
      BY <2>2, <3>1
    <3> QED BY <1>2, <1>3, <1>4, <3>2
  <2> QED BY <2>1, <2>2
<1>8. CASE l < n
  <2>1. m = l /\ rm = l + 1 /\ Push(w, x, n) = longer
    BY <1>1, <1>2, <1>3, <1>4, <1>5, <1>6, <1>8
  <2>2. \A i \in 1..Len(longer) : longer[i] = r[i]
    <3> SUFFICES ASSUME NEW i \in 1..(l + 1) PROVE longer[i] = r[i]
      BY <1>4, <2>1
    <3>1. l - m + i = i /\ Len(all) - rm + i = i /\ i \in 1..(m + 1) /\ i \in 1..rm
      BY <1>1, <1>3, <2>1
    <3>2. longer[i] = all[l - m + i]
      BY <1>7, <3>1
    <3>3. r[i] = all[Len(all) - rm + i]
      BY <1>5, <3>1
    <3> QED BY <3>1, <3>2, <3>3
  <2>3. longer = r
    BY <1>4, <1>5, <2>1, <2>2, SeqEqual
  <2> QED BY <2>1, <2>3 DEF w, r, all
<1>9. CASE ~(l < n)
  <2> DEFINE t == Tail(longer)
  <2>1. m = n /\ rm = n /\ Push(w, x, n) = t
    BY <1>1, <1>2, <1>3, <1>4, <1>5, <1>6, <1>9
  <2>2. t \in Seq(Int) /\ Len(t) = Len(longer) - 1 /\ \A i \in 1..Len(t) : t[i] = longer[i + 1]
    BY <1>4, HeadTailProperties
  <2>3. Len(t) = n
    BY <1>1, <1>4, <2>1, <2>2
  <2>4. \A i \in 1..Len(t) : t[i] = r[i]
    <3> SUFFICES ASSUME NEW i \in 1..n PROVE t[i] = r[i]
      BY <2>3
    <3>1. i + 1 \in 1..(m + 1) /\ l - m + (i + 1) = Len(all) - rm + i
      BY <1>1, <1>3, <2>1
    <3>2. t[i] = longer[i + 1]
      BY <2>2, <2>3
    <3> QED BY <1>5, <1>7, <2>1, <3>1, <3>2
  <2> HIDE DEF t
  <2>5. t = r
    BY <1>5, <2>1, <2>2, <2>3, <2>4, SeqEqual
  <2> QED BY <2>1, <2>5 DEF w, r, all
<1> QED BY <1>8, <1>9

\* The columns of a history grow with it.
LEMMA ColumnsGrow ==
    ASSUME NEW h \in Seq(Candle), NEW c \in Candle
    PROVE  /\ Highs(h) \in Seq(Int) /\ Lows(h) \in Seq(Int) /\ Closes(h) \in Seq(Int)
           /\ Len(Highs(h)) = Len(h) /\ Len(Lows(h)) = Len(h) /\ Len(Closes(h)) = Len(h)
           /\ Highs(Append(h, c)) = Append(Highs(h), c.high)
           /\ Lows(Append(h, c)) = Append(Lows(h), c.low)
           /\ Closes(Append(h, c)) = Append(Closes(h), c.close)
<1>1. /\ \A i \in 1..Len(h) : h[i].high \in Int /\ h[i].low \in Int /\ h[i].close \in Int
      /\ DOMAIN h = 1..Len(h) /\ Len(h) \in Nat
  <2>1. \A i \in 1..Len(h) : h[i] \in Candle
    BY ElementOfSeq
  <2>2. \A cc \in Candle : cc.high \in Int /\ cc.low \in Int /\ cc.close \in Int
    BY DEF Candle
  <2>3. DOMAIN h = 1..Len(h) /\ Len(h) \in Nat
    BY LenProperties
  <2> QED BY <2>1, <2>2, <2>3
<1>2. /\ Highs(h) \in Seq(Int) /\ Lows(h) \in Seq(Int) /\ Closes(h) \in Seq(Int)
      /\ Len(Highs(h)) = Len(h) /\ Len(Lows(h)) = Len(h) /\ Len(Closes(h)) = Len(h)
  BY <1>1 DEF Highs, Lows, Closes
<1>3. /\ DOMAIN Append(h, c) = 1..(Len(h) + 1)
      /\ \A i \in 1..(Len(h) + 1) : Append(h, c)[i] = IF i = Len(h) + 1 THEN c ELSE h[i]
  BY <1>1
<1>4. Highs(Append(h, c)) = Append(Highs(h), c.high)
  <2>1. Append(Highs(h), c.high)
          = [i \in 1..(Len(h) + 1) |-> IF i = Len(h) + 1 THEN c.high ELSE Highs(h)[i]]
    BY <1>1, <1>2
  <2> QED BY <1>1, <1>3, <2>1 DEF Highs
<1>5. Lows(Append(h, c)) = Append(Lows(h), c.low)
  <2>1. Append(Lows(h), c.low)
          = [i \in 1..(Len(h) + 1) |-> IF i = Len(h) + 1 THEN c.low ELSE Lows(h)[i]]
    BY <1>1, <1>2
  <2> QED BY <1>1, <1>3, <2>1 DEF Lows
<1>6. Closes(Append(h, c)) = Append(Closes(h), c.close)
  <2>1. Append(Closes(h), c.close)
          = [i \in 1..(Len(h) + 1) |-> IF i = Len(h) + 1 THEN c.close ELSE Closes(h)[i]]
    BY <1>1, <1>2
  <2> QED BY <1>1, <1>3, <2>1 DEF Closes
<1> QED BY <1>2, <1>4, <1>5, <1>6

\* The reference's view of the last n candles is the strategy's window of them.
LEMMA LastNIsRecent ==
    ASSUME NEW h \in Seq(Candle), NEW n \in Nat \ {0}, n <= Len(h)
    PROVE  /\ Closes(LastN(h, n)) = Recent(Closes(h), n)
           /\ {LastN(h, n)[i].high : i \in DOMAIN LastN(h, n)} = Range(Recent(Highs(h), n))
           /\ {LastN(h, n)[i].low : i \in DOMAIN LastN(h, n)} = Range(Recent(Lows(h), n))
<1> DEFINE l == Len(h)
           last == LastN(h, n)
           at(i) == l - n + i
<1>1. l \in Nat /\ n \in Nat /\ n <= l
  BY LenProperties
<1>2. \A i \in 1..n : at(i) \in 1..l
  BY <1>1
<1>3. \A i \in (l - n + 1)..l : h[i] \in Candle
  <2>1. \A i \in (l - n + 1)..l : i \in 1..l
    BY <1>1
  <2> QED BY <2>1, ElementOfSeq
<1>4. last \in Seq(Candle) /\ Len(last) = n /\ \A i \in 1..n : last[i] = h[at(i)]
  <2>1. l - n + 1 \in Int /\ l \in Int /\ l - n + 1 <= l /\ l - (l - n + 1) + 1 = n
    BY <1>1
  <2> HIDE DEF l
  <2>2. /\ SubSeq(h, l - n + 1, l) \in Seq(Candle)
        /\ Len(SubSeq(h, l - n + 1, l)) = n
        /\ \A i \in 1..n : SubSeq(h, l - n + 1, l)[i] = h[(l - n + 1) + i - 1]
    BY <1>3, <2>1, SubSeqProperties
  <2>3. \A i \in 1..n : (l - n + 1) + i - 1 = at(i)
    BY <1>1
  <2>4. last = SubSeq(h, l - n + 1, l)
    BY DEF LastN, l
  <2> HIDE DEF last, at
  <2> QED BY <2>2, <2>3, <2>4
<1>5. DOMAIN last = 1..n
  BY <1>4, LenProperties
<1>6. DOMAIN h = 1..l
  BY LenProperties
<1>7. /\ Highs(h) \in Seq(Int) /\ Len(Highs(h)) = l
      /\ Lows(h) \in Seq(Int) /\ Len(Lows(h)) = l
      /\ Closes(h) \in Seq(Int) /\ Len(Closes(h)) = l
  <2>1. h[1] \in Candle
    BY <1>1, ElementOfSeq
  <2> QED BY <2>1, ColumnsGrow
<1> HIDE DEF l, last, at
<1>8. /\ Held(Highs(h), n) = n /\ Held(Lows(h), n) = n /\ Held(Closes(h), n) = n
  BY <1>1, <1>7 DEF Held
<1>9. ASSUME NEW i \in 1..n
      PROVE  /\ Recent(Highs(h), n)[i] = last[i].high
             /\ Recent(Lows(h), n)[i] = last[i].low
             /\ Recent(Closes(h), n)[i] = last[i].close
  <2>1. /\ Recent(Highs(h), n)[i] = Highs(h)[at(i)]
        /\ Recent(Lows(h), n)[i] = Lows(h)[at(i)]
        /\ Recent(Closes(h), n)[i] = Closes(h)[at(i)]
    <3>1. ASSUME NEW v \in Seq(Int), Len(v) = l, Held(v, n) = n
          PROVE  Recent(v, n)[i] = v[at(i)]
      <4>1. \A k \in 1..Held(v, n) : Recent(v, n)[k] = v[Len(v) - Held(v, n) + k]
        BY <1>1, RecentFacts
      <4> QED BY <3>1, <4>1 DEF at
    <3> QED BY <1>7, <1>8, <3>1
  <2>2. /\ Highs(h)[at(i)] = h[at(i)].high /\ Lows(h)[at(i)] = h[at(i)].low
        /\ Closes(h)[at(i)] = h[at(i)].close
    BY <1>2, <1>6 DEF Highs, Lows, Closes
  <2> QED BY <1>4, <2>1, <2>2
<1>10. /\ Recent(Highs(h), n) \in Seq(Int) /\ Len(Recent(Highs(h), n)) = n
       /\ Recent(Lows(h), n) \in Seq(Int) /\ Len(Recent(Lows(h), n)) = n
       /\ Recent(Closes(h), n) \in Seq(Int) /\ Len(Recent(Closes(h), n)) = n
  BY <1>1, <1>7, <1>8, RecentFacts
<1>11. /\ DOMAIN Recent(Highs(h), n) = 1..n
       /\ DOMAIN Recent(Lows(h), n) = 1..n
       /\ DOMAIN Recent(Closes(h), n) = 1..n
  BY <1>10, LenProperties
<1>12. Closes(last) = Recent(Closes(h), n)
  <2>1. Recent(Closes(h), n) = [i \in 1..n |-> Recent(Closes(h), n)[i]]
    BY <1>10, <1>11
  <2> QED BY <1>5, <1>9, <2>1 DEF Closes
<1>13. {last[i].high : i \in DOMAIN last} = Range(Recent(Highs(h), n))
  BY <1>5, <1>9, <1>11 DEF Range
<1>14. {last[i].low : i \in DOMAIN last} = Range(Recent(Lows(h), n))
  BY <1>5, <1>9, <1>11 DEF Range
<1> QED BY <1>12, <1>13, <1>14 DEF last

\* The history before the candle just seen.
LEMMA BeforeAppend ==
    ASSUME NEW h \in Seq(Candle), NEW c \in Candle
    PROVE  /\ Append(h, c) \in Seq(Candle)
           /\ Len(Append(h, c)) = Len(h) + 1
           /\ Append(h, c)[Len(h) + 1] = c
           /\ SubSeq(Append(h, c), 1, Len(Append(h, c)) - 1) = h
<1> DEFINE all == Append(h, c)
           l == Len(h)
<1>1. /\ all \in Seq(Candle) /\ Len(all) = l + 1 /\ all[l + 1] = c
      /\ \A i \in 1..l : all[i] = h[i]
      /\ l \in Nat
  BY AppendProperties, LenProperties
<1>2. Len(all) - 1 = l
  BY <1>1
<1> HIDE DEF all, l
<1>3. \A i \in 1..l : all[i] \in Candle
  BY <1>1, ElementOfSeq DEF l
<1>4. /\ SubSeq(all, 1, l) \in Seq(Candle)
      /\ Len(SubSeq(all, 1, l)) = IF 1 <= l THEN l - 1 + 1 ELSE 0
      /\ \A i \in 1..(l - 1 + 1) : SubSeq(all, 1, l)[i] = all[1 + i - 1]
  BY <1>1, <1>3, SubSeqProperties
<1>5. l - 1 + 1 = l /\ (IF 1 <= l THEN l - 1 + 1 ELSE 0) = l
  BY <1>1
<1>6. \A i \in 1..l : SubSeq(all, 1, l)[i] = h[i]
  <2> SUFFICES ASSUME NEW i \in 1..l PROVE SubSeq(all, 1, l)[i] = h[i]
    OBVIOUS
  <2>1. 1 + i - 1 = i /\ i \in 1..(l - 1 + 1)
    BY <1>1
  <2> QED BY <1>1, <1>4, <2>1
<1>7. SubSeq(all, 1, l) = h
  BY <1>4, <1>5, <1>6, SeqEqual DEF l
<1> QED BY <1>1, <1>2, <1>7 DEF all, l

-----------------------------------------------------------------------------
(* The strategies' indicators.                                             *)

\* BreakoutStrategy holds the channel of the last lookback candles of this run.
BreakoutInv(p, s, h) ==
    /\ s.highs = Recent(Highs(h), p.lookback)
    /\ s.lows = Recent(Lows(h), p.lookback)
    /\ Len(h) <= p.lookback => s.prev_high = NoValue

\* MACrossoverStrategy holds the closes of both averages, and which one was
\* above once the slow one is complete.
MACrossoverInv(p, s, h) ==
    s = [fast |-> Recent(Closes(h), p.fast_period),
         slow |-> Recent(Closes(h), p.slow_period),
         was_above |-> IF Len(h) < p.slow_period THEN NoValue ELSE Above(p, h)]

\* What an answer of on_candle owes the history it was given.
BreakoutAnswers(p, answer, h, c) ==
    BreakoutInv(p, answer.state, h) /\ answer.signal = ExpectedSignal(p, h, c)

MACrossoverAnswers(p, answer, h, c) ==
    MACrossoverInv(p, answer.state, h) /\ answer.signal = ExpectedSignal(p, h, c)

LEMMA BreakoutStarts ==
    ASSUME NEW p \in Parameters, p.name = "breakout"
    PROVE  BreakoutInv(p, BreakoutReset, <<>>)
<1>1. p.lookback \in Nat \ {0}
  BY DEF Parameters, Periods
<1>2. Recent(Highs(<<>>), p.lookback) = <<>> /\ Recent(Lows(<<>>), p.lookback) = <<>>
  <2>1. Highs(<<>>) = <<>> /\ Lows(<<>>) = <<>>
    BY DEF Highs, Lows
  <2> QED BY <1>1, <2>1 DEF Recent
<1> QED BY <1>2 DEF BreakoutInv, BreakoutReset

LEMMA BreakoutStep ==
    ASSUME NEW p \in Parameters, p.name = "breakout", NEW s, NEW h \in Seq(Candle),
           NEW candle \in Candle, NEW c, BreakoutInv(p, s, h)
    PROVE  BreakoutAnswers(p, BreakoutOnCandle(p, s, candle, c), Append(h, candle), c)
<1> DEFINE n == p.lookback
           l == Len(h)
           all == Append(h, candle)
           answer == BreakoutOnCandle(p, s, candle, c)
           new == answer.state
           recorded == Len(s.highs) >= n
           high == Max(Range(Recent(Highs(h), n)))
           low == Min(Range(Recent(Lows(h), n)))
<1>1. n \in Nat \ {0}
  BY DEF Parameters, Periods
<1>2. l \in Nat
  BY LenProperties
<1>3. candle.high \in Int /\ candle.low \in Int /\ candle.close \in Int
  BY DEF Candle
<1>4. /\ new.highs = Push(s.highs, candle.high, n)
      /\ new.lows = Push(s.lows, candle.low, n)
      /\ new.prev_high = IF recorded THEN Max(Range(s.highs)) ELSE s.prev_high
      /\ new.prev_low = IF recorded THEN Min(Range(s.lows)) ELSE s.prev_low
      /\ answer.signal = BreakoutSignal(new, Len(new.highs) >= n, candle, c)
  BY DEF BreakoutOnCandle
<1> HIDE DEF n, l, all, answer, new, recorded, high, low
<1>5. /\ Highs(h) \in Seq(Int) /\ Lows(h) \in Seq(Int)
      /\ Len(Highs(h)) = l /\ Len(Lows(h)) = l
      /\ Highs(all) = Append(Highs(h), candle.high)
      /\ Lows(all) = Append(Lows(h), candle.low)
  BY ColumnsGrow DEF all, l
<1>6. /\ s.highs = Recent(Highs(h), n) /\ s.lows = Recent(Lows(h), n)
      /\ l <= n => s.prev_high = NoValue
  BY DEF BreakoutInv, n, l
<1>7. new.highs = Recent(Highs(all), n) /\ new.lows = Recent(Lows(all), n)
  BY <1>1, <1>3, <1>4, <1>5, <1>6, PushKeepsRecent, SMTT(30)
<1>8. Len(s.highs) = IF l < n THEN l ELSE n
  <2>1. Len(Recent(Highs(h), n)) = Held(Highs(h), n)
    BY <1>1, <1>5, RecentFacts
  <2> QED BY <1>5, <1>6, <2>1 DEF Held
<1>9. /\ all \in Seq(Candle) /\ Len(all) = l + 1 /\ all[Len(all)] = candle
      /\ SubSeq(all, 1, Len(all) - 1) = h
  BY BeforeAppend DEF all, l
<1>10. Len(new.highs) = IF l + 1 < n THEN l + 1 ELSE n
  <2>1. /\ Highs(all) \in Seq(Int) /\ Len(Highs(all)) = l + 1
    BY <1>3, <1>5, AppendProperties
  <2>2. Len(Recent(Highs(all), n)) = Held(Highs(all), n)
    BY <1>1, <2>1, RecentFacts
  <2> QED BY <1>7, <2>1, <2>2 DEF Held
<1>11. CASE l < n
  <2>1. ~recorded
    BY <1>1, <1>2, <1>8, <1>11 DEF recorded
  <2>2. new.prev_high = NoValue
    BY <1>1, <1>2, <1>4, <1>6, <1>11, <2>1
  <2>3. answer.signal = NoValue
    BY <1>4, <2>2 DEF BreakoutSignal
  <2>4. ~(Len(all) > p.lookback)
    BY <1>1, <1>2, <1>9, <1>11 DEF n
  <2>5. ExpectedSignal(p, all, c) = NoValue
    BY <2>4 DEF ExpectedSignal
  <2> QED BY <1>7, <2>2, <2>3, <2>5 DEF BreakoutAnswers, BreakoutInv, all, answer, new, n
<1>12. CASE ~(l < n)
  <2>1. recorded /\ Len(new.highs) >= n /\ n <= l /\ Len(all) > n /\ ~(Len(all) <= n)
    BY <1>1, <1>2, <1>8, <1>9, <1>10, <1>12 DEF recorded
  <2>2. new.prev_high = high /\ new.prev_low = low
    BY <1>4, <1>6, <2>1 DEF high, low
  <2>3. high \in Int
    <3>1. Recent(Highs(h), n) \in Seq(Int) /\ Len(Recent(Highs(h), n)) > 0
      BY <1>1, <1>2, <1>5, <1>6, <1>8, <1>12, RecentFacts
    <3>2. /\ Range(Recent(Highs(h), n)) \in SUBSET Int
          /\ Range(Recent(Highs(h), n)) # {} /\ IsFiniteSet(Range(Recent(Highs(h), n)))
      BY <3>1, RangeIsFinite
    <3> QED BY <3>2, MaxIsElement DEF high
  <2>4. new.prev_high # NoValue
    BY <2>2, <2>3, NoValueAssumption
  <2>5. answer.signal = IF MayEnter(c) /\ candle.close > high THEN Enter(high)
                        ELSE IF MayExit(c) /\ candle.close < low THEN Exit ELSE NoValue
    BY <1>4, <2>1, <2>2, <2>4 DEF BreakoutSignal
  <2>6. /\ Max({LastN(h, n)[i].high : i \in DOMAIN LastN(h, n)}) = high
        /\ Min({LastN(h, n)[i].low : i \in DOMAIN LastN(h, n)}) = low
    BY <1>1, <2>1, LastNIsRecent DEF high, low, l
  <2>7. ExpectedSignal(p, all, c)
          = IF MayEnter(c) /\ candle.close > high THEN Enter(high)
            ELSE IF MayExit(c) /\ candle.close < low THEN Exit ELSE NoValue
    BY <1>9, <2>1, <2>6 DEF ExpectedSignal, n
  <2> QED BY <1>7, <2>1, <2>5, <2>7 DEF BreakoutAnswers, BreakoutInv, all, answer, new, n
<1> QED BY <1>11, <1>12

LEMMA MACrossoverStarts ==
    ASSUME NEW p \in Parameters, p.name = "ma_crossover"
    PROVE  MACrossoverInv(p, MACrossoverReset, <<>>)
<1>1. p.fast_period \in Nat \ {0} /\ p.slow_period \in Nat \ {0}
  BY DEF Parameters, Periods
<1>2. /\ Recent(Closes(<<>>), p.fast_period) = <<>>
      /\ Recent(Closes(<<>>), p.slow_period) = <<>>
  <2>1. Closes(<<>>) = <<>>
    BY DEF Closes
  <2> QED BY <1>1, <2>1 DEF Recent
<1>3. Len(<<>>) < p.slow_period
  BY <1>1
<1> QED BY <1>2, <1>3 DEF MACrossoverInv, MACrossoverReset

LEMMA MACrossoverStep ==
    ASSUME NEW p \in Parameters, p.name = "ma_crossover", Valid(p), NEW s,
           NEW h \in Seq(Candle), NEW candle \in Candle, NEW c, MACrossoverInv(p, s, h)
    PROVE  MACrossoverAnswers(p, MACrossoverOnCandle(p, s, candle, c), Append(h, candle), c)
<1> DEFINE f == p.fast_period
           n == p.slow_period
           l == Len(h)
           all == Append(h, candle)
           answer == MACrossoverOnCandle(p, s, candle, c)
           fast == Push(s.fast, candle.close, f)
           slow == Push(s.slow, candle.close, n)
           above == SumOf(fast) * Len(slow) > SumOf(slow) * Len(fast)
           was == IF l < n THEN NoValue ELSE Above(p, h)
<1>1. f \in Nat \ {0} /\ n \in Nat \ {0} /\ f < n
  BY DEF Parameters, Periods, Valid
<1>2. l \in Nat
  BY LenProperties
<1>3. candle.close \in Int
  BY DEF Candle
<1>4. s = [fast |-> Recent(Closes(h), f), slow |-> Recent(Closes(h), n), was_above |-> was]
  BY DEF MACrossoverInv
<1>5. answer = IF Len(slow) < n
               THEN [state |-> [s EXCEPT !.fast = fast, !.slow = slow], signal |-> NoValue]
               ELSE [state |-> [fast |-> fast, slow |-> slow, was_above |-> above],
                     signal |-> MACrossoverSignal(s.was_above, above, c)]
  BY DEF MACrossoverOnCandle
<1> HIDE DEF f, n, l, all, answer, fast, slow, above, was
<1>6. /\ Closes(h) \in Seq(Int) /\ Len(Closes(h)) = l
      /\ Closes(all) = Append(Closes(h), candle.close)
  BY ColumnsGrow DEF all, l
<1>7. s.fast = Recent(Closes(h), f) /\ s.slow = Recent(Closes(h), n) /\ s.was_above = was
  BY <1>4
<1>8. fast = Recent(Closes(all), f) /\ slow = Recent(Closes(all), n)
  BY <1>1, <1>3, <1>6, <1>7, PushKeepsRecent DEF fast, slow
<1>9. /\ all \in Seq(Candle) /\ Len(all) = l + 1 /\ all[Len(all)] = candle
      /\ SubSeq(all, 1, Len(all) - 1) = h
  BY BeforeAppend DEF all, l
<1>10. /\ Len(fast) = IF l + 1 < f THEN l + 1 ELSE f
       /\ Len(slow) = IF l + 1 < n THEN l + 1 ELSE n
  <2>1. Closes(all) \in Seq(Int) /\ Len(Closes(all)) = l + 1
    BY <1>3, <1>6, AppendProperties
  <2>2. /\ Len(Recent(Closes(all), f)) = Held(Closes(all), f)
        /\ Len(Recent(Closes(all), n)) = Held(Closes(all), n)
    BY <1>1, <2>1, RecentFacts
  <2> QED BY <1>8, <2>1, <2>2 DEF Held
<1>11. CASE l + 1 < n
  <2>1. Len(slow) < n /\ l < n /\ Len(all) < n /\ ~(Len(all) > n)
    BY <1>1, <1>2, <1>9, <1>10, <1>11
  <2>2. was = NoValue
    BY <2>1 DEF was
  <2>3. answer.signal = NoValue /\ answer.state = [s EXCEPT !.fast = fast, !.slow = slow]
    BY <1>5, <2>1
  <2>4. answer.state = [fast |-> fast, slow |-> slow, was_above |-> NoValue]
    BY <1>4, <2>2, <2>3
  <2>5. MACrossoverInv(p, answer.state, all)
    BY <1>8, <2>1, <2>4 DEF MACrossoverInv, f, n
  <2>6. ExpectedSignal(p, all, c) = NoValue
    BY <2>1 DEF ExpectedSignal, n
  <2> QED BY <2>3, <2>5, <2>6 DEF MACrossoverAnswers, answer, all
<1>12. CASE ~(l + 1 < n)
  <2>1. Len(fast) = f /\ Len(slow) = n /\ ~(Len(slow) < n) /\ ~(Len(all) < n)
        /\ f <= Len(all) /\ n <= Len(all)
    BY <1>1, <1>2, <1>9, <1>10, <1>12
  <2>2. above = Above(p, all)
    <3>1. Average(all, f) = SumOf(fast) /\ Average(all, n) = SumOf(slow)
      BY <1>1, <1>8, <1>9, <2>1, LastNIsRecent DEF Average
    <3> QED BY <2>1, <3>1 DEF Above, above, f, n
  <2>3. /\ answer.state = [fast |-> fast, slow |-> slow, was_above |-> above]
        /\ answer.signal = MACrossoverSignal(was, above, c)
    BY <1>5, <1>7, <2>1
  <2>4. MACrossoverInv(p, answer.state, all)
    BY <1>8, <2>1, <2>2, <2>3 DEF MACrossoverInv, f, n
  <2>5. answer.signal = ExpectedSignal(p, all, c)
    <3>1. CASE l < n
      <4>1. was = NoValue /\ ~(Len(all) > n)
        BY <1>1, <1>2, <1>9, <3>1 DEF was
      <4>2. MACrossoverSignal(was, above, c) = NoValue
        BY <4>1 DEF MACrossoverSignal
      <4>3. ExpectedSignal(p, all, c) = NoValue
        BY <4>1 DEF ExpectedSignal, n
      <4> QED BY <2>3, <4>2, <4>3
    <3>2. CASE ~(l < n)
      <4>1. was = Above(p, h) /\ Len(all) > n
        BY <1>1, <1>2, <1>9, <3>2 DEF was
      <4>2. ExpectedSignal(p, all, c) = MACrossoverSignal(Above(p, h), Above(p, all), c)
        BY <1>9, <4>1 DEF ExpectedSignal, n
      <4> QED BY <2>2, <2>3, <4>1, <4>2
    <3> QED BY <3>1, <3>2
  <2> QED BY <2>4, <2>5 DEF MACrossoverAnswers, answer, all
<1> QED BY <1>11, <1>12

-----------------------------------------------------------------------------
(* Recursion: sums and powers as the solutions of their equations.         *)

\* Induction over 0..n: a set of indices that contains 0 and grows is all of them.
LEMMA Induction ==
    ASSUME NEW n \in Nat, NEW S \in SUBSET (0..n), 0 \in S,
           \A k \in 1..n : k - 1 \in S => k \in S
    PROVE  S = 0..n
<1> DEFINE T == {k \in Nat : k \in 0..n /\ k \notin S}
<1> SUFFICES ASSUME T # {} PROVE FALSE
  <2>1. \A k \in 0..n : k \in Nat
    OBVIOUS
  <2> QED BY <2>1
<1>1. PICK m \in T : \A k \in T : m <= k
  <2>1. T \in SUBSET Nat
    OBVIOUS
  <2> HIDE DEF T
  <2> QED BY <2>1, LeastNatural
<1>2. m \in 0..n /\ m \notin S /\ m # 0
  BY <1>1
<1>3. m \in 1..n /\ m - 1 \in 0..n /\ m - 1 \in Nat
  BY <1>2
<1>4. m - 1 \notin T
  BY <1>1, <1>3
<1> QED BY <1>2, <1>3, <1>4

\* The recursion f[0] = c, f[k] = a * f[k-1] + b[k] has a solution
Solves(f, n, c, a, b) ==
    /\ f \in [0..n -> Int]
    /\ f[0] = c
    /\ \A k \in 1..n : f[k] = a * f[k - 1] + b[k]

LEMMA SolutionExists ==
    ASSUME NEW n \in Nat, NEW c \in Int, NEW a \in Int, NEW b \in [1..n -> Int]
    PROVE  \E f : Solves(f, n, c, a, b)
<1> DEFINE S == {m \in 0..n : \E f : Solves(f, m, c, a, b)}
<1>1. 0 \in S
  <2>1. Solves([k \in 0..0 |-> c], 0, c, a, b)
    BY DEF Solves
  <2> QED BY <2>1
<1>2. ASSUME NEW m \in 1..n, m - 1 \in S PROVE m \in S
  <2>1. PICK g : Solves(g, m - 1, c, a, b)
    BY <1>2
  <2>2. m - 1 \in 0..(m - 1) /\ g[m - 1] \in Int /\ m \in Nat /\ m - 1 \in Nat
    BY <2>1 DEF Solves
  <2>3. a * g[m - 1] \in Int /\ b[m] \in Int
    BY <2>2
  <2> DEFINE v == a * g[m - 1] + b[m]
             f == [k \in 0..m |-> IF k = m THEN v ELSE g[k]]
  <2>4. v \in Int
    BY <2>3
  <2>5. f \in [0..m -> Int]
    <3>1. ASSUME NEW k \in 0..m, k # m PROVE g[k] \in Int
      <4>1. k \in 0..(m - 1)
        BY <2>2, <3>1
      <4> QED BY <2>1, <4>1 DEF Solves
    <3> HIDE DEF v
    <3> QED BY <2>4, <3>1
  <2>6. f[0] = c
    <3>1. 0 \in 0..m /\ 0 # m
      BY <2>2
    <3> QED BY <2>1, <3>1 DEF Solves
  <2>7. ASSUME NEW k \in 1..m PROVE f[k] = a * f[k - 1] + b[k]
    <3>1. k \in 0..m /\ k - 1 \in 0..m /\ k - 1 # m
      BY <2>2
    <3>2. f[k - 1] = g[k - 1]
      BY <3>1
    <3>3. CASE k = m
      BY <3>1, <3>2, <3>3
    <3>4. CASE k # m
      <4>1. k \in 1..(m - 1)
        BY <2>2, <3>4
      <4>2. f[k] = g[k]
        BY <3>1, <3>4
      <4>3. g[k] = a * g[k - 1] + b[k]
        BY <2>1, <4>1 DEF Solves
      <4> HIDE DEF f
      <4> QED BY <3>2, <4>2, <4>3
    <3> QED BY <3>3, <3>4
  <2> HIDE DEF f
  <2>8. Solves(f, m, c, a, b)
    BY <2>5, <2>6, <2>7 DEF Solves
  <2> QED BY <2>2, <2>8
<1> HIDE DEF S
<1>3. S \in SUBSET (0..n)
  BY DEF S
<1>4. S = 0..n
  BY <1>1, <1>2, <1>3, Induction
<1>5. n \in S
  BY <1>4
<1> QED BY <1>5 DEF S

\* ... and only one.
LEMMA SolutionUnique ==
    ASSUME NEW n \in Nat, NEW c, NEW a, NEW b, NEW f, NEW g,
           Solves(f, n, c, a, b), Solves(g, n, c, a, b)
    PROVE  \A k \in 0..n : f[k] = g[k]
<1> DEFINE S == {k \in 0..n : f[k] = g[k]}
<1>1. 0 \in S
  BY DEF Solves
<1>2. ASSUME NEW k \in 1..n, k - 1 \in S PROVE k \in S
  BY <1>2 DEF Solves
<1>3. S \in SUBSET (0..n)
  OBVIOUS
<1> HIDE DEF S
<1>4. S = 0..n
  BY <1>1, <1>2, <1>3, Induction
<1> QED BY <1>4 DEF S

\* SumOf is a solution.
LEMMA SumSolves ==
    ASSUME NEW s \in Seq(Int)
    PROVE  \E f : Solves(f, Len(s), 0, 1, s) /\ SumOf(s) = f[Len(s)]
<1> DEFINE n == Len(s)
           Def(f) == f = [k \in 0..n |-> IF k = 0 THEN 0 ELSE f[k - 1] + s[k]]
           h == CHOOSE f : Def(f)
<1>1. n \in Nat /\ s \in [1..n -> Int]
  BY LenProperties
<1>2. SumOf(s) = h[n]
  BY DEF SumOf
<1> HIDE DEF n
<1>3. PICK f : Solves(f, n, 0, 1, s)
  BY <1>1, SolutionExists
<1>4. Def(f)
  <2>1. ASSUME NEW k \in 0..n PROVE f[k] = IF k = 0 THEN 0 ELSE f[k - 1] + s[k]
    <3>1. CASE k = 0
      BY <1>3, <3>1 DEF Solves
    <3>2. CASE k # 0
      <4>1. k \in 1..n /\ k - 1 \in 0..n
        BY <1>1, <3>2
      <4>2. f[k] = 1 * f[k - 1] + s[k] /\ f[k - 1] \in Int
        BY <1>3, <4>1 DEF Solves
      <4> QED BY <3>2, <4>2
    <3> QED BY <3>1, <3>2
  <2>2. f \in [0..n -> Int]
    BY <1>3 DEF Solves
  <2> QED BY <2>1, <2>2
<1>5. Def(h)
  BY <1>4
<1> HIDE DEF h
<1>6. h \in [0..n -> Int]
  <2> DEFINE S == {k \in 0..n : h[k] \in Int}
  <2>1. 0 \in S
    BY <1>1, <1>5
  <2>2. ASSUME NEW k \in 1..n, k - 1 \in S PROVE k \in S
    BY <1>1, <1>5, <2>2
  <2>3. S \in SUBSET (0..n)
    OBVIOUS
  <2> HIDE DEF S
  <2>4. S = 0..n
    BY <1>1, <2>1, <2>2, <2>3, Induction
  <2> QED BY <1>5, <2>4 DEF S
<1>7. Solves(h, n, 0, 1, s)
  <2>1. h[0] = 0
    BY <1>1, <1>5
  <2>2. ASSUME NEW k \in 1..n PROVE h[k] = 1 * h[k - 1] + s[k]
    <3>1. k \in 0..n /\ k - 1 \in 0..n /\ k # 0
      BY <1>1
    <3>2. h[k] = h[k - 1] + s[k] /\ h[k - 1] \in Int
      BY <1>5, <1>6, <3>1
    <3> QED BY <3>2
  <2> QED BY <1>6, <2>1, <2>2 DEF Solves
<1> QED BY <1>2, <1>7 DEF n

LEMMA SumFacts ==
    ASSUME NEW s \in Seq(Int)
    PROVE  SumOf(s) \in Int
<1>1. PICK f : Solves(f, Len(s), 0, 1, s) /\ SumOf(s) = f[Len(s)]
  BY SumSolves
<1> QED BY <1>1, LenProperties DEF Solves

LEMMA SumOfNone == SumOf(<<>>) = 0
<1>1. <<>> \in Seq(Int) /\ Len(<<>>) = 0
  OBVIOUS
<1>2. PICK f : Solves(f, 0, 0, 1, <<>>) /\ SumOf(<<>>) = f[0]
  BY <1>1, SumSolves
<1> QED BY <1>2 DEF Solves

\* One more element.
LEMMA SumAppend ==
    ASSUME NEW s \in Seq(Int), NEW x \in Int
    PROVE  SumOf(Append(s, x)) = SumOf(s) + x
<1> DEFINE t == Append(s, x)
           n == Len(s)
<1>1. /\ t \in Seq(Int) /\ n \in Nat /\ Len(t) = n + 1 /\ t[n + 1] = x
      /\ \A k \in 1..n : t[k] = s[k]
  BY AppendProperties, LenProperties
<1> HIDE DEF t
<1>2. PICK f : Solves(f, n, 0, 1, s) /\ SumOf(s) = f[n]
  BY SumSolves
<1>3. PICK g : Solves(g, n + 1, 0, 1, t) /\ SumOf(t) = g[n + 1]
  BY <1>1, SumSolves
<1> HIDE DEF n
<1> DEFINE h == [k \in 0..n |-> g[k]]
<1>4. Solves(h, n, 0, 1, s)
  <2>1. \A k \in 0..n : k \in 0..(n + 1) /\ g[k] \in Int
    BY <1>1, <1>3 DEF Solves
  <2>2. h \in [0..n -> Int] /\ h[0] = 0
    BY <1>1, <1>3, <2>1 DEF Solves
  <2>3. ASSUME NEW k \in 1..n PROVE h[k] = 1 * h[k - 1] + s[k]
    <3>1. k \in 0..n /\ k - 1 \in 0..n /\ k \in 1..(n + 1)
      BY <1>1
    <3>2. g[k] = 1 * g[k - 1] + t[k]
      BY <1>3, <3>1 DEF Solves
    <3> QED BY <1>1, <3>1, <3>2
  <2> HIDE DEF h
  <2> QED BY <2>2, <2>3 DEF Solves
<1>5. h[n] = f[n]
  <2> HIDE DEF h
  <2> QED BY <1>1, <1>2, <1>4, SolutionUnique
<1>6. g[n + 1] = 1 * g[n] + x /\ g[n] \in Int
  BY <1>1, <1>3 DEF Solves
<1>7. h[n] = g[n]
  BY <1>1
<1> QED BY <1>2, <1>3, <1>5, <1>6, <1>7 DEF t

\* A common factor.
LEMMA SumScaled ==
    ASSUME NEW s \in Seq(Int), NEW t \in Seq(Int), NEW c \in Int, Len(t) = Len(s),
           \A k \in 1..Len(s) : t[k] = c * s[k]
    PROVE  SumOf(t) = c * SumOf(s)
<1> DEFINE n == Len(s)
<1>1. n \in Nat /\ \A k \in 1..n : s[k] \in Int
  BY LenProperties
<1>2. PICK f : Solves(f, n, 0, 1, s) /\ SumOf(s) = f[n]
  BY SumSolves
<1>3. PICK g : Solves(g, n, 0, 1, t) /\ SumOf(t) = g[n]
  BY SumSolves
<1>4. \A k \in 1..n : t[k] = c * s[k]
  OBVIOUS
<1> HIDE DEF n
<1> DEFINE S == {k \in 0..n : g[k] = c * f[k]}
<1>5. 0 \in S
  BY <1>1, <1>2, <1>3 DEF Solves
<1>6. ASSUME NEW k \in 1..n, k - 1 \in S PROVE k \in S
  <2>1. /\ k \in 0..n /\ k - 1 \in 0..n /\ f[k - 1] \in Int /\ g[k - 1] \in Int
        /\ s[k] \in Int
    BY <1>1, <1>2, <1>3 DEF Solves
  <2>2. f[k] = f[k - 1] + s[k]
    BY <1>2, <2>1 DEF Solves
  <2>3. g[k] = g[k - 1] + t[k]
    BY <1>3, <2>1 DEF Solves
  <2>4. g[k - 1] = c * f[k - 1] /\ t[k] = c * s[k]
    BY <1>4, <1>6
  <2>5. c * (f[k - 1] + s[k]) = c * f[k - 1] + c * s[k]
    BY <2>1
  <2> QED BY <2>1, <2>2, <2>3, <2>4, <2>5
<1>7. S \in SUBSET (0..n)
  OBVIOUS
<1> HIDE DEF S
<1>8. S = 0..n
  BY <1>1, <1>5, <1>6, <1>7, Induction
<1>9. n \in S
  BY <1>1, <1>8
<1> QED BY <1>2, <1>3, <1>9 DEF S

\* Powers.
LEMMA PowerSolves ==
    ASSUME NEW b \in Int, NEW n \in Nat
    PROVE  \E f : Solves(f, n, 1, b, [k \in 1..n |-> 0]) /\ Power(b, n) = f[n]
<1> DEFINE zero == [k \in 1..n |-> 0]
           Def(f) == f = [k \in 0..n |-> IF k = 0 THEN 1 ELSE b * f[k - 1]]
           h == CHOOSE f : Def(f)
<1>1. Power(b, n) = h[n]
  BY DEF Power
<1>2. PICK f : Solves(f, n, 1, b, zero)
  <2>1. zero \in [1..n -> Int]
    OBVIOUS
  <2> HIDE DEF zero
  <2> QED BY <2>1, SolutionExists
<1>3. Def(f)
  <2>1. ASSUME NEW k \in 0..n PROVE f[k] = IF k = 0 THEN 1 ELSE b * f[k - 1]
    <3>1. CASE k = 0
      BY <1>2, <3>1 DEF Solves
    <3>2. CASE k # 0
      <4>1. k \in 1..n /\ k - 1 \in 0..n /\ zero[k] = 0
        BY <3>2
      <4>2. f[k] = b * f[k - 1] + 0 /\ f[k - 1] \in Int
        BY <1>2, <4>1 DEF Solves
      <4> QED BY <3>2, <4>2
    <3> QED BY <3>1, <3>2
  <2>2. f \in [0..n -> Int]
    BY <1>2 DEF Solves
  <2> QED BY <2>1, <2>2
<1>4. Def(h)
  BY <1>3
<1> HIDE DEF h
<1>5. h \in [0..n -> Int]
  <2> DEFINE S == {k \in 0..n : h[k] \in Int}
  <2>1. 0 \in S
    BY <1>4
  <2>2. ASSUME NEW k \in 1..n, k - 1 \in S PROVE k \in S
    <3>1. k \in 0..n /\ k # 0 /\ h[k - 1] \in Int
      BY <2>2
    <3>2. h[k] = b * h[k - 1]
      BY <1>4, <3>1
    <3> QED BY <3>1, <3>2
  <2>3. S \in SUBSET (0..n)
    OBVIOUS
  <2> HIDE DEF S
  <2>4. S = 0..n
    BY <2>1, <2>2, <2>3, Induction
  <2> QED BY <1>4, <2>4 DEF S
<1>6. Solves(h, n, 1, b, zero)
  <2>1. h[0] = 1
    BY <1>4
  <2>2. ASSUME NEW k \in 1..n PROVE h[k] = b * h[k - 1] + zero[k]
    <3>1. k \in 0..n /\ k - 1 \in 0..n /\ k # 0 /\ zero[k] = 0
      OBVIOUS
    <3>2. h[k] = b * h[k - 1] /\ h[k - 1] \in Int
      BY <1>4, <1>5, <3>1
    <3> QED BY <3>1, <3>2
  <2> HIDE DEF zero
  <2> QED BY <1>5, <2>1, <2>2 DEF Solves
<1> QED BY <1>1, <1>6

LEMMA PowerFacts ==
    ASSUME NEW b \in Int, NEW n \in Nat
    PROVE  /\ Power(b, n) \in Int
           /\ Power(b, 0) = 1
           /\ Power(b, n + 1) = b * Power(b, n)
<1> DEFINE Zero(m) == [k \in 1..m |-> 0]
<1>1. PICK f : Solves(f, n, 1, b, Zero(n)) /\ Power(b, n) = f[n]
  BY PowerSolves
<1>2. PICK g : Solves(g, n + 1, 1, b, Zero(n + 1)) /\ Power(b, n + 1) = g[n + 1]
  <2>1. n + 1 \in Nat
    OBVIOUS
  <2> QED BY <2>1, PowerSolves
<1>3. PICK e : Solves(e, 0, 1, b, Zero(0)) /\ Power(b, 0) = e[0]
  BY PowerSolves
<1> DEFINE h == [k \in 0..n |-> g[k]]
<1>4. Solves(h, n, 1, b, Zero(n))
  <2>1. \A k \in 0..n : k \in 0..(n + 1) /\ g[k] \in Int
    BY <1>2 DEF Solves
  <2>2. h \in [0..n -> Int] /\ h[0] = 1
    BY <1>2, <2>1 DEF Solves
  <2>3. ASSUME NEW k \in 1..n PROVE h[k] = b * h[k - 1] + Zero(n)[k]
    <3>1. k \in 0..n /\ k - 1 \in 0..n /\ k \in 1..(n + 1)
      OBVIOUS
    <3>2. Zero(n)[k] = 0 /\ Zero(n + 1)[k] = 0
      BY <3>1
    <3>3. g[k] = b * g[k - 1] + Zero(n + 1)[k]
      BY <1>2, <3>1 DEF Solves
    <3> QED BY <3>1, <3>2, <3>3
  <2> HIDE DEF h, Zero
  <2> QED BY <2>2, <2>3 DEF Solves
<1>5. h[n] = f[n]
  <2> HIDE DEF h, Zero
  <2> QED BY <1>1, <1>4, SolutionUnique
<1>6. g[n + 1] = b * g[n]
  <2>1. n + 1 \in 1..(n + 1) /\ n \in 0..(n + 1) /\ Zero(n + 1)[n + 1] = 0
    OBVIOUS
  <2>2. g[n + 1] = b * g[n] + 0 /\ g[n] \in Int
    BY <1>2, <2>1 DEF Solves
  <2> QED BY <2>2
<1>7. h[n] = g[n] /\ f[n] \in Int /\ e[0] = 1
  BY <1>1, <1>3 DEF Solves
<1> QED BY <1>1, <1>2, <1>3, <1>5, <1>6, <1>7

-----------------------------------------------------------------------------
(* Wilder's average.                                                       *)

\* The changes after the seed, with the weights of the closed form.
Weights(P, moves) ==
    LET n == Len(moves) - P
    IN  [k \in 1..n |-> moves[P + k] * Power(P - 1, n - k) * Power(P, k)]

LEMMA WeightsType ==
    ASSUME NEW P \in Nat \ {0}, NEW moves \in Seq(Int), P <= Len(moves)
    PROVE  /\ Weights(P, moves) \in Seq(Int)
           /\ Len(Weights(P, moves)) = Len(moves) - P
           /\ \A k \in 1..(Len(moves) - P) :
                /\ moves[P + k] \in Int
                /\ Weights(P, moves)[k]
                     = moves[P + k] * Power(P - 1, Len(moves) - P - k) * Power(P, k)
<1> DEFINE n == Len(moves) - P
           w == Weights(P, moves)
<1>1. n \in Nat /\ Len(moves) \in Nat
  BY LenProperties
<1>2. w = [k \in 1..n |-> moves[P + k] * Power(P - 1, n - k) * Power(P, k)]
  BY DEF Weights
<1>3. ASSUME NEW k \in 1..n
      PROVE  moves[P + k] \in Int /\ moves[P + k] * Power(P - 1, n - k) * Power(P, k) \in Int
  <2>1. P + k \in 1..Len(moves) /\ n - k \in Nat /\ k \in Nat /\ P - 1 \in Int /\ P \in Int
    BY <1>1
  <2>2. moves[P + k] \in Int
    BY <2>1, ElementOfSeq
  <2>3. Power(P - 1, n - k) \in Int /\ Power(P, k) \in Int
    BY <2>1, PowerFacts
  <2>4. moves[P + k] * Power(P - 1, n - k) \in Int
    BY <2>2, <2>3
  <2> QED BY <2>2, <2>3, <2>4
<1> HIDE DEF n, w
<1>4. w \in [1..n -> Int]
  BY <1>2, <1>3
<1>5. w \in Seq(Int) /\ Len(w) = n
  BY <1>1, <1>4
<1>6. \A k \in 1..n : w[k] = moves[P + k] * Power(P - 1, n - k) * Power(P, k)
  BY <1>2
<1> QED BY <1>3, <1>5, <1>6 DEF n, w

\* The seed does not change after its P changes.
LEMMA SeedStays ==
    ASSUME NEW P \in Nat \ {0}, NEW moves \in Seq(Int), P <= Len(moves), NEW m \in Int
    PROVE  /\ SubSeq(moves, 1, P) \in Seq(Int)
           /\ SubSeq(Append(moves, m), 1, P) = SubSeq(moves, 1, P)
           /\ Len(moves) = P => SubSeq(moves, 1, P) = moves
<1> DEFINE all == Append(moves, m)
           l == Len(moves)
<1>1. /\ all \in Seq(Int) /\ Len(all) = l + 1 /\ l \in Nat
      /\ \A i \in 1..l : all[i] = moves[i]
  BY AppendProperties, LenProperties
<1>2. \A i \in 1..P : i \in 1..l /\ i \in 1..Len(all) /\ moves[i] \in Int /\ all[i] = moves[i]
  BY <1>1, ElementOfSeq
<1> HIDE DEF all, l
<1>3. /\ SubSeq(moves, 1, P) \in Seq(Int) /\ Len(SubSeq(moves, 1, P)) = P
      /\ \A i \in 1..P : SubSeq(moves, 1, P)[i] = moves[i]
  BY <1>2
<1>4. /\ SubSeq(all, 1, P) \in Seq(Int) /\ Len(SubSeq(all, 1, P)) = P
      /\ \A i \in 1..P : SubSeq(all, 1, P)[i] = all[i]
  BY <1>1, <1>2
<1>5. SubSeq(all, 1, P) = SubSeq(moves, 1, P)
  BY <1>2, <1>3, <1>4, SeqEqual
<1>6. l = P => SubSeq(moves, 1, P) = moves
  BY <1>3, SeqEqual DEF l
<1> QED BY <1>3, <1>5, <1>6 DEF all, l

\* Wilder's average of exactly period changes is their sum,
LEMMA WilderFirst ==
    ASSUME NEW p, p.period \in Nat \ {0}, NEW moves \in Seq(Int), Len(moves) = p.period
    PROVE  WilderTotal(p, moves) = SumOf(moves)
<1> DEFINE P == p.period
<1>1. P \in Nat \ {0} /\ P <= Len(moves) /\ Len(moves) - P = 0 /\ 0 \in Int /\ P - 1 \in Int
  OBVIOUS
<1>2. WilderTotal(p, moves)
        = SumOf(SubSeq(moves, 1, P)) * Power(P - 1, Len(moves) - P) + SumOf(Weights(P, moves))
  BY DEF WilderTotal, Weights
<1>3. SubSeq(moves, 1, P) = moves
  BY <1>1, SeedStays
<1>4. Weights(P, moves) = <<>>
  <2>1. Weights(P, moves) \in Seq(Int) /\ Len(Weights(P, moves)) = 0
    BY <1>1, WeightsType
  <2> QED BY <2>1, EmptySeq
<1>5. Power(P - 1, 0) = 1 /\ SumOf(moves) \in Int
  BY <1>1, PowerFacts, SumFacts
<1>6. WilderTotal(p, moves) = SumOf(moves) * 1 + 0
  <2> HIDE DEF P
  <2> QED BY <1>1, <1>2, <1>3, <1>4, <1>5, SumOfNone
<1> QED BY <1>5, <1>6

\* and every further change makes it one step of his recurrence.
LEMMA WilderNext ==
    ASSUME NEW p, p.period \in Nat \ {0}, NEW moves \in Seq(Int), p.period <= Len(moves),
           NEW m \in Int
    PROVE  WilderTotal(p, Append(moves, m))
             = WilderTotal(p, moves) * (p.period - 1)
               + m * Power(p.period, Len(moves) - p.period + 1)
<1> DEFINE P == p.period
           Q == P - 1
           all == Append(moves, m)
           n == Len(moves) - P
           w == Weights(P, moves)
           v == Weights(P, all)
           seed == SumOf(SubSeq(moves, 1, P))
           last == m * Power(P, n + 1)
           u == [k \in 1..n |-> Q * w[k]]
<1>1. /\ P \in Nat \ {0} /\ Q \in Nat /\ Len(moves) \in Nat /\ n \in Nat /\ P + n = Len(moves)
      /\ P <= Len(moves) /\ P \in Int /\ Q \in Int
  BY LenProperties
<1>2. /\ all \in Seq(Int) /\ Len(all) = Len(moves) + 1 /\ all[Len(moves) + 1] = m
      /\ \A i \in 1..Len(moves) : all[i] = moves[i]
  BY AppendProperties
<1>3. /\ WilderTotal(p, moves) = seed * Power(Q, n) + SumOf(w)
      /\ WilderTotal(p, all)
           = SumOf(SubSeq(all, 1, P)) * Power(Q, Len(all) - P) + SumOf(v)
  BY DEF WilderTotal, Weights
<1>4. SubSeq(all, 1, P) = SubSeq(moves, 1, P) /\ SubSeq(moves, 1, P) \in Seq(Int)
  BY <1>1, SeedStays
<1> HIDE DEF P, all
<1>5. /\ w \in Seq(Int) /\ Len(w) = n
      /\ \A k \in 1..n : /\ moves[P + k] \in Int
                         /\ w[k] = moves[P + k] * Power(Q, n - k) * Power(P, k)
  BY <1>1, WeightsType
<1>6. Len(all) - P = n + 1 /\ P <= Len(all)
  BY <1>1, <1>2
<1>7. /\ v \in Seq(Int) /\ Len(v) = n + 1
      /\ \A k \in 1..(n + 1) : v[k] = all[P + k] * Power(Q, n + 1 - k) * Power(P, k)
  <2>1. /\ v \in Seq(Int) /\ Len(v) = Len(all) - P
        /\ \A k \in 1..(Len(all) - P) :
             v[k] = all[P + k] * Power(P - 1, Len(all) - P - k) * Power(P, k)
    BY <1>1, <1>2, <1>6, WeightsType
  <2> HIDE DEF v, n
  <2>2. ASSUME NEW k \in 1..(n + 1)
        PROVE  v[k] = all[P + k] * Power(Q, n + 1 - k) * Power(P, k)
    <3>1. k \in 1..(Len(all) - P) /\ Len(all) - P - k = n + 1 - k
      BY <1>1, <1>2, <1>6
    <3>2. v[k] = all[P + k] * Power(P - 1, Len(all) - P - k) * Power(P, k)
      BY <2>1, <3>1
    <3> QED BY <3>1, <3>2
  <2> QED BY <1>6, <2>1, <2>2
<1> HIDE DEF n, w, v, Q, seed
<1>8. ASSUME NEW k \in 1..n PROVE v[k] = Q * w[k] /\ w[k] \in Int
  <2>1. /\ k \in 1..(n + 1) /\ P + k \in 1..Len(moves) /\ n - k \in Nat /\ n + 1 - k = (n - k) + 1
        /\ k \in Nat
    BY <1>1
  <2>2. /\ Power(Q, n - k) \in Int /\ Power(P, k) \in Int
        /\ Power(Q, n + 1 - k) = Q * Power(Q, n - k)
    BY <1>1, <2>1, PowerFacts
  <2>3. v[k] = moves[P + k] * (Q * Power(Q, n - k)) * Power(P, k)
    BY <1>2, <1>7, <2>1, <2>2
  <2> DEFINE a == moves[P + k]
             b == Power(Q, n - k)
             e == Power(P, k)
  <2>4. a \in Int /\ b \in Int /\ e \in Int /\ Q \in Int
    BY <1>1, <1>5, <2>2
  <2>5. v[k] = a * (Q * b) * e /\ w[k] = a * b * e
    BY <1>5, <2>3
  <2> HIDE DEF a, b, e
  <2>6. a * b \in Int /\ a * (Q * b) = Q * (a * b)
    BY <2>4
  <2> DEFINE ab == a * b
  <2> HIDE DEF ab
  <2>7. ab \in Int /\ v[k] = (Q * ab) * e /\ w[k] = ab * e
    BY <2>5, <2>6 DEF ab
  <2>8. (Q * ab) * e = Q * (ab * e) /\ ab * e \in Int
    BY <2>4, <2>7
  <2> QED BY <2>7, <2>8
<1>9. v[n + 1] = last /\ last \in Int
  <2>1. n + 1 \in 1..(n + 1) /\ n + 1 - (n + 1) = 0 /\ P + (n + 1) = Len(moves) + 1 /\ n + 1 \in Nat
    BY <1>1
  <2>2. Power(Q, 0) = 1 /\ Power(P, n + 1) \in Int
    BY <1>1, <2>1, PowerFacts
  <2>3. v[n + 1] = m * 1 * Power(P, n + 1)
    BY <1>2, <1>7, <2>1, <2>2
  <2> QED BY <2>2, <2>3
<1> HIDE DEF last
<1>10. u \in Seq(Int) /\ Len(u) = n /\ \A k \in 1..n : u[k] = Q * w[k]
  <2>1. \A k \in 1..n : Q * w[k] \in Int
    BY <1>1, <1>8
  <2>2. u \in [1..n -> Int]
    BY <2>1
  <2> QED BY <1>1, <2>2
<1> HIDE DEF u
<1>11. v = Append(u, last)
  <2>1. /\ Append(u, last) \in Seq(Int) /\ Len(Append(u, last)) = n + 1
        /\ Append(u, last)[n + 1] = last
        /\ \A k \in 1..n : Append(u, last)[k] = u[k]
    BY <1>9, <1>10, AppendProperties
  <2>2. ASSUME NEW k \in 1..(n + 1) PROVE v[k] = Append(u, last)[k]
    <3>1. CASE k = n + 1
      BY <1>9, <2>1, <3>1
    <3>2. CASE k # n + 1
      <4>1. k \in 1..n
        BY <1>1, <3>2
      <4> QED BY <1>8, <1>10, <2>1, <4>1
    <3> QED BY <3>1, <3>2
  <2> QED BY <1>7, <2>1, <2>2, SeqEqual
<1>12. SumOf(v) = Q * SumOf(w) + last
  <2>1. SumOf(u) = Q * SumOf(w)
    <3>1. Len(u) = Len(w) /\ \A k \in 1..Len(w) : u[k] = Q * w[k]
      BY <1>5, <1>10
    <3> QED BY <1>1, <1>5, <1>10, <3>1, SumScaled
  <2> QED BY <1>9, <1>10, <1>11, <2>1, SumAppend
<1>13. /\ seed \in Int /\ SumOf(w) \in Int /\ Power(Q, n) \in Int
       /\ Power(Q, n + 1) = Q * Power(Q, n)
  <2>1. seed \in Int
    BY <1>4, SumFacts DEF seed
  <2>2. SumOf(w) \in Int
    BY <1>5, SumFacts
  <2>3. Power(Q, n) \in Int /\ Power(Q, n + 1) = Q * Power(Q, n)
    BY <1>1, PowerFacts
  <2> QED BY <2>1, <2>2, <2>3
<1>14. WilderTotal(p, all) = seed * (Q * Power(Q, n)) + (Q * SumOf(w) + last)
  BY <1>3, <1>4, <1>6, <1>12, <1>13 DEF seed
<1>15. seed * (Q * Power(Q, n)) + (Q * SumOf(w) + last)
         = (seed * Power(Q, n) + SumOf(w)) * Q + last
  <2> DEFINE a == Power(Q, n)
             b == SumOf(w)
  <2>1. a \in Int /\ b \in Int /\ Q \in Int
    BY <1>1, <1>13
  <2> HIDE DEF a, b
  <2>2. seed * (Q * a) = (seed * a) * Q /\ seed * a \in Int
    BY <1>13, <2>1
  <2> DEFINE c == seed * a
  <2> HIDE DEF c
  <2>3. c \in Int /\ (c + b) * Q = c * Q + Q * b
    BY <2>1, <2>2 DEF c
  <2>4. c * Q \in Int /\ Q * b \in Int
    BY <2>1, <2>3
  <2>5. seed * (Q * a) + (Q * b + last) = (c + b) * Q + last
    BY <1>9, <2>2, <2>3, <2>4 DEF c
  <2> QED BY <2>5 DEF a, b, c
<1> QED BY <1>3, <1>14, <1>15 DEF P, Q, n, last, all

\* What an update by x adds to the average of one sign.
LEMMA MaxOfTwo ==
    ASSUME NEW x \in Int
    PROVE  Max({x, 0}) \in Int
<1>1. IsFiniteSet({x}) /\ {x, 0} = {x} \cup {0}
  BY FS_Singleton
<1>2. IsFiniteSet({x, 0})
  BY <1>1, FS_AddElement
<1> QED BY <1>2, MaxIsElement

\* The gains (sign 1) or losses (sign -1) between the closes of a history.
MovesOf(h, sign) ==
    [i \in 1..(Len(h) - 1) |-> Max({sign * (h[i + 1].close - h[i].close), 0})]

LEMMA MovesGrow ==
    ASSUME NEW h \in Seq(Candle), h # <<>>, NEW c \in Candle, NEW sign \in {1, -1}
    PROVE  /\ MovesOf(h, sign) \in Seq(Int) /\ Len(MovesOf(h, sign)) = Len(h) - 1
           /\ Max({sign * (c.close - h[Len(h)].close), 0}) \in Int
           /\ MovesOf(Append(h, c), sign)
                = Append(MovesOf(h, sign), Max({sign * (c.close - h[Len(h)].close), 0}))
<1> DEFINE l == Len(h)
           all == Append(h, c)
           Move(s, i) == Max({sign * (s[i + 1].close - s[i].close), 0})
           last == Max({sign * (c.close - h[l].close), 0})
           old == MovesOf(h, sign)
           new == MovesOf(all, sign)
<1>1. l \in Nat \ {0} /\ l - 1 \in Nat /\ sign \in Int
  BY LenProperties, EmptySeq
<1>2. /\ \A i \in 1..l : h[i].close \in Int
      /\ c.close \in Int
  <2>1. \A i \in 1..l : h[i] \in Candle
    BY ElementOfSeq
  <2> QED BY <2>1 DEF Candle
<1>3. /\ Len(all) = l + 1 /\ all[l + 1] = c
      /\ \A i \in 1..l : all[i] = h[i]
  BY AppendProperties
<1>4. \A x \in Int, y \in Int : Max({sign * (x - y), 0}) \in Int
  <2> SUFFICES ASSUME NEW x \in Int, NEW y \in Int PROVE Max({sign * (x - y), 0}) \in Int
    OBVIOUS
  <2>1. sign * (x - y) \in Int
    BY <1>1
  <2> QED BY <2>1, MaxOfTwo
<1>5. last \in Int
  <2>1. l \in 1..l
    BY <1>1
  <2>2. h[l].close \in Int /\ c.close \in Int
    BY <1>2, <2>1
  <2> QED BY <1>4, <2>2
<1>6. old = [i \in 1..(l - 1) |-> Move(h, i)] /\ new = [i \in 1..(Len(all) - 1) |-> Move(all, i)]
  BY DEF MovesOf
<1>7. \A i \in 1..(l - 1) : Move(h, i) \in Int
  <2> SUFFICES ASSUME NEW i \in 1..(l - 1) PROVE Move(h, i) \in Int
    OBVIOUS
  <2>1. i \in 1..l /\ i + 1 \in 1..l
    BY <1>1
  <2> QED BY <1>2, <1>4, <2>1
<1>8. \A i \in 1..(l - 1) : Move(all, i) = Move(h, i)
  <2> SUFFICES ASSUME NEW i \in 1..(l - 1) PROVE Move(all, i) = Move(h, i)
    OBVIOUS
  <2>1. i \in 1..l /\ i + 1 \in 1..l
    BY <1>1
  <2> QED BY <1>3, <2>1
<1>9. Move(all, l) = last
  BY <1>1, <1>3
<1> HIDE DEF l, all, Move, last, old, new
<1>10. old \in Seq(Int) /\ Len(old) = l - 1
  <2>1. old \in [1..(l - 1) -> Int]
    BY <1>6, <1>7
  <2> QED BY <1>1, <2>1
<1>11. new \in Seq(Int) /\ Len(new) = l /\ \A i \in 1..l : new[i] = Move(all, i)
  <2>1. Len(all) - 1 = l
    BY <1>1, <1>3
  <2>2. \A i \in 1..l : Move(all, i) \in Int
    <3> SUFFICES ASSUME NEW i \in 1..l PROVE Move(all, i) \in Int
      OBVIOUS
    <3>1. i = l \/ i \in 1..(l - 1)
      BY <1>1
    <3> QED BY <1>5, <1>7, <1>8, <1>9, <3>1
  <2>3. new \in [1..l -> Int]
    BY <1>6, <2>1, <2>2
  <2>4. \A i \in 1..l : new[i] = Move(all, i)
    BY <1>6, <2>1
  <2> QED BY <1>1, <2>3, <2>4
<1>12. /\ Append(old, last) \in Seq(Int) /\ Len(Append(old, last)) = l
       /\ Append(old, last)[l] = last
       /\ \A i \in 1..(l - 1) : Append(old, last)[i] = old[i]
  BY <1>1, <1>5, <1>10, AppendProperties
<1>13. ASSUME NEW i \in 1..l PROVE new[i] = Append(old, last)[i]
  <2>1. CASE i = l
    BY <1>9, <1>11, <1>12, <2>1
  <2>2. CASE i # l
    <3>1. i \in 1..(l - 1)
      BY <1>1, <2>2
    <3> QED BY <1>6, <1>8, <1>11, <1>12, <3>1
  <2> QED BY <2>1, <2>2
<1>14. new = Append(old, last)
  BY <1>11, <1>12, <1>13, SeqEqual
<1> QED BY <1>5, <1>10, <1>14 DEF l, all, last, old, new

\* What RSIMeanReversionStrategy has made of n changes of one sign: a plain sum
\* while it is seeded, Wilder's average from then on.
Smooth(p, moves) == IF Len(moves) < p.period THEN SumOf(moves) ELSE WilderTotal(p, moves)

\* One update of the code is one step of the reference.
LEMMA SmoothedIsSmooth ==
    ASSUME NEW p, p.period \in Nat \ {0}, NEW moves \in Seq(Int), NEW m \in Int, NEW s,
           s.changes = Len(moves),
           s.scale = IF Len(moves) < p.period THEN 1
                     ELSE Power(p.period, Len(moves) - p.period + 1)
    PROVE  Smoothed(p, s, Smooth(p, moves), m) = Smooth(p, Append(moves, m))
<1> DEFINE l == Len(moves)
           all == Append(moves, m)
<1>1. l \in Nat /\ Len(all) = l + 1 /\ all \in Seq(Int)
  BY LenProperties, AppendProperties
<1>2. CASE l < p.period
  <2>1. Smoothed(p, s, Smooth(p, moves), m) = SumOf(moves) + m
    BY <1>2 DEF Smoothed, Smooth
  <2>2. SumOf(all) = SumOf(moves) + m
    BY SumAppend
  <2>3. CASE l + 1 < p.period
    BY <1>1, <2>1, <2>2, <2>3 DEF Smooth
  <2>4. CASE ~(l + 1 < p.period)
    <3>1. Len(all) = p.period
      BY <1>1, <1>2, <2>4
    <3>2. WilderTotal(p, all) = SumOf(all)
      BY <1>1, <3>1, WilderFirst
    <3> QED BY <1>1, <2>1, <2>2, <2>4, <3>2 DEF Smooth
  <2> QED BY <2>3, <2>4
<1>3. CASE ~(l < p.period)
  <2>1. Smoothed(p, s, Smooth(p, moves), m)
          = WilderTotal(p, moves) * (p.period - 1) + m * Power(p.period, l - p.period + 1)
    BY <1>3 DEF Smoothed, Smooth
  <2>2. p.period <= l /\ ~(Len(all) < p.period)
    BY <1>1, <1>3
  <2>3. WilderTotal(p, all)
          = WilderTotal(p, moves) * (p.period - 1) + m * Power(p.period, l - p.period + 1)
    BY <2>2, WilderNext
  <2> QED BY <2>1, <2>2, <2>3 DEF Smooth
<1> QED BY <1>2, <1>3

\* RSIMeanReversionStrategy holds the last close, the number of changes of this
\* run and the smoothed gains and losses, scaled by a power of the period.
RSIInv(p, s, h) ==
    IF h = <<>> THEN s = RSIReset
    ELSE s = [previous |-> h[Len(h)].close, changes |-> Len(h) - 1,
              gain |-> Smooth(p, MovesOf(h, 1)), loss |-> Smooth(p, MovesOf(h, -1)),
              scale |-> IF Len(h) - 1 < p.period THEN 1
                        ELSE Power(p.period, Len(h) - 1 - p.period + 1)]

RSIAnswers(p, answer, h, c) ==
    RSIInv(p, answer.state, h) /\ answer.signal = ExpectedSignal(p, h, c)

\* The first candle of a run only sets the previous close.
LEMMA RSIFirst ==
    ASSUME NEW p \in Parameters, p.name = "rsi_mean_reversion", NEW candle \in Candle, NEW c
    PROVE  RSIAnswers(p, RSIOnCandle(p, RSIReset, candle, c), <<candle>>, c)
<1> DEFINE answer == RSIOnCandle(p, RSIReset, candle, c)
           all == <<candle>>
<1>1. p.period \in Nat \ {0}
  BY DEF Parameters, Periods
<1>2. answer.state = [previous |-> candle.close, changes |-> 0, gain |-> 0, loss |-> 0, scale |-> 1]
      /\ answer.signal = NoValue
  BY DEF RSIOnCandle, RSIReset
<1>3. Len(all) = 1 /\ all[1] = candle /\ all # <<>> /\ 1 - 1 = 0 /\ 0 < p.period /\ ~(1 > p.period)
  BY <1>1
<1>4. ASSUME NEW sign \in {1, -1} PROVE Smooth(p, MovesOf(all, sign)) = 0
  <2>1. MovesOf(all, sign) = <<>>
    BY <1>3 DEF MovesOf
  <2> QED BY <1>1, <2>1, SumOfNone DEF Smooth
<1>5. RSIInv(p, answer.state, all)
  <2>1. Smooth(p, MovesOf(all, 1)) = 0 /\ Smooth(p, MovesOf(all, -1)) = 0
    BY <1>4
  <2> HIDE DEF answer, all
  <2> QED BY <1>2, <1>3, <2>1 DEF RSIInv
<1>6. ExpectedSignal(p, all, c) = NoValue
  <2> HIDE DEF all
  <2> QED BY <1>3 DEF ExpectedSignal
<1> QED BY <1>2, <1>5, <1>6 DEF RSIAnswers

LEMMA RSIStep ==
    ASSUME NEW p \in Parameters, p.name = "rsi_mean_reversion", NEW s,
           NEW h \in Seq(Candle), NEW candle \in Candle, NEW c, RSIInv(p, s, h)
    PROVE  RSIAnswers(p, RSIOnCandle(p, s, candle, c), Append(h, candle), c)
<1>1. CASE h = <<>>
  <2>1. s = RSIReset /\ Append(h, candle) = <<candle>>
    BY <1>1 DEF RSIInv
  <2> QED BY <2>1, RSIFirst
<1>2. CASE h # <<>>
  <2> DEFINE P == p.period
             l == Len(h)
             all == Append(h, candle)
             answer == RSIOnCandle(p, s, candle, c)
             change == candle.close - s.previous
             up == Max({change, 0})
             down == Max({-change, 0})
             gain == Smoothed(p, s, s.gain, up)
             loss == Smoothed(p, s, s.loss, down)
             scale == IF s.changes + 1 >= P THEN s.scale * P ELSE s.scale
  <2>1. P \in Nat \ {0} /\ P \in Int
    BY DEF Parameters, Periods
  <2>2. l \in Nat \ {0} /\ l - 1 \in Nat
    BY <1>2, LenProperties, EmptySeq
  <2>3. /\ s.previous = h[l].close /\ s.changes = l - 1
        /\ s.gain = Smooth(p, MovesOf(h, 1)) /\ s.loss = Smooth(p, MovesOf(h, -1))
        /\ s.scale = IF l - 1 < P THEN 1 ELSE Power(P, l - 1 - P + 1)
    BY <1>2 DEF RSIInv
  <2>4. candle.close \in Int /\ h[l].close \in Int
    <3>1. h[l] \in Candle
      BY <2>2, ElementOfSeq
    <3> QED BY <3>1 DEF Candle
  <2>5. s.previous # NoValue
    BY <2>3, <2>4, NoValueAssumption
  <2>6. /\ answer.state = [previous |-> candle.close, changes |-> s.changes + 1,
                           gain |-> gain, loss |-> loss, scale |-> scale]
        /\ answer.signal = IF s.changes + 1 >= P THEN RSISignal(p, gain, loss, c) ELSE NoValue
    BY <2>5 DEF RSIOnCandle
  <2>7. up = Max({1 * (candle.close - h[l].close), 0})
        /\ down = Max({(-1) * (candle.close - h[l].close), 0})
    <3>1. change \in Int /\ change = candle.close - h[l].close
      BY <2>3, <2>4
    <3>2. 1 * change = change /\ (-1) * change = -change
      BY <3>1
    <3> QED BY <3>1, <3>2
  <2> HIDE DEF P, l, all, answer, up, down, gain, loss, scale, change
  <2>8. /\ MovesOf(h, 1) \in Seq(Int) /\ Len(MovesOf(h, 1)) = l - 1 /\ up \in Int
        /\ MovesOf(all, 1) = Append(MovesOf(h, 1), up)
    BY <1>2, <2>7, MovesGrow DEF l, all
  <2>9. /\ MovesOf(h, -1) \in Seq(Int) /\ Len(MovesOf(h, -1)) = l - 1 /\ down \in Int
        /\ MovesOf(all, -1) = Append(MovesOf(h, -1), down)
    <3>1. PICK sign : sign = -1
      OBVIOUS
    <3>2. sign \in {1, -1} /\ down = Max({sign * (candle.close - h[l].close), 0})
      BY <2>7, <3>1
    <3>3. /\ MovesOf(h, sign) \in Seq(Int) /\ Len(MovesOf(h, sign)) = l - 1 /\ down \in Int
          /\ MovesOf(all, sign) = Append(MovesOf(h, sign), down)
      BY <1>2, <3>2, MovesGrow DEF l, all
    <3> QED BY <3>1, <3>3
  <2>10. gain = Smooth(p, MovesOf(all, 1))
    BY <2>1, <2>3, <2>8, SmoothedIsSmooth, ZenonT(40) DEF gain, P
  <2>11. loss = Smooth(p, MovesOf(all, -1))
    BY <2>1, <2>3, <2>9, SmoothedIsSmooth, ZenonT(40) DEF loss, P
  <2>12. /\ all # <<>> /\ Len(all) = l + 1 /\ Len(all) - 1 = l /\ all[Len(all)] = candle
         /\ s.changes + 1 = l
    BY <2>2, <2>3, BeforeAppend DEF all, l
  <2>13. scale = IF l < P THEN 1 ELSE Power(P, l - P + 1)
    <3>1. CASE l < P
      <4>1. ~(l >= P) /\ l - 1 < P
        BY <2>1, <2>2, <3>1
      <4> QED BY <2>3, <2>12, <3>1, <4>1 DEF scale
    <3>2. CASE l = P
      <4>1. l >= P /\ l - 1 < P /\ ~(l < P) /\ l - P + 1 = 0 + 1 /\ 0 \in Nat
        BY <2>1, <2>2, <3>2
      <4>2. scale = 1 * P
        BY <2>3, <2>12, <4>1 DEF scale
      <4>3. Power(P, 0) = 1 /\ Power(P, 0 + 1) = P * Power(P, 0)
        BY <2>1, <4>1, PowerFacts
      <4>4. Power(P, l - P + 1) = P * 1
        BY <4>1, <4>3
      <4>5. 1 * P = P * 1
        BY <2>1
      <4> QED BY <4>1, <4>2, <4>4, <4>5
    <3>3. CASE l > P
      <4>1. l >= P /\ ~(l - 1 < P) /\ ~(l < P) /\ l - P + 1 = (l - P) + 1 /\ l - P \in Nat
            /\ l - 1 - P + 1 = l - P
        BY <2>1, <2>2, <3>3
      <4>2. scale = Power(P, l - P) * P
        BY <2>3, <2>12, <4>1 DEF scale
      <4>3. Power(P, l - P) \in Int /\ Power(P, (l - P) + 1) = P * Power(P, l - P)
        BY <2>1, <4>1, PowerFacts
      <4>4. Power(P, l - P) * P = P * Power(P, l - P)
        BY <2>1, <4>3
      <4> QED BY <4>1, <4>2, <4>3, <4>4
    <3> QED BY <2>1, <2>2, <3>1, <3>2, <3>3
  <2>14. RSIInv(p, answer.state, all)
    BY <2>6, <2>10, <2>11, <2>12, <2>13 DEF RSIInv, P
  <2>15. CASE l >= P
    <3>1. Len(all) > P /\ ~(l < P) /\ Len(MovesOf(all, 1)) = l /\ Len(MovesOf(all, -1)) = l
      <4>1. Len(all) > P /\ ~(l < P)
        BY <2>1, <2>2, <2>12, <2>15
      <4>2. Len(MovesOf(all, 1)) = (l - 1) + 1 /\ Len(MovesOf(all, -1)) = (l - 1) + 1
        BY <2>8, <2>9, AppendProperties
      <4> QED BY <2>2, <4>1, <4>2
    <3>2. gain = WilderTotal(p, MovesOf(all, 1)) /\ loss = WilderTotal(p, MovesOf(all, -1))
      BY <2>10, <2>11, <3>1 DEF Smooth, P
    <3>3. answer.signal = RSISignal(p, gain, loss, c)
      BY <2>6, <2>12, <2>15
    <3>4. ExpectedSignal(p, all, c)
            = RSISignal(p, WilderTotal(p, MovesOf(all, 1)), WilderTotal(p, MovesOf(all, -1)), c)
      BY <3>1 DEF ExpectedSignal, MovesOf, P
    <3> QED BY <2>14, <3>2, <3>3, <3>4 DEF RSIAnswers, answer, all
  <2>16. CASE ~(l >= P)
    <3>1. ~(Len(all) > P)
      BY <2>1, <2>2, <2>12, <2>16
    <3>2. answer.signal = NoValue
      BY <2>6, <2>12, <2>16
    <3>3. ExpectedSignal(p, all, c) = NoValue
      BY <3>1 DEF ExpectedSignal, P
    <3> QED BY <2>14, <3>2, <3>3 DEF RSIAnswers, answer, all
  <2> QED BY <2>15, <2>16
<1> QED BY <1>1, <1>2

=============================================================================
