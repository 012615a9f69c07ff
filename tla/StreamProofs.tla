--------------------------- MODULE StreamProofs ----------------------------
(***************************************************************************)
(* Proofs about what is kept of a stream's messages.  In a node:           *)
(* DuplicateMessageDetector for every set of numbers, every limit on the   *)
(* gaps and every publisher, and NodeInstructions for any instructions,    *)
(* peers and limit on the retries.  In a subscriber: OrderMessages for any *)
(* publishers, messages, losses and resends, down to the order in which    *)
(* OrderedMsgChain empties its queue.                                      *)
(***************************************************************************)
EXTENDS MCNodeStreams, OrderMessages, SequenceTheorems, FiniteSetTheorems, FunctionTheorems,
        WellFoundedInduction, TLAPS

InGap(n, g) == g.lo < n /\ n <= g.hi

\* No number above prev, up to n, is in the gap.
Beside(prev, n, g) == g.hi <= prev \/ n <= g.lo

\* The strengthening: a number reported as new once is in no gap any more, and there is a gap to
\* compare later numbers with.
ReportedIsOutside ==
    \A n \in Numbers :
        newReports[n] # 0 =>
            /\ newReports[n] = 1
            /\ gaps # <<>>
            /\ \A i \in 1 .. Len(gaps) : ~ InGap(n, gaps[i])

IInv == TypeOK /\ GapsAreOrdered /\ ReportedIsOutside

-----------------------------------------------------------------------------
(* Replacing one gap by what remains of it.                                *)

\* Where the elements of the spliced array come from.
LEMMA SplicedElements ==
    ASSUME gaps \in Seq(Gap), NEW i \in 1 .. Len(gaps), NEW r \in Seq(Gap)
    PROVE  /\ Spliced(i, r) \in Seq(Gap)
           /\ Len(Spliced(i, r)) = Len(gaps) + Len(r) - 1
           /\ \A k \in 1 .. Len(Spliced(i, r)) :
                Spliced(i, r)[k] =
                    IF k < i THEN gaps[k]
                    ELSE IF k < i + Len(r) THEN r[k - i + 1]
                    ELSE gaps[k - Len(r) + 1]
<1> DEFINE low == SubSeq(gaps, 1, i - 1)
           high == SubSeq(gaps, i + 1, Len(gaps))
<1>1. /\ low \in Seq(Gap) /\ Len(low) = i - 1
      /\ \A k \in 1 .. i - 1 : low[k] = gaps[k]
  BY SubSeqProperties
<1>2. /\ high \in Seq(Gap) /\ Len(high) = Len(gaps) - i
      /\ \A k \in 1 .. Len(gaps) - i : high[k] = gaps[i + k]
  BY SubSeqProperties
<1> HIDE DEF low, high
<1>0. Len(gaps) \in Nat /\ Len(r) \in Nat /\ i \in Int /\ 1 <= i /\ i <= Len(gaps)
  BY LenProperties
<1>3. /\ low \o r \in Seq(Gap) /\ Len(low \o r) = i - 1 + Len(r)
      /\ \A k \in 1 .. i - 1 + Len(r) :
            (low \o r)[k] = IF k < i THEN gaps[k] ELSE r[k - i + 1]
  <2>1. /\ low \o r \in Seq(Gap) /\ Len(low \o r) = Len(low) + Len(r)
        /\ \A k \in 1 .. Len(low) + Len(r) :
              (low \o r)[k] = IF k <= Len(low) THEN low[k] ELSE r[k - Len(low)]
    <3>1. low \in Seq(Gap)  BY <1>1
    <3> QED BY <3>1, ConcatProperties
  <2>2. ASSUME NEW k \in 1 .. i - 1 + Len(r)
        PROVE  (low \o r)[k] = IF k < i THEN gaps[k] ELSE r[k - i + 1]
    <3>1. k <= Len(low) <=> k < i  BY <1>0, <1>1
    <3>2. k - Len(low) = k - i + 1  BY <1>0, <1>1
    <3>3. k < i => low[k] = gaps[k]  BY <1>0, <1>1
    <3> QED BY <2>1, <3>1, <3>2, <3>3, <1>1
  <2> QED BY <2>1, <2>2, <1>1
<1>4. Spliced(i, r) = (low \o r) \o high
  BY DEF Spliced, low, high
<1>5. /\ Spliced(i, r) \in Seq(Gap)
      /\ Len(Spliced(i, r)) = i - 1 + Len(r) + (Len(gaps) - i)
      /\ \A k \in 1 .. i - 1 + Len(r) + (Len(gaps) - i) :
            Spliced(i, r)[k] = IF k <= i - 1 + Len(r) THEN (low \o r)[k]
                               ELSE high[k - (i - 1 + Len(r))]
  <2> DEFINE front == low \o r
  <2>1. front \in Seq(Gap) /\ Len(front) = i - 1 + Len(r)  BY <1>3
  <2> HIDE DEF front
  <2>2. /\ front \o high \in Seq(Gap) /\ Len(front \o high) = Len(front) + Len(high)
        /\ \A k \in 1 .. Len(front) + Len(high) :
              (front \o high)[k] = IF k <= Len(front) THEN front[k] ELSE high[k - Len(front)]
    <3>1. high \in Seq(Gap)  BY <1>2
    <3> QED BY <2>1, <3>1, ConcatProperties, ZenonT(60)
  <2>3. Spliced(i, r) = front \o high  BY <1>4 DEF front
  <2>4. low \o r = front  BY DEF front
  <2> QED BY <2>1, <2>2, <2>3, <2>4, <1>2
<1>6. ASSUME NEW k \in 1 .. Len(gaps) + Len(r) - 1
      PROVE  Spliced(i, r)[k] = IF k < i THEN gaps[k]
                                ELSE IF k < i + Len(r) THEN r[k - i + 1]
                                ELSE gaps[k - Len(r) + 1]
  <2>1. CASE k <= i - 1 + Len(r)
    <3>0. k \in 1 .. i - 1 + Len(r) + (Len(gaps) - i)  BY <1>0
    <3>1. Spliced(i, r)[k] = (low \o r)[k]  BY <1>5, <2>1, <3>0
    <3>2. k \in 1 .. i - 1 + Len(r)  BY <1>0, <2>1
    <3>3. (low \o r)[k] = IF k < i THEN gaps[k] ELSE r[k - i + 1]  BY <1>3, <3>2
    <3> QED BY <1>0, <2>1, <3>1, <3>3
  <2>2. CASE k > i - 1 + Len(r)
    <3>0. k \in 1 .. i - 1 + Len(r) + (Len(gaps) - i) /\ ~ k <= i - 1 + Len(r)
      BY <1>0, <2>2
    <3>1. Spliced(i, r)[k] = high[k - (i - 1 + Len(r))]  BY <1>5, <3>0
    <3>2. k - (i - 1 + Len(r)) \in 1 .. Len(gaps) - i  BY <1>0, <2>2
    <3>3. i + (k - (i - 1 + Len(r))) = k - Len(r) + 1  BY <1>0
    <3>4. high[k - (i - 1 + Len(r))] = gaps[k - Len(r) + 1]  BY <1>2, <3>2, <3>3
    <3>5. ~ k < i /\ ~ k < i + Len(r)  BY <1>0, <2>2
    <3> QED BY <3>1, <3>4, <3>5
  <2> QED BY <1>0, <2>1, <2>2
<1>7. QED BY <1>0, <1>5, <1>6

\* What remains of a gap lies inside it, ascends, does not hold n, and still reaches the upper
\* bound unless n is that bound.
LEMMA RemainderProperties ==
    ASSUME NEW g \in Gap, NEW prev \in Int, NEW n \in Int,
           prev < n, g.lo <= prev, n <= g.hi
    PROVE  /\ Remainder(g, prev, n) \in Seq(Gap)
           /\ Len(Remainder(g, prev, n)) <= 2
           /\ Ascending(Remainder(g, prev, n))
           /\ \A k \in 1 .. Len(Remainder(g, prev, n)) :
                /\ g.lo <= Remainder(g, prev, n)[k].lo
                /\ Remainder(g, prev, n)[k].hi <= g.hi
                /\ ~ InGap(n, Remainder(g, prev, n)[k])
                /\ Beside(prev, n, Remainder(g, prev, n)[k])
           /\ n # g.hi => /\ Len(Remainder(g, prev, n)) > 0
                          /\ Remainder(g, prev, n)[Len(Remainder(g, prev, n))].hi = g.hi
<1> DEFINE a == [lo |-> g.lo, hi |-> prev]
           b == [lo |-> n, hi |-> g.hi]
<1>0. a \in Gap /\ b \in Gap /\ g.lo \in Int /\ g.hi \in Int  BY DEF Gap
<1>1. CASE prev = g.lo /\ n = g.hi
  <2>1. Remainder(g, prev, n) = <<>>  BY <1>1 DEF Remainder
  <2> QED BY <2>1, <1>1 DEF Ascending
<1>2. CASE prev = g.lo /\ n # g.hi
  <2>1. Remainder(g, prev, n) = <<b>>  BY <1>2 DEF Remainder
  <2> QED BY <2>1, <1>2, <1>0 DEF Ascending, InGap, Beside, Gap
<1>3. CASE prev # g.lo /\ n = g.hi
  <2>1. Remainder(g, prev, n) = <<a>>  BY <1>3 DEF Remainder
  <2> QED BY <2>1, <1>3, <1>0 DEF Ascending, InGap, Beside, Gap
<1>4. CASE prev # g.lo /\ n # g.hi
  <2>1. Remainder(g, prev, n) = <<a>> \o <<b>>  BY <1>4 DEF Remainder
  <2>2. /\ <<a>> \o <<b>> \in Seq(Gap) /\ Len(<<a>> \o <<b>>) = 2
        /\ (<<a>> \o <<b>>)[1] = a /\ (<<a>> \o <<b>>)[2] = b
    BY <1>0, ConcatProperties
  <2> QED BY <2>1, <2>2, <1>4, <1>0 DEF Ascending, InGap, Beside, Gap
<1>5. QED BY <1>1, <1>2, <1>3, <1>4

\* Dropping the lowest gap keeps every other one.
LEMMA DropLowestElements ==
    ASSUME NEW s \in Seq(Gap), Ascending(s), OpenEnded(s), Len(s) <= MaxGaps + 1
    PROVE  /\ DropLowestGap(s) \in Seq(Gap)
           /\ Ascending(DropLowestGap(s))
           /\ OpenEnded(DropLowestGap(s))
           /\ Len(DropLowestGap(s)) <= MaxGaps
           /\ s # <<>> => /\ DropLowestGap(s) # <<>>
                          /\ DropLowestGap(s)[Len(DropLowestGap(s))] = s[Len(s)]
           /\ \A k \in 1 .. Len(DropLowestGap(s)) : 
                \E j \in 1 .. Len(s) : DropLowestGap(s)[k] = s[j]
<1>1. CASE Len(s) <= MaxGaps
  <2>1. DropLowestGap(s) = s  BY <1>1, MaxGapsAssumption DEF DropLowestGap
  <2> QED BY <1>1, <2>1
<1>2. CASE Len(s) > MaxGaps
  <2>1. DropLowestGap(s) = Tail(s)  BY <1>2 DEF DropLowestGap
  <2>2. s # <<>> /\ Len(s) = MaxGaps + 1  BY <1>2, MaxGapsAssumption
  <2>3. /\ Tail(s) \in Seq(Gap) /\ Len(Tail(s)) = MaxGaps
        /\ \A k \in 1 .. MaxGaps : Tail(s)[k] = s[k + 1]
    BY <2>2, HeadTailProperties, MaxGapsAssumption
  <2>4. Ascending(Tail(s))
    BY <2>2, <2>3, MaxGapsAssumption DEF Ascending
  <2>5. OpenEnded(Tail(s)) /\ Tail(s) # <<>> /\ Tail(s)[Len(Tail(s))] = s[Len(s)]
    <3>1. MaxGaps \in 1 .. MaxGaps /\ MaxGaps \in Nat  BY MaxGapsAssumption
    <3>2. Tail(s)[Len(Tail(s))] = s[Len(s)]  BY <2>2, <2>3, <3>1
    <3>3. Tail(s) # <<>>  BY <2>3, MaxGapsAssumption
    <3> QED BY <2>2, <3>2, <3>3 DEF OpenEnded
  <2>6. \A k \in 1 .. Len(Tail(s)) : \E j \in 1 .. Len(s) : Tail(s)[k] = s[j]
    <3> TAKE k \in 1 .. Len(Tail(s))
    <3>1. k + 1 \in 1 .. Len(s) /\ Tail(s)[k] = s[k + 1]
      BY <2>2, <2>3, MaxGapsAssumption
    <3> WITNESS k + 1 \in 1 .. Len(s)
    <3> QED BY <3>1
  <2> QED BY <2>1, <2>3, <2>4, <2>5, <2>6, MaxGapsAssumption
<1>3. Len(s) \in Nat /\ MaxGaps \in Nat  BY MaxGapsAssumption, LenProperties
<1> QED BY <1>1, <1>2, <1>3


\* Replacing a gap by its remainder keeps the gaps ascending and open ended, and every new gap
\* lies inside an old one and does not hold n.
LEMMA SplicedProperties ==
    ASSUME gaps \in Seq(Gap), Ascending(gaps), OpenEnded(gaps),
           NEW i \in 1 .. Len(gaps), NEW prev \in Int, NEW n \in Numbers,
           prev < n, gaps[i].lo <= prev, n <= gaps[i].hi
    PROVE  LET t == Spliced(i, Remainder(gaps[i], prev, n)) IN
           /\ t \in Seq(Gap)
           /\ Ascending(t)
           /\ OpenEnded(t)
           /\ t # <<>>
           /\ t[Len(t)].lo >= gaps[Len(gaps)].lo
           /\ Len(t) <= Len(gaps) + 1
           /\ \A k \in 1 .. Len(t) :
                /\ ~ InGap(n, t[k])
                /\ Beside(prev, n, t[k])
                /\ \E j \in 1 .. Len(gaps) : gaps[j].lo <= t[k].lo /\ t[k].hi <= gaps[j].hi
<1> DEFINE r == Remainder(gaps[i], prev, n)
           t == Spliced(i, r)
           m == Len(r)
           L == Len(gaps)
<1>1. gaps[i] \in Gap /\ n \in Int /\ n # Infinity /\ n < Infinity
  BY RanksAssumption
<1>2. /\ r \in Seq(Gap) /\ Len(r) <= 2 /\ Ascending(r)
      /\ \A k \in 1 .. Len(r) : /\ gaps[i].lo <= r[k].lo
                                /\ r[k].hi <= gaps[i].hi
                                /\ ~ InGap(n, r[k])
                                /\ Beside(prev, n, r[k])
      /\ n # gaps[i].hi => Len(r) > 0 /\ r[Len(r)].hi = gaps[i].hi
  BY <1>1, RemainderProperties
<1> HIDE DEF r
<1>3. /\ t \in Seq(Gap) /\ Len(t) = L + m - 1
      /\ \A k \in 1 .. Len(t) :
            t[k] = IF k < i THEN gaps[k] ELSE IF k < i + m THEN r[k - i + 1]
                   ELSE gaps[k - m + 1]
  BY <1>2, SplicedElements
<1> HIDE DEF t
<1>4. L \in Nat /\ m \in Nat /\ i \in Int /\ 1 <= i /\ i <= L
  BY <1>2, LenProperties
<1>5. \A k \in 1 .. L : gaps[k].lo \in Int /\ gaps[k].hi \in Int /\ gaps[k].lo < gaps[k].hi
  <2>1. \A k \in 1 .. L : gaps[k] \in Gap  BY ElementOfSeq
  <2> QED BY <2>1 DEF Ascending, Gap
<1>6. \A k \in 1 .. m : r[k].lo \in Int /\ r[k].hi \in Int /\ r[k].lo < r[k].hi
  <2>1. \A k \in 1 .. m : r[k] \in Gap  BY <1>2, ElementOfSeq
  <2> QED BY <1>2, <2>1 DEF Ascending, Gap
<1> HIDE DEF m, L
<1>13. \A k \in 1 .. Len(t) : k < i => k \in 1 .. L /\ t[k] = gaps[k]
  BY <1>3, <1>4
<1>14. \A k \in 1 .. Len(t) :
         i <= k /\ k < i + m => k - i + 1 \in 1 .. m /\ t[k] = r[k - i + 1]
  BY <1>3, <1>4
<1>15. \A k \in 1 .. Len(t) :
         i + m <= k => k - m + 1 \in 1 .. L /\ i < k - m + 1 /\ t[k] = gaps[k - m + 1]
  BY <1>3, <1>4
<1> USE DEF m, L
<1>7. Ascending(t)
  <2>1. ASSUME NEW k \in 1 .. Len(t) PROVE t[k].lo < t[k].hi
    <3>1. CASE k < i  BY <3>1, <1>13, <1>5
    <3>2. CASE i <= k /\ k < i + m
      <4>1. k - i + 1 \in 1 .. m /\ t[k] = r[k - i + 1]  BY <3>2, <1>14
      <4> QED BY <4>1, <1>6
    <3>3. CASE i + m <= k
      <4>1. k - m + 1 \in 1 .. L /\ t[k] = gaps[k - m + 1]  BY <3>3, <1>15
      <4> QED BY <4>1, <1>5
    <3> QED BY <3>1, <3>2, <3>3, <1>4
  <2>2. ASSUME NEW k \in 1 .. Len(t), NEW l \in 1 .. Len(t), k < l
        PROVE  t[k].hi < t[l].lo
    <3>1. CASE l < i
      <4>1. k < i  BY <3>1, <2>2, <1>4
      <4>2. k \in 1 .. L /\ l \in 1 .. L /\ t[k] = gaps[k] /\ t[l] = gaps[l]
        BY <3>1, <4>1, <1>13
      <4> QED BY <2>2, <4>2 DEF Ascending
    <3>2. CASE k < i /\ i <= l /\ l < i + m
      <4>1. l - i + 1 \in 1 .. m /\ k \in 1 .. L  BY <3>2, <1>4
      <4>2. t[k] = gaps[k] /\ t[l] = r[l - i + 1]  BY <3>2, <1>13, <1>14
      <4>3. gaps[k].hi < gaps[i].lo  BY <3>2, <4>1 DEF Ascending
      <4>4. gaps[i].lo <= r[l - i + 1].lo  BY <4>1, <1>2
      <4>5. gaps[k].hi \in Int /\ gaps[i].lo \in Int /\ r[l - i + 1].lo \in Int
        BY <4>1, <1>4, <1>5, <1>6
      <4>6. gaps[k].hi < r[l - i + 1].lo
        <5> HIDE DEF m
        <5> QED BY <4>3, <4>4, <4>5
      <4> QED BY <4>2, <4>6, Zenon
    <3>3. CASE k < i /\ i + m <= l
      <4>1. k \in 1 .. L /\ t[k] = gaps[k]  BY <3>3, <1>13
      <4>2. l - m + 1 \in 1 .. L /\ i < l - m + 1 /\ t[l] = gaps[l - m + 1]  BY <3>3, <1>15
      <4>3. k < l - m + 1  BY <3>3, <4>2, <1>4
      <4> QED BY <4>1, <4>2, <4>3 DEF Ascending
    <3>4. CASE i <= k /\ l < i + m
      <4>0. i <= l /\ k < i + m  BY <3>4, <2>2, <1>4
      <4>1. k - i + 1 \in 1 .. m /\ l - i + 1 \in 1 .. m /\ k - i + 1 < l - i + 1
        BY <4>0, <3>4, <2>2, <1>4
      <4>2. t[k] = r[k - i + 1] /\ t[l] = r[l - i + 1]  BY <4>0, <3>4, <1>14
      <4> QED BY <4>1, <4>2, <1>2 DEF Ascending
    <3>5. CASE i <= k /\ k < i + m /\ i + m <= l
      <4>1. k - i + 1 \in 1 .. m /\ l - m + 1 \in 1 .. L /\ i < l - m + 1
        BY <3>5, <1>14, <1>15
      <4>2. t[k] = r[k - i + 1] /\ t[l] = gaps[l - m + 1]  BY <3>5, <1>14, <1>15
      <4>3. gaps[i].hi < gaps[l - m + 1].lo  BY <4>1 DEF Ascending
      <4>4. r[k - i + 1].hi <= gaps[i].hi  BY <4>1, <1>2
      <4>5. r[k - i + 1].hi \in Int /\ gaps[i].hi \in Int  BY <4>1, <1>5, <1>6
      <4>6. gaps[l - m + 1].lo \in Int  BY <4>1, <1>5
      <4>7. r[k - i + 1].hi < gaps[l - m + 1].lo
        <5> HIDE DEF m
        <5> QED BY <4>3, <4>4, <4>5, <4>6, SMTT(30)
      <4> QED BY <4>2, <4>7, Zenon
    <3>6. CASE i + m <= k
      <4>0. i + m <= l  BY <3>6, <2>2, <1>4
      <4>1. k - m + 1 \in 1 .. L /\ l - m + 1 \in 1 .. L /\ k - m + 1 < l - m + 1
        BY <4>0, <3>6, <2>2, <1>15
      <4>2. t[k] = gaps[k - m + 1] /\ t[l] = gaps[l - m + 1]  BY <4>0, <3>6, <1>15
      <4>3. gaps[k - m + 1].hi < gaps[l - m + 1].lo  BY <4>1 DEF Ascending
      <4> QED BY <4>2, <4>3, Zenon
    <3> QED BY <3>1, <3>2, <3>3, <3>4, <3>5, <3>6, <2>2, <1>3, <1>4
  <2> QED BY <2>1, <2>2 DEF Ascending
<1>8. Len(t) >= 1 /\ t[Len(t)].hi = Infinity /\ t[Len(t)].lo >= gaps[L].lo
  <2>1. gaps[L].hi = Infinity  BY <1>4 DEF OpenEnded
  <2>2. CASE i = L
    <3>1. m > 0 /\ r[m].hi = Infinity  BY <2>1, <2>2, <1>1, <1>2
    <3>2. Len(t) = L + m - 1 /\ Len(t) \in 1 .. Len(t) /\ Len(t) - i + 1 = m
          /\ ~ Len(t) < i /\ Len(t) < i + m
      BY <3>1, <2>2, <1>3, <1>4
    <3>3. t[Len(t)] = r[m]  BY <3>2, <1>3
    <3>4. m \in 1 .. Len(r) /\ gaps[i].lo <= r[m].lo  BY <3>1, <1>2, <1>4
    <3>5. r[m].lo \in Int /\ gaps[i].lo \in Int  BY <3>4, <1>4, <1>5, <1>6
    <3>6. r[m].lo >= gaps[L].lo
      <4> HIDE DEF m, L
      <4> QED BY <2>2, <3>4, <3>5
    <3> QED BY <3>1, <3>2, <3>3, <3>6
  <2>3. CASE i # L
    <3>1. Len(t) = L + m - 1 /\ Len(t) \in 1 .. Len(t) /\ Len(t) - m + 1 = L
          /\ ~ Len(t) < i /\ ~ Len(t) < i + m
      BY <2>3, <1>3, <1>4
    <3>2. t[Len(t)] = gaps[L]  BY <3>1, <1>3
    <3>3. gaps[L].lo \in Int  BY <1>4, <1>5
    <3> QED BY <2>1, <3>1, <3>2, <3>3
  <2> QED BY <2>2, <2>3
<1>9. ASSUME NEW k \in 1 .. Len(t)
      PROVE  /\ ~ InGap(n, t[k])
             /\ Beside(prev, n, t[k])
             /\ \E j \in 1 .. L : gaps[j].lo <= t[k].lo /\ t[k].hi <= gaps[j].hi
  <2>0. gaps[i].lo < n /\ n <= gaps[i].hi  BY <1>1, <1>4, <1>5
  <2>1. CASE k < i
    <3>1. k \in 1 .. L /\ t[k] = gaps[k]  BY <2>1, <1>13
    <3>2. gaps[k].hi < gaps[i].lo  BY <2>1, <3>1 DEF Ascending
    <3>3. ~ InGap(n, t[k])  BY <2>0, <3>1, <3>2, <1>1, <1>5, SMTT(30) DEF InGap
    <3>4. gaps[k].lo <= t[k].lo /\ t[k].hi <= gaps[k].hi  BY <3>1, <1>5
    <3>5. Beside(prev, n, t[k])  BY <3>1, <3>2, <1>4, <1>5, SMTT(30) DEF Beside
    <3> QED BY <3>1, <3>3, <3>4, <3>5
  <2>2. CASE i <= k /\ k < i + m
    <3>1. k - i + 1 \in 1 .. m /\ t[k] = r[k - i + 1]  BY <2>2, <1>14
    <3> QED BY <3>1, <1>2
  <2>3. CASE i + m <= k
    <3>1. k - m + 1 \in 1 .. L /\ t[k] = gaps[k - m + 1] /\ i < k - m + 1
      BY <2>3, <1>15
    <3>2. gaps[i].hi < gaps[k - m + 1].lo  BY <3>1 DEF Ascending
    <3>3. ~ InGap(n, t[k])  BY <2>0, <3>1, <3>2, <1>1, <1>5, SMTT(30) DEF InGap
    <3>4. gaps[k - m + 1].lo <= t[k].lo /\ t[k].hi <= gaps[k - m + 1].hi
      BY <3>1, <1>5, SMTT(30)
    <3>5. Beside(prev, n, t[k])  BY <2>0, <3>1, <3>2, <1>1, <1>4, <1>5, SMTT(30) DEF Beside
    <3> QED BY <3>1, <3>3, <3>4, <3>5
  <2> QED BY <2>1, <2>2, <2>3, <1>4
<1>10. Len(t) <= L + 1  BY <1>2, <1>3, <1>4
<1>11. t # <<>>  BY <1>8
<1>12. t = Spliced(i, Remainder(gaps[i], prev, n))  BY DEF t, r
<1> QED BY <1>3, <1>7, <1>8, <1>9, <1>10, <1>11, <1>12 DEF OpenEnded

-----------------------------------------------------------------------------
(* The invariant is inductive.                                             *)

LEMMA InitIInv == Init => IInv
<1> SUFFICES ASSUME Init PROVE IInv
  OBVIOUS
<1>1. TypeOK  BY LinkSetsAssumption DEF Init, TypeOK, Gap
<1>2. GapsAreOrdered  BY MaxGapsAssumption DEF Init, GapsAreOrdered, Ascending, OpenEnded
<1>3. ReportedIsOutside  BY DEF Init, ReportedIsOutside
<1> QED BY <1>1, <1>2, <1>3 DEF IInv

\* An answer that leaves the gaps alone keeps the invariant.
LEMMA AnswerKeepsIInv ==
    ASSUME IInv, NEW n \in Numbers, UNCHANGED links,
           NEW kind \in {"duplicate", "invalid", "mismatch"}, Answer(kind, n)
    PROVE  IInv'
<1> USE DEF Answer
<1>1. TypeOK'  BY DEF IInv, TypeOK
<1>2. GapsAreOrdered'  BY DEF IInv, GapsAreOrdered, Ascending, OpenEnded
<1>3. ReportedIsOutside'  BY DEF IInv, ReportedIsOutside, InGap
<1> QED BY <1>1, <1>2, <1>3 DEF IInv

\* Reporting n as new is harmless when n was in some gap before (or there was none), is in no gap
\* afterwards, and every new gap lies inside an old one.
LEMMA AnswerNewKeepsIInv ==
    ASSUME IInv, NEW n \in Numbers, UNCHANGED links, AnswerNew(n),
           gaps = <<>> \/ \E i \in 1 .. Len(gaps) : InGap(n, gaps[i]),
           gaps' \in Seq(Gap), GapsAreOrdered', gaps' # <<>>,
           \A k \in 1 .. Len(gaps') :
              /\ ~ InGap(n, gaps'[k])
              /\ gaps # <<>> => \E j \in 1 .. Len(gaps) : /\ gaps[j].lo <= gaps'[k].lo
                                                          /\ gaps'[k].hi <= gaps[j].hi
    PROVE  IInv'
<1>1. newReports[n] = 0
  BY DEF IInv, ReportedIsOutside
<1>2. /\ newReports' \in [Numbers -> Nat] /\ newReports'[n] = 1
      /\ \A x \in Numbers : x # n => newReports'[x] = newReports[x]
  BY <1>1 DEF IInv, TypeOK, AnswerNew
<1>3. TypeOK'
  BY <1>2 DEF IInv, TypeOK, AnswerNew
<1>4. ASSUME NEW x \in Numbers, newReports'[x] # 0
      PROVE  /\ newReports'[x] = 1
             /\ gaps' # <<>>
             /\ \A k \in 1 .. Len(gaps') : ~ InGap(x, gaps'[k])
  <2>1. CASE x = n  BY <2>1, <1>2
  <2>2. CASE x # n
    <3>1. /\ newReports'[x] = 1 /\ gaps # <<>>
          /\ \A j \in 1 .. Len(gaps) : ~ InGap(x, gaps[j])
      BY <2>2, <1>2, <1>4 DEF IInv, ReportedIsOutside
    <3>2. ASSUME NEW k \in 1 .. Len(gaps') PROVE ~ InGap(x, gaps'[k])
      <4>1. PICK j \in 1 .. Len(gaps) : gaps[j].lo <= gaps'[k].lo /\ gaps'[k].hi <= gaps[j].hi
        BY <3>1
      <4>2. gaps[j] \in Gap /\ gaps'[k] \in Gap /\ x \in Int
        BY RanksAssumption, ElementOfSeq DEF IInv, TypeOK
      <4>3. ~ InGap(x, gaps[j])  BY <3>1
      <4> QED BY <4>1, <4>2, <4>3, SMTT(30) DEF InGap, Gap
    <3> QED BY <3>1, <3>2
  <2> QED BY <2>1, <2>2
<1>5. ReportedIsOutside'  BY <1>4 DEF ReportedIsOutside
<1> QED BY <1>3, <1>5 DEF IInv

LEMMA MarkAndCheckKeepsIInv ==
    ASSUME IInv, NEW prev \in Numbers \cup {NoPrev}, NEW n \in Numbers,
           MarkAndCheck(prev, n), UNCHANGED links
    PROVE  IInv'
<1>0. n \in Int /\ n < Infinity /\ Infinity \in Int  BY RanksAssumption
<1>1. CASE MarkInvalid(prev, n)  BY <1>1, AnswerKeepsIInv DEF MarkInvalid
<1>2. CASE MarkSeen(prev, n)  BY <1>2, AnswerKeepsIInv DEF MarkSeen
<1>3. CASE MarkMismatch(prev, n)  BY <1>3, AnswerKeepsIInv DEF MarkMismatch
<1>4. CASE MarkFirst(prev, n)
  <2>1. gaps = <<>> /\ gaps' = <<[lo |-> n, hi |-> Infinity]>> /\ AnswerNew(n)
    BY <1>4 DEF MarkFirst
  <2>2. gaps' \in Seq(Gap) /\ Len(gaps') = 1 /\ gaps' # <<>>
        /\ gaps'[1] = [lo |-> n, hi |-> Infinity]
    BY <2>1, <1>0 DEF Gap
  <2>3. GapsAreOrdered'
    BY <2>2, <1>0, MaxGapsAssumption DEF GapsAreOrdered, Ascending, OpenEnded
  <2>4. \A k \in 1 .. Len(gaps') : ~ InGap(n, gaps'[k])
    BY <2>2, <1>0 DEF InGap
  <2> QED BY <2>1, <2>2, <2>3, <2>4, AnswerNewKeepsIInv
<1>5. CASE MarkUnchained(prev, n)
  <2>1. CASE ~ n > gaps[Len(gaps)].lo
    BY <1>5, <2>1, AnswerKeepsIInv DEF MarkUnchained
  <2>2. CASE n > gaps[Len(gaps)].lo
    <3> DEFINE l == Len(gaps)
    <3>1. gaps \in Seq(Gap) /\ l \in Nat /\ l \in 1 .. l
      BY <1>5, EmptySeq, LenProperties DEF IInv, TypeOK, MarkUnchained
    <3>2. gaps' = [gaps EXCEPT ![l].lo = n] /\ AnswerNew(n)
      BY <1>5, <2>2 DEF MarkUnchained
    <3>3. /\ \A k \in 1 .. l : gaps[k] \in Gap
          /\ gaps[l].hi = Infinity
          /\ Ascending(gaps) /\ l <= MaxGaps
      BY <3>1, ElementOfSeq DEF IInv, GapsAreOrdered, OpenEnded
    <3>4. /\ Len(gaps') = l
          /\ gaps'[l] = [lo |-> n, hi |-> Infinity]
          /\ \A k \in 1 .. l : k # l => gaps'[k] = gaps[k]
      BY <3>1, <3>2, <3>3 DEF Gap
    <3>5. gaps' \in Seq(Gap) /\ gaps' # <<>>
      <4>1. [lo |-> n, hi |-> Infinity] \in Gap  BY <1>0 DEF Gap
      <4>2. gaps' = [gaps EXCEPT ![l] = [lo |-> n, hi |-> Infinity]]
        <5>1. gaps[l] \in Gap /\ gaps[l].hi = Infinity  BY <3>1, <3>3
        <5>2. [gaps[l] EXCEPT !.lo = n] = [lo |-> n, hi |-> Infinity]  BY <5>1 DEF Gap
        <5>3. gaps' = [gaps EXCEPT ![l] = [gaps[l] EXCEPT !.lo = n]]  BY <3>2
        <5> QED BY <5>2, <5>3
      <4> HIDE DEF l
      <4>3. gaps' \in Seq(Gap)  BY <4>1, <4>2, <3>1, ExceptSeq DEF l
      <4> QED BY <4>3, <3>1, <3>4
    <3>6. gaps[l].lo < n /\ gaps[l].lo \in Int
      BY <2>2, <3>1, <3>3, <1>0 DEF Gap
    <3>7. GapsAreOrdered'
      <4>1. \A k \in 1 .. l : gaps'[k].lo < gaps'[k].hi
        BY <3>3, <3>4, <1>0 DEF Ascending
      <4>2. ASSUME NEW k \in 1 .. l, NEW j \in 1 .. l, k < j PROVE gaps'[k].hi < gaps'[j].lo
        <5>1. k # l /\ gaps'[k] = gaps[k]  BY <4>2, <3>1, <3>4
        <5>2. gaps[k].hi < gaps[j].lo /\ gaps[k].hi \in Int /\ gaps[j].lo \in Int
          BY <4>2, <3>3 DEF Ascending, Gap
        <5> QED BY <5>1, <5>2, <3>4, <3>6, <1>0
      <4> QED BY <4>1, <4>2, <3>1, <3>3, <3>4 DEF GapsAreOrdered, Ascending, OpenEnded
    <3>8. InGap(n, gaps[l])  BY <3>3, <3>6, <1>0 DEF InGap
    <3>9. ASSUME NEW k \in 1 .. l
          PROVE  ~ InGap(n, gaps'[k]) /\ gaps[k].lo <= gaps'[k].lo /\ gaps'[k].hi <= gaps[k].hi
      <4>1. CASE k = l  BY <4>1, <3>3, <3>4, <3>6, <1>0 DEF InGap
      <4>2. CASE k # l
        <5>1. gaps'[k] = gaps[k] /\ k < l  BY <4>2, <3>1, <3>4
        <5>2. gaps[k].hi < gaps[l].lo /\ gaps[k].hi \in Int /\ gaps[k].lo \in Int
          BY <5>1, <3>1, <3>3 DEF Ascending, Gap
        <5> QED BY <5>1, <5>2, <3>6, <1>0 DEF InGap
      <4> QED BY <4>1, <4>2
    <3> QED BY <3>1, <3>2, <3>4, <3>5, <3>7, <3>8, <3>9, AnswerNewKeepsIInv
  <2> QED BY <2>1, <2>2
<1>6. CASE MarkInGap(prev, n)
  <2>0. gaps \in Seq(Gap) /\ Ascending(gaps) /\ OpenEnded(gaps) /\ Len(gaps) <= MaxGaps
    BY DEF IInv, TypeOK, GapsAreOrdered
  <2>1. prev # NoPrev /\ prev < n /\ prev \in Int /\ AnswerNew(n)
    BY <1>6, RanksAssumption DEF MarkInGap
  <2>2. PICK i \in 1 .. Len(gaps) :
          /\ gaps[i].lo <= prev /\ n <= gaps[i].hi
          /\ gaps' = DropLowestGap(Spliced(i, Remainder(gaps[i], prev, n)))
    <3>1. \A k \in 1 .. Len(gaps) : gaps[k].lo \in Int
      <4>1. \A k \in 1 .. Len(gaps) : gaps[k] \in Gap  BY <2>0, ElementOfSeq
      <4> QED BY <4>1 DEF Gap
    <3> QED BY <1>6, <2>1, <3>1 DEF MarkInGap
  <2> DEFINE t == Spliced(i, Remainder(gaps[i], prev, n))
  <2>3. /\ t \in Seq(Gap) /\ Ascending(t) /\ OpenEnded(t) /\ t # <<>>
        /\ Len(t) <= Len(gaps) + 1
        /\ \A k \in 1 .. Len(t) :
             /\ ~ InGap(n, t[k])
             /\ \E j \in 1 .. Len(gaps) : gaps[j].lo <= t[k].lo /\ t[k].hi <= gaps[j].hi
    BY <2>0, <2>1, <2>2, SplicedProperties
  <2>4. gaps' = DropLowestGap(t)  BY <2>2
  <2> HIDE DEF t
  <2>5. Len(t) <= MaxGaps + 1
    BY <2>0, <2>3, MaxGapsAssumption, LenProperties
  <2>6. /\ gaps' \in Seq(Gap) /\ Ascending(gaps') /\ OpenEnded(gaps')
        /\ Len(gaps') <= MaxGaps /\ gaps' # <<>>
        /\ \A k \in 1 .. Len(gaps') : \E j \in 1 .. Len(t) : gaps'[k] = t[j]
    BY <2>3, <2>4, <2>5, DropLowestElements
  <2>7. GapsAreOrdered'  BY <2>6 DEF GapsAreOrdered, Ascending, OpenEnded
  <2>8. InGap(n, gaps[i])
    <3>1. gaps[i].lo \in Int
      <4>1. gaps[i] \in Gap  BY <2>0, ElementOfSeq
      <4> QED BY <4>1 DEF Gap
    <3> QED BY <3>1, <2>1, <2>2, <1>0 DEF InGap
  <2>9. \A k \in 1 .. Len(gaps') :
          /\ ~ InGap(n, gaps'[k])
          /\ \E j \in 1 .. Len(gaps) : gaps[j].lo <= gaps'[k].lo /\ gaps'[k].hi <= gaps[j].hi
    BY <2>3, <2>6
  <2> QED BY <2>1, <2>6, <2>7, <2>8, <2>9, AnswerNewKeepsIInv
<1>7. QED BY <1>1, <1>2, <1>3, <1>4, <1>5, <1>6 DEF MarkAndCheck

LEMMA StepIInv == IInv /\ [Next]_vars => IInv'
<1> SUFFICES ASSUME IInv, [Next]_vars PROVE IInv'
  OBVIOUS
<1>1. CASE Next
  <2>1. PICK link \in links : MarkAndCheck(link[1], link[2]) /\ UNCHANGED links
    BY <1>1 DEF Next
  <2>2. link[1] \in Numbers \cup {NoPrev} /\ link[2] \in Numbers
    BY DEF IInv, TypeOK, Links
  <2> QED BY <2>1, <2>2, MarkAndCheckKeepsIInv
<1>2. CASE UNCHANGED vars
  BY <1>2 DEF vars, IInv, TypeOK, GapsAreOrdered, Ascending, OpenEnded, ReportedIsOutside, InGap
<1> QED BY <1>1, <1>2

-----------------------------------------------------------------------------

THEOREM Invariance == Spec => []IInv
BY InitIInv, StepIInv, PTL DEF Spec

\* The detector's data are well formed in every reachable state.
THEOREM TypeCorrect == Spec => []TypeOK
<1>1. IInv => TypeOK  BY DEF IInv
<1> QED BY <1>1, Invariance, PTL

\* The invariants of the comment at the end of the loop, and the limit on the number of gaps,
\* hold whatever a publisher sends.
THEOREM GapsStayOrdered == Spec => []GapsAreOrdered
<1>1. IInv => GapsAreOrdered  BY DEF IInv
<1> QED BY <1>1, Invariance, PTL

\* No number is ever reported as new twice, for every publisher, honest or not.
THEOREM NoDoubleReport == Spec => []NewAtMostOnce
<1>1. IInv => NewAtMostOnce
  <2> SUFFICES ASSUME IInv, NEW n \in Numbers PROVE newReports[n] <= 1
    BY DEF NewAtMostOnce
  <2>1. newReports[n] \in Nat  BY DEF IInv, TypeOK
  <2>2. newReports[n] # 0 => newReports[n] = 1  BY DEF IInv, ReportedIsOutside
  <2> QED BY <2>1, <2>2
<1> QED BY <1>1, Invariance, PTL

-----------------------------------------------------------------------------
(* What happens to the messages of an honest publisher.                    *)

Chain == { link[2] : link \in links }

\* The strengthening: the bounds of the gaps are numbers of the chain, the lower ones reported,
\* and every number of the chain that was not reported and is not below all gaps is in a gap.
BoundsAreInChain ==
    \A i \in 1 .. Len(gaps) :
        /\ gaps[i].lo \in Chain /\ newReports[gaps[i].lo] # 0
        /\ gaps[i].hi \in Chain \cup {Infinity}
UnreportedIsInGap ==
    \A n \in Chain :
        /\ gaps = <<>> => newReports[n] = 0
        /\ newReports[n] = 0 /\ gaps # <<>> /\ n > gaps[1].lo =>
             \E i \in 1 .. Len(gaps) : InGap(n, gaps[i])
HonestInv == Honest => BoundsAreInChain /\ UnreportedIsInGap

\* The step of HonestMessagesGetThrough.
GetsThrough ==
    Honest =>
        \/ verdict'.kind = "new"
        \/ /\ verdict'.kind = "duplicate"
           /\ newReports[verdict'.number] = 0 => verdict'.number < gaps[1].lo

\* The bounds of what remains are old ones, or prev and n, and it still holds whatever the gap
\* held that is neither n nor between the two.
LEMMA RemainderCovers ==
    ASSUME NEW g \in Gap, NEW prev \in Int, NEW n \in Int,
           prev < n, g.lo <= prev, n <= g.hi
    PROVE  /\ \A k \in 1 .. Len(Remainder(g, prev, n)) :
                /\ Remainder(g, prev, n)[k].lo \in {g.lo, n}
                /\ Remainder(g, prev, n)[k].hi \in {g.hi, prev}
           /\ \A x \in Int : InGap(x, g) /\ (x <= prev \/ x > n) =>
                \E k \in 1 .. Len(Remainder(g, prev, n)) : InGap(x, Remainder(g, prev, n)[k])
<1> DEFINE a == [lo |-> g.lo, hi |-> prev]
           b == [lo |-> n, hi |-> g.hi]
<1>0. a \in Gap /\ b \in Gap /\ g.lo \in Int /\ g.hi \in Int  BY DEF Gap
<1>1. CASE prev = g.lo /\ n = g.hi
  <2>1. Remainder(g, prev, n) = <<>>  BY <1>1 DEF Remainder
  <2> QED BY <2>1, <1>1, <1>0 DEF InGap
<1>2. CASE prev = g.lo /\ n # g.hi
  <2>1. Remainder(g, prev, n) = <<b>>  BY <1>2 DEF Remainder
  <2>2. Len(<<b>>) = 1 /\ <<b>>[1] = b /\ 1 \in 1 .. 1  OBVIOUS
  <2>3. \A x \in Int : InGap(x, g) /\ (x <= prev \/ x > n) => InGap(x, <<b>>[1])
    BY <1>2, <1>0, <2>2 DEF InGap
  <2> QED BY <2>1, <2>2, <2>3, <1>0
<1>3. CASE prev # g.lo /\ n = g.hi
  <2>1. Remainder(g, prev, n) = <<a>>  BY <1>3 DEF Remainder
  <2>2. Len(<<a>>) = 1 /\ <<a>>[1] = a /\ 1 \in 1 .. 1  OBVIOUS
  <2>3. \A x \in Int : InGap(x, g) /\ (x <= prev \/ x > n) => InGap(x, <<a>>[1])
    BY <1>3, <1>0, <2>2 DEF InGap
  <2> QED BY <2>1, <2>2, <2>3, <1>0
<1>4. CASE prev # g.lo /\ n # g.hi
  <2>1. Remainder(g, prev, n) = <<a>> \o <<b>>  BY <1>4 DEF Remainder
  <2>2. /\ Len(<<a>> \o <<b>>) = 2 /\ (<<a>> \o <<b>>)[1] = a /\ (<<a>> \o <<b>>)[2] = b
        /\ 1 \in 1 .. 2 /\ 2 \in 1 .. 2
    BY <1>0, ConcatProperties
  <2>3. \A x \in Int : InGap(x, g) /\ x <= prev => InGap(x, (<<a>> \o <<b>>)[1])
    BY <1>0, <2>2 DEF InGap
  <2>4. \A x \in Int : InGap(x, g) /\ x > n => InGap(x, (<<a>> \o <<b>>)[2])
    BY <1>0, <2>2 DEF InGap
  <2>5. \A k \in 1 .. 2 : k = 1 \/ k = 2  OBVIOUS
  <2> QED BY <2>1, <2>2, <2>3, <2>4, <2>5, <1>0
<1> QED BY <1>1, <1>2, <1>3, <1>4

\* The same of all gaps, one of which was replaced by what remains of it.
LEMMA SplicedCovers ==
    ASSUME gaps \in Seq(Gap), Ascending(gaps),
           NEW i \in 1 .. Len(gaps), NEW prev \in Int, NEW n \in Int,
           prev < n, gaps[i].lo <= prev, n <= gaps[i].hi
    PROVE  LET t == Spliced(i, Remainder(gaps[i], prev, n)) IN
           /\ \A k \in 1 .. Len(t) : \E j \in 1 .. Len(gaps) :
                t[k].lo \in {gaps[j].lo, n} /\ t[k].hi \in {gaps[j].hi, prev}
           /\ \A x \in Int : \A j \in 1 .. Len(gaps) :
                InGap(x, gaps[j]) /\ (x <= prev \/ x > n) =>
                    \E k \in 1 .. Len(t) : InGap(x, t[k])
<1> DEFINE r == Remainder(gaps[i], prev, n)
           t == Spliced(i, r)
           m == Len(r)
           L == Len(gaps)
<1>1. gaps[i] \in Gap  OBVIOUS
<1>2. r \in Seq(Gap)  BY <1>1, RemainderProperties
<1>3. /\ \A k \in 1 .. m : r[k].lo \in {gaps[i].lo, n} /\ r[k].hi \in {gaps[i].hi, prev}
      /\ \A x \in Int : InGap(x, gaps[i]) /\ (x <= prev \/ x > n) =>
            \E k \in 1 .. m : InGap(x, r[k])
  BY <1>1, RemainderCovers
<1> HIDE DEF r
<1>4. /\ Len(t) = L + m - 1
      /\ \A k \in 1 .. Len(t) :
            t[k] = IF k < i THEN gaps[k] ELSE IF k < i + m THEN r[k - i + 1]
                   ELSE gaps[k - m + 1]
  BY <1>2, SplicedElements
<1>5. L \in Nat /\ m \in Nat /\ i \in Int /\ 1 <= i /\ i <= L
  BY <1>2, LenProperties
<1> HIDE DEF t, m, L
<1>6. ASSUME NEW k \in 1 .. Len(t)
      PROVE  \E j \in 1 .. L : t[k].lo \in {gaps[j].lo, n} /\ t[k].hi \in {gaps[j].hi, prev}
  <2>1. CASE k < i
    <3>1. k \in 1 .. L /\ t[k] = gaps[k]  BY <2>1, <1>4, <1>5
    <3> QED BY <3>1
  <2>2. CASE i <= k /\ k < i + m
    <3>0. k \in Int /\ ~ k < i  BY <2>2, <1>5
    <3>1. k - i + 1 \in 1 .. m  BY <2>2, <3>0, <1>5
    <3>3. t[k] = r[k - i + 1]  BY <2>2, <3>0, <1>4
    <3>2. i \in 1 .. L  BY <1>5
    <3> QED BY <3>1, <3>2, <3>3, <1>3
  <2>3. CASE i + m <= k
    <3>1. k - m + 1 \in 1 .. L /\ t[k] = gaps[k - m + 1]  BY <2>3, <1>4, <1>5
    <3> QED BY <3>1
  <2> QED BY <2>1, <2>2, <2>3, <1>4, <1>5
<1>7. ASSUME NEW x \in Int, NEW j \in 1 .. L, InGap(x, gaps[j]), x <= prev \/ x > n
      PROVE  \E k \in 1 .. Len(t) : InGap(x, t[k])
  <2>1. CASE j < i
    <3>1. j \in 1 .. Len(t) /\ t[j] = gaps[j]  BY <2>1, <1>4, <1>5
    <3> QED BY <3>1, <1>7
  <2>2. CASE j = i
    <3>1. PICK k \in 1 .. m : InGap(x, r[k])  BY <2>2, <1>3, <1>7
    <3>2. k + i - 1 \in 1 .. Len(t) /\ t[k + i - 1] = r[k]
      <4>0. k \in Int /\ 1 <= k /\ k <= m /\ Len(t) = L + m - 1  BY <1>4, <1>5
      <4>1. k + i - 1 \in 1 .. Len(t) /\ ~ k + i - 1 < i /\ k + i - 1 < i + m
            /\ (k + i - 1) - i + 1 = k
        BY <4>0, <1>5
      <4> QED BY <4>1, <1>4
    <3> QED BY <3>1, <3>2
  <2>3. CASE j > i
    <3>1. j + m - 1 \in 1 .. Len(t) /\ t[j + m - 1] = gaps[j]
      <4>1. j + m - 1 \in 1 .. Len(t) /\ ~ j + m - 1 < i /\ ~ j + m - 1 < i + m
            /\ (j + m - 1) - m + 1 = j
        BY <2>3, <1>4, <1>5
      <4> QED BY <4>1, <1>4
    <3> QED BY <3>1, <1>7
  <2> QED BY <2>1, <2>2, <2>3, <1>5
<1>8. t = Spliced(i, Remainder(gaps[i], prev, n))  BY DEF t, r
<1> USE DEF L
<1> QED BY <1>6, <1>7, <1>8

\* Only numbers up to the new lowest bound go with a gap that is dropped.
LEMMA DropLowestCovers ==
    ASSUME NEW s \in Seq(Gap), s # <<>>, Ascending(s), Len(s) <= MaxGaps + 1,
           NEW x \in Int, NEW j \in 1 .. Len(s), InGap(x, s[j]), x > DropLowestGap(s)[1].lo
    PROVE  \E k \in 1 .. Len(DropLowestGap(s)) : InGap(x, DropLowestGap(s)[k])
<1>0. MaxGaps \in Nat \ {0} /\ Len(s) \in Nat  BY MaxGapsAssumption, LenProperties
<1>1. CASE Len(s) <= MaxGaps
  <2>1. DropLowestGap(s) = s  BY <1>1, <1>0 DEF DropLowestGap
  <2> QED BY <2>1
<1>2. CASE Len(s) > MaxGaps
  <2>1. DropLowestGap(s) = Tail(s)  BY <1>2 DEF DropLowestGap
  <2>2. Len(s) = MaxGaps + 1  BY <1>2, <1>0
  <2>3. /\ Len(Tail(s)) = MaxGaps
        /\ \A k \in 1 .. MaxGaps : Tail(s)[k] = s[k + 1]
    BY <2>2, HeadTailProperties, <1>0
  <2>4. j # 1
    <3>1. SUFFICES ASSUME j = 1 PROVE FALSE
      OBVIOUS
    <3>2. 1 \in 1 .. Len(s) /\ 2 \in 1 .. Len(s) /\ Tail(s)[1] = s[2]  BY <2>2, <2>3, <1>0
    <3>3. s[1].hi < s[2].lo  BY <3>2 DEF Ascending
    <3>4. s[1] \in Gap /\ s[2] \in Gap  BY <3>2, ElementOfSeq
    <3>5. x <= s[1].hi /\ x > s[2].lo  BY <3>1, <3>2, <2>1 DEF InGap
    <3> QED BY <3>3, <3>4, <3>5 DEF Gap
  <2>5. j - 1 \in 1 .. MaxGaps /\ Tail(s)[j - 1] = s[j]
    <3>1. j - 1 \in 1 .. MaxGaps /\ (j - 1) + 1 = j  BY <2>2, <2>4, <1>0
    <3> QED BY <3>1, <2>3
  <2> QED BY <2>1, <2>3, <2>5
<1> QED BY <1>0, <1>1, <1>2

Below == { pair \in Nat \X Nat : pair[1] < pair[2] }

LEMMA BelowIsWellFounded == IsWellFoundedOn(Below, Nat)
  BY NatLessThanWellFounded DEF OpToRel, Below

\* Every set of naturals that is not empty has a least element.
LEMMA LeastNatural ==
    ASSUME NEW S \in SUBSET Nat, S # {}
    PROVE  \E x \in S : \A y \in S : x <= y
<1>1. PICK x \in S : \A y \in S : <<y, x>> \notin Below
  BY BelowIsWellFounded, WFMin
<1>2. ASSUME NEW y \in S PROVE x <= y
  <2>1. <<y, x>> \in Nat \X Nat /\ <<y, x>>[1] = y /\ <<y, x>>[2] = x  OBVIOUS
  <2>2. ~ y < x  BY <1>1, <2>1 DEF Below
  <2> QED BY <2>2
<1> QED BY <1>2

\* So the number before n in a chain is the greatest one below n, where there is one.
LEMMA PredecessorProperties ==
    ASSUME NEW C \in SUBSET Int, NEW n \in C
    PROVE  /\ Predecessor(C, n) = NoPrev => \A m \in C : n <= m
           /\ Predecessor(C, n) # NoPrev =>
                /\ Predecessor(C, n) \in C
                /\ Predecessor(C, n) < n
                /\ \A m \in C : m < n => m <= Predecessor(C, n)
<1> DEFINE Prior(p) == p < n /\ \A m \in C : m < n => m <= p
<1>1. CASE \A m \in C : m >= n
  <2>1. Predecessor(C, n) = NoPrev  BY <1>1 DEF Predecessor
  <2> QED BY <2>1, <1>1
<1>2. CASE ~ \A m \in C : m >= n
  <2> DEFINE S == { n - m : m \in { x \in C : x < n } }
  <2>1. S \in SUBSET Nat /\ S # {}
    <3>1. \A m \in C : m \in Int /\ n \in Int  OBVIOUS
    <3>2. S \in SUBSET Nat  BY <3>1
    <3>3. PICK m \in C : m < n  BY <1>2, <3>1
    <3>4. n - m \in S  BY <3>3
    <3> QED BY <3>2, <3>4
  <2>2. PICK d \in S : \A y \in S : d <= y
    <3> HIDE DEF S
    <3> QED BY <2>1, LeastNatural
  <2>3. PICK p \in C : p < n /\ d = n - p  OBVIOUS
  <2>4. ASSUME NEW m \in C, m < n PROVE m <= p
    <3>1. n - m \in S  BY <2>4
    <3>2. d <= n - m  BY <3>1, <2>2
    <3> HIDE DEF S
    <3> QED BY <3>2, <2>3
  <2>5. Prior(p)  BY <2>3, <2>4
  <2>6. Predecessor(C, n) = CHOOSE q \in C : Prior(q)  BY <1>2 DEF Predecessor
  <2>7. Predecessor(C, n) \in C /\ Prior(Predecessor(C, n))
    <3> HIDE DEF Prior
    <3> QED BY <2>5, <2>6
  <2>8. Predecessor(C, n) # NoPrev  BY <2>7, NoPrevAssumption
  <2> QED BY <2>7, <2>8
<1> QED BY <1>1, <1>2

\* What a message of an honest publisher says.
LEMMA HonestLinks ==
    ASSUME IInv, Honest, NEW link \in links
    PROVE  /\ Chain \in SUBSET Numbers /\ Chain \in SUBSET Int /\ link[2] \in Chain
           /\ link[1] = NoPrev => \A m \in Chain : link[2] <= m
           /\ link[1] # NoPrev => /\ link[1] \in Chain
                                  /\ link[1] < link[2]
                                  /\ \A m \in Chain : m < link[2] => m <= link[1]
<1>1. Chain \in SUBSET Numbers /\ link[2] \in Chain
  BY DEF IInv, TypeOK, Links, Chain
<1>2. Chain \in SUBSET Int  BY <1>1, RanksAssumption
<1>3. links = ChainLinks(Chain)  BY DEF Honest, Chain
<1>4. PICK n \in Chain : link = <<Predecessor(Chain, n), n>>  BY <1>3 DEF ChainLinks
<1>5. link[1] = Predecessor(Chain, link[2])  BY <1>4
<1> HIDE DEF Chain
<1>6. /\ Predecessor(Chain, link[2]) = NoPrev => \A m \in Chain : link[2] <= m
      /\ Predecessor(Chain, link[2]) # NoPrev =>
           /\ Predecessor(Chain, link[2]) \in Chain
           /\ Predecessor(Chain, link[2]) < link[2]
           /\ \A m \in Chain : m < link[2] => m <= Predecessor(Chain, link[2])
  BY <1>1, <1>2, PredecessorProperties
<1> QED BY <1>1, <1>2, <1>5, <1>6

LEMMA HonestInit == Init => HonestInv
<1> SUFFICES ASSUME Init PROVE HonestInv
  OBVIOUS
<1>1. gaps = <<>> /\ Len(gaps) = 0  BY DEF Init
<1>2. Chain \in SUBSET Numbers  BY LinkSetsAssumption DEF Init, Chain, Links
<1>3. BoundsAreInChain  BY <1>1 DEF BoundsAreInChain
<1>4. UnreportedIsInGap  BY <1>1, <1>2 DEF Init, UnreportedIsInGap
<1> QED BY <1>3, <1>4 DEF HonestInv

\* An answer that leaves the gaps alone.
LEMMA AnswerKeepsHonestInv ==
    ASSUME HonestInv, UNCHANGED links, NEW n, NEW kind, Answer(kind, n)
    PROVE  HonestInv'
BY DEF Answer, HonestInv, Honest, BoundsAreInChain, UnreportedIsInGap, Chain, InGap

\* The first number of all opens the one gap above it.
LEMMA FirstKeepsHonestInv ==
    ASSUME IInv, HonestInv, Honest, UNCHANGED links,
           NEW prev, NEW n \in Chain, n \in Numbers, MarkFirst(prev, n)
    PROVE  HonestInv'
<1>0. /\ n \in Int /\ n < Infinity /\ Infinity \in Int /\ Chain' = Chain
      /\ Chain \in SUBSET Numbers /\ \A m \in Chain : m \in Int /\ m < Infinity
  BY RanksAssumption DEF Chain, IInv, TypeOK, Links
<1>1. /\ gaps = <<>> /\ gaps' = <<[lo |-> n, hi |-> Infinity]>>
      /\ newReports' = [newReports EXCEPT ![n] = @ + 1]
  BY DEF MarkFirst, AnswerNew
<1>2. /\ gaps' # <<>> /\ Len(gaps') = 1 /\ gaps'[1].lo = n /\ gaps'[1].hi = Infinity
      /\ newReports'[n] = newReports[n] + 1 /\ newReports[n] \in Nat
  BY <1>1 DEF IInv, TypeOK
<1>3. BoundsAreInChain'
  BY <1>0, <1>2 DEF BoundsAreInChain
<1>4. ASSUME NEW m \in Chain, m > n PROVE InGap(m, gaps'[1])
  BY <1>0, <1>2, <1>4 DEF InGap
<1>5. UnreportedIsInGap'
  BY <1>0, <1>2, <1>4 DEF UnreportedIsInGap
<1> QED BY <1>3, <1>5 DEF HonestInv

\* Without a predecessor it is the chain's first number, which is above no gap's bound.
LEMMA UnchainedIsKnown ==
    ASSUME IInv, HonestInv, Honest, NEW n \in Chain, \A m \in Chain : n <= m,
           n \in Int, MarkUnchained(NoPrev, n)
    PROVE  Answer("duplicate", n) /\ (newReports[n] = 0 => n < gaps[1].lo)
<1>1. gaps \in Seq(Gap) /\ gaps # <<>>  BY DEF MarkUnchained, IInv, TypeOK
<1>2. Len(gaps) \in 1 .. Len(gaps) /\ 1 \in 1 .. Len(gaps)  BY <1>1, EmptySeq, LenProperties
<1>3. \A i \in 1 .. Len(gaps) :
         gaps[i].lo \in Int /\ n <= gaps[i].lo /\ newReports[gaps[i].lo] # 0
  <2>1. \A i \in 1 .. Len(gaps) : gaps[i] \in Gap  BY <1>1, ElementOfSeq
  <2> QED BY <2>1 DEF Gap, HonestInv, BoundsAreInChain
<1>4. ~ n > gaps[Len(gaps)].lo  BY <1>2, <1>3
<1>5. Answer("duplicate", n)  BY <1>4 DEF MarkUnchained
<1>6. newReports[n] = 0 => n < gaps[1].lo  BY <1>2, <1>3
<1> QED BY <1>5, <1>6

\* The number splits the gap it is in.
LEMMA InGapKeepsHonestInv ==
    ASSUME IInv, HonestInv, Honest, UNCHANGED links,
           NEW prev \in Chain, NEW n \in Chain, prev < n,
           \A m \in Chain : m < n => m <= prev, MarkInGap(prev, n)
    PROVE  HonestInv'
<1>0. /\ Chain' = Chain /\ Chain \in SUBSET Numbers /\ Chain \in SUBSET Int
      /\ prev \in Int /\ n \in Int /\ n \in Numbers
  BY RanksAssumption DEF Chain, IInv, TypeOK, Links
<1>1. gaps \in Seq(Gap) /\ Ascending(gaps) /\ OpenEnded(gaps) /\ Len(gaps) <= MaxGaps
  BY DEF IInv, TypeOK, GapsAreOrdered
<1>2. \A k \in 1 .. Len(gaps) : gaps[k] \in Gap /\ gaps[k].lo \in Int /\ gaps[k].hi \in Int
  <2>1. \A k \in 1 .. Len(gaps) : gaps[k] \in Gap  BY <1>1, ElementOfSeq
  <2> QED BY <2>1 DEF Gap
<1>3. PICK i \in 1 .. Len(gaps) :
        /\ gaps[i].lo <= prev /\ n <= gaps[i].hi
        /\ gaps' = DropLowestGap(Spliced(i, Remainder(gaps[i], prev, n)))
  BY <1>0, <1>2 DEF MarkInGap
<1> DEFINE t == Spliced(i, Remainder(gaps[i], prev, n))
<1>4. /\ t \in Seq(Gap) /\ Ascending(t) /\ OpenEnded(t) /\ t # <<>>
      /\ Len(t) <= Len(gaps) + 1
      /\ \A k \in 1 .. Len(t) :
           \E j \in 1 .. Len(gaps) : gaps[j].lo <= t[k].lo /\ t[k].hi <= gaps[j].hi
  BY <1>0, <1>1, <1>3, SplicedProperties
<1>5. /\ \A k \in 1 .. Len(t) : \E j \in 1 .. Len(gaps) :
           t[k].lo \in {gaps[j].lo, n} /\ t[k].hi \in {gaps[j].hi, prev}
      /\ \A x \in Int : \A j \in 1 .. Len(gaps) :
           InGap(x, gaps[j]) /\ (x <= prev \/ x > n) => \E k \in 1 .. Len(t) : InGap(x, t[k])
  BY <1>0, <1>1, <1>3, SplicedCovers
<1>6. gaps' = DropLowestGap(t)  BY <1>3
<1> HIDE DEF t
<1>7. Len(t) <= MaxGaps + 1  BY <1>1, <1>4, MaxGapsAssumption, LenProperties
<1>8. /\ gaps' \in Seq(Gap) /\ gaps' # <<>>
      /\ \A k \in 1 .. Len(gaps') : \E j \in 1 .. Len(t) : gaps'[k] = t[j]
  BY <1>4, <1>6, <1>7, DropLowestElements
<1>9. /\ newReports[n] = 0 \/ newReports[n] \in Nat
      /\ newReports'[n] = newReports[n] + 1
      /\ \A x \in Numbers : newReports[x] \in Nat
      /\ \A x \in Numbers : x # n => newReports'[x] = newReports[x]
  BY <1>0 DEF IInv, TypeOK, MarkInGap, AnswerNew
<1>10. BoundsAreInChain'
  <2> SUFFICES ASSUME NEW k \in 1 .. Len(gaps')
               PROVE  /\ gaps'[k].lo \in Chain /\ newReports'[gaps'[k].lo] # 0
                      /\ gaps'[k].hi \in Chain \cup {Infinity}
    BY <1>0 DEF BoundsAreInChain
  <2>1. PICK l \in 1 .. Len(t) : gaps'[k] = t[l]  BY <1>8
  <2>2. PICK j \in 1 .. Len(gaps) : t[l].lo \in {gaps[j].lo, n} /\ t[l].hi \in {gaps[j].hi, prev}
    BY <1>5
  <2>3. /\ gaps[j].lo \in Chain /\ newReports[gaps[j].lo] # 0
        /\ gaps[j].hi \in Chain \cup {Infinity}
    BY DEF HonestInv, BoundsAreInChain
  <2>4. \A x \in Numbers : newReports[x] # 0 \/ x = n => newReports'[x] # 0
    BY <1>9
  <2> QED BY <2>1, <2>2, <2>3, <2>4, <1>0
<1>11. gaps[1].lo \in Int /\ gaps'[1].lo \in Int /\ gaps[1].lo <= gaps'[1].lo
  <2>1. 1 \in 1 .. Len(gaps') /\ 1 \in 1 .. Len(gaps) /\ Len(gaps) \in Nat
    BY <1>8, <1>1, EmptySeq, LenProperties
  <2>2. PICK l \in 1 .. Len(t) : gaps'[1] = t[l]  BY <1>8, <2>1
  <2>3. PICK j \in 1 .. Len(gaps) : gaps[j].lo <= gaps'[1].lo  BY <1>4, <2>2
  <2>4. j = 1 \/ (1 < j /\ gaps[1].hi < gaps[j].lo /\ gaps[1].lo < gaps[1].hi)
    BY <1>1, <2>1 DEF Ascending
  <2>5. gaps'[1] \in Gap  BY <2>1, <1>8, ElementOfSeq
  <2>6. gaps'[1].lo \in Int  BY <2>5 DEF Gap
  <2>7. gaps[1].lo \in Int /\ gaps[1].hi \in Int /\ gaps[j].lo \in Int  BY <1>2, <2>1
  <2> QED BY <2>3, <2>4, <2>6, <2>7
<1>12. UnreportedIsInGap'
  <2> SUFFICES ASSUME NEW m \in Chain, newReports'[m] = 0, m > gaps'[1].lo
               PROVE  \E k \in 1 .. Len(gaps') : InGap(m, gaps'[k])
    BY <1>0, <1>8 DEF UnreportedIsInGap
  <2>1. m # n /\ newReports[m] = 0 /\ m \in Int  BY <1>0, <1>9
  <2>2. gaps # <<>> /\ m > gaps[1].lo  BY <2>1, <1>11, <1>1, EmptySeq
  <2>3. PICK j \in 1 .. Len(gaps) : InGap(m, gaps[j])
    BY <2>1, <2>2 DEF HonestInv, UnreportedIsInGap
  <2>4. m <= prev \/ m > n  BY <2>1, <1>0
  <2>5. PICK l \in 1 .. Len(t) : InGap(m, t[l])  BY <1>5, <2>1, <2>3, <2>4
  <2>6. m > DropLowestGap(t)[1].lo  BY <1>6
  <2> QED BY <1>4, <1>6, <1>7, <2>1, <2>5, <2>6, DropLowestCovers
<1> QED BY <1>10, <1>12 DEF HonestInv

\* A number that was not reported and is not below all gaps is in a gap, and the loop stops there.
LEMMA SeenIsKnown ==
    ASSUME IInv, HonestInv, Honest, NEW prev \in Chain, NEW n \in Chain,
           prev \in Int, n \in Int, prev < n, MarkSeen(prev, n), newReports[n] = 0
    PROVE  n < gaps[1].lo
<1>1. gaps \in Seq(Gap) /\ gaps # <<>> /\ Ascending(gaps)
  BY DEF MarkSeen, IInv, TypeOK, GapsAreOrdered
<1>2. \A k \in 1 .. Len(gaps) : gaps[k].lo \in Int /\ gaps[k].hi \in Int
  <2>1. \A k \in 1 .. Len(gaps) : gaps[k] \in Gap  BY <1>1, ElementOfSeq
  <2> QED BY <2>1 DEF Gap
<1>3. 1 \in 1 .. Len(gaps) /\ Len(gaps) \in Nat  BY <1>1, EmptySeq, LenProperties
<1>4. n # gaps[1].lo  BY <1>3 DEF HonestInv, BoundsAreInChain
<1>5. SUFFICES ASSUME n > gaps[1].lo PROVE FALSE
  BY <1>2, <1>3, <1>4
<1>6. PICK j \in 1 .. Len(gaps) : InGap(n, gaps[j])
  BY <1>1, <1>5 DEF HonestInv, UnreportedIsInGap
<1>7. gaps[j].lo < n /\ n <= gaps[j].hi  BY <1>6 DEF InGap
<1>8. ASSUME NEW k \in j + 1 .. Len(gaps) PROVE ~ Fires(k, prev, n)
  <2>1. k \in 1 .. Len(gaps) /\ j < k  BY <1>3
  <2>2. gaps[j].hi < gaps[k].lo /\ gaps[k].lo < gaps[k].hi  BY <1>1, <2>1 DEF Ascending
  <2>3. /\ gaps[k].lo \in Int /\ gaps[k].hi \in Int /\ gaps[j].hi \in Int
    BY <1>2, <2>1
  <2> QED BY <1>7, <2>2, <2>3 DEF Fires
<1>9. StopsAt(j, prev, n)  BY <1>7, <1>8 DEF StopsAt, Fires
<1>10. prev >= gaps[j].hi  BY <1>9 DEF MarkSeen
<1> QED BY <1>7, <1>10, <1>2

\* No bound of a gap lies between a number and its predecessor.
LEMMA NoMismatch ==
    ASSUME IInv, HonestInv, Honest, NEW prev \in Chain, NEW n \in Chain,
           prev \in Int, n \in Int, n < Infinity, prev < n,
           Chain \in SUBSET Int, \A m \in Chain : m < n => m <= prev
    PROVE  ~ MarkMismatch(prev, n)
<1>1. SUFFICES ASSUME NEW i \in 1 .. Len(gaps), Fires(i, prev, n), prev < gaps[i].hi,
                      prev < gaps[i].lo \/ n > gaps[i].hi
               PROVE  FALSE
  BY DEF MarkMismatch, StopsAt
<1>2. gaps[i].lo \in Chain /\ gaps[i].hi \in Chain \cup {Infinity}
  BY DEF HonestInv, BoundsAreInChain
<1>3. gaps[i].lo \in Int /\ gaps[i].hi \in Int  BY <1>2, RanksAssumption
<1>4. gaps[i].lo < n  BY <1>1, <1>3 DEF Fires
<1>5. gaps[i].lo <= prev  BY <1>2, <1>4
<1>6. n > gaps[i].hi  BY <1>1, <1>3, <1>5
<1>7. gaps[i].hi \in Chain  BY <1>2, <1>3, <1>6, RanksAssumption
<1>8. gaps[i].hi <= prev  BY <1>6, <1>7
<1> QED BY <1>1, <1>3, <1>8

\* One message of any publisher, honest or not.
LEMMA HonestMarks ==
    ASSUME IInv, HonestInv, Honest, UNCHANGED links, NEW link \in links,
           MarkAndCheck(link[1], link[2])
    PROVE  HonestInv' /\ GetsThrough
<1> DEFINE prev == link[1]
           n == link[2]
<1>1. /\ Chain \in SUBSET Numbers /\ Chain \in SUBSET Int /\ n \in Chain
      /\ prev = NoPrev => \A m \in Chain : n <= m
      /\ prev # NoPrev => /\ prev \in Chain /\ prev < n
                          /\ \A m \in Chain : m < n => m <= prev
  BY HonestLinks
<1>2. n \in Int /\ n \in Numbers /\ n < Infinity /\ (prev # NoPrev => prev \in Int)
  BY <1>1, RanksAssumption
<1>3. MarkAndCheck(prev, n)  OBVIOUS
<1> HIDE DEF prev, n
<1>4. CASE MarkInvalid(prev, n)
  BY <1>1, <1>2, <1>4 DEF MarkInvalid
<1>5. CASE MarkFirst(prev, n)
  <2>1. HonestInv'  BY <1>1, <1>2, <1>5, FirstKeepsHonestInv
  <2>2. verdict'.kind = "new"  BY <1>5 DEF MarkFirst, AnswerNew
  <2> QED BY <2>1, <2>2 DEF GetsThrough
<1>6. CASE MarkUnchained(prev, n)
  <2>1. prev = NoPrev  BY <1>6 DEF MarkUnchained
  <2>2. Answer("duplicate", n) /\ (newReports[n] = 0 => n < gaps[1].lo)
    BY <1>1, <1>2, <1>6, <2>1, UnchainedIsKnown
  <2>3. HonestInv'  BY <2>2, AnswerKeepsHonestInv
  <2>4. verdict'.kind = "duplicate" /\ verdict'.number = n  BY <2>2 DEF Answer
  <2> QED BY <2>2, <2>3, <2>4 DEF GetsThrough
<1>7. CASE MarkInGap(prev, n)
  <2>1. prev # NoPrev  BY <1>7 DEF MarkInGap
  <2>2. HonestInv'  BY <1>1, <1>7, <2>1, InGapKeepsHonestInv
  <2>3. verdict'.kind = "new"  BY <1>7 DEF MarkInGap, AnswerNew
  <2> QED BY <2>2, <2>3 DEF GetsThrough
<1>8. CASE MarkSeen(prev, n)
  <2>1. prev # NoPrev /\ Answer("duplicate", n)  BY <1>8 DEF MarkSeen
  <2>2. HonestInv'  BY <2>1, AnswerKeepsHonestInv
  <2>3. verdict'.kind = "duplicate" /\ verdict'.number = n  BY <2>1 DEF Answer
  <2>4. newReports[n] = 0 => n < gaps[1].lo  BY <1>1, <1>2, <1>8, <2>1, SeenIsKnown
  <2> QED BY <2>2, <2>3, <2>4 DEF GetsThrough
<1>9. CASE MarkMismatch(prev, n)
  <2>1. prev # NoPrev  BY <1>9 DEF MarkMismatch
  <2> QED BY <1>1, <1>2, <1>9, <2>1, NoMismatch
<1> QED BY <1>3, <1>4, <1>5, <1>6, <1>7, <1>8, <1>9 DEF MarkAndCheck

LEMMA HonestStep == IInv /\ HonestInv /\ [Next]_vars => HonestInv' /\ [GetsThrough]_vars
<1> SUFFICES ASSUME IInv, HonestInv, [Next]_vars PROVE HonestInv' /\ [GetsThrough]_vars
  OBVIOUS
<1>1. CASE Next /\ Honest
  <2>1. PICK link \in links : MarkAndCheck(link[1], link[2]) /\ UNCHANGED links
    BY <1>1 DEF Next
  <2> QED BY <1>1, <2>1, HonestMarks
<1>2. CASE Next /\ ~ Honest
  <2>1. ~ Honest'  BY <1>2 DEF Next, Honest
  <2> QED BY <1>2, <2>1 DEF HonestInv, GetsThrough
<1>3. CASE UNCHANGED vars
  <2>1. HonestInv'
    BY <1>3 DEF vars, HonestInv, Honest, BoundsAreInChain, UnreportedIsInGap, Chain, InGap
  <2> QED BY <1>3, <2>1
<1> QED BY <1>1, <1>2, <1>3

\* No message of an honest publisher makes the detector throw, and none is dropped that was not
\* reported before, unless its gap was given up: for any chain of numbers, any limit on the gaps,
\* in whatever order and however often its messages arrive.
THEOREM HonestMessagesPass == Spec => HonestMessagesGetThrough
<1>1. Spec => []HonestInv
  BY HonestInit, HonestStep, Invariance, PTL DEF Spec
<1> QED BY <1>1, HonestStep, Invariance, PTL DEF Spec, HonestMessagesGetThrough, GetsThrough

-----------------------------------------------------------------------------
(* A tracker's instructions (NodeInstructions).                            *)

\* The strengthening: while the throttler waits for a handler it remembers a counter, which is
\* what ties the lock to the retry.
OneHolder == \A s, t \in Instr!Holders : s = t
HoldersAreCounted == Instr!Holders # {} => seen # 0
InstrInv ==
    /\ Instr!TypeOK
    /\ OneHolder
    /\ queue # None => Instr!Holders # {}
    /\ HoldersAreCounted
    /\ Instr!RetriedWhileSubscribed

LEMMA HandlerFields ==
    ASSUME NEW h \in Instr!Handler
    PROVE  /\ h # None
           /\ h.instruction \in Instructions /\ h.instruction.counter \in Nat \ {0}
           /\ h.instruction.nodeIds \in SUBSET Peers
           /\ h.by \in {"throttler", "retry", "cancelled"} /\ h.waiting \in SUBSET Peers
<1>1. h.instruction \in Instructions /\ h.by \in {"throttler", "retry", "cancelled"} /\ h.waiting \in SUBSET Peers
  BY DEF Instr!Handler
<1>2. h # None
  BY InstructionsAssumption
<1>3. QED
  BY <1>1, <1>2, InstructionsAssumption

LEMMA SettledIsHandler ==
    ASSUME NEW h \in Instr!Handler, NEW p, NEW failed \in BOOLEAN
    PROVE  Instr!SettleOne(h, p, failed) \in Instr!Handler /\ Instr!SettleOne(h, p, failed).by = h.by
<1> DEFINE g == [h EXCEPT !.waiting = h.waiting \ {p}]
           k == [g EXCEPT !.failed = g.failed \/ failed]
<1>1. g \in Instr!Handler /\ g.by = h.by
  BY DEF Instr!Handler
<1>2. g.failed = h.failed
  BY Zenon DEF Instr!Handler
<1> HIDE DEF g
<1>3. k \in Instr!Handler /\ k.by = g.by
  BY <1>1 DEF Instr!Handler
<1>4. Instr!SettleOne(h, p, failed) = k
  BY <1>2, Zenon DEF Instr!SettleOne, g
<1>5. QED
  BY <1>1, <1>3, <1>4

\* Steps after which the same handlers hold the throttler's lock.
LEMMA SameHolders ==
    ASSUME InstrInv, Instr!TypeOK', Instr!Holders' = Instr!Holders, UNCHANGED <<queue, seen>>,
           Instr!RetriedWhileSubscribed'
    PROVE  InstrInv'
BY DEF InstrInv, OneHolder, HoldersAreCounted

\* Who holds the lock once the handler in slot s has been replaced.
LEMMA HoldersAfter ==
    ASSUME Instr!TypeOK, NEW s \in Slots, NEW h \in Instr!Handler \cup {None},
           handlers' = [handlers EXCEPT ![s] = h]
    PROVE  /\ handlers' \in [Slots -> Instr!Handler \cup {None}]
           /\ Instr!Holders' = IF h # None /\ h.by = "throttler" THEN Instr!Holders \cup {s}
                               ELSE Instr!Holders \ {s}
<1>1. handlers \in [Slots -> Instr!Handler \cup {None}]
  BY DEF Instr!TypeOK
<1>2. handlers'[s] = h /\ \A t \in Slots \ {s} : handlers'[t] = handlers[t]
  BY <1>1
<1>3. QED
  BY <1>1, <1>2 DEF Instr!Holders, Instr!InFlight

\* The part of a handler before its await.
LEMMA StartIsSound ==
    ASSUME InstrInv, NEW s \in Slots, NEW i \in Instructions, NEW reattempt \in BOOLEAN,
           NEW by \in {"throttler", "retry"}, Instr!Starts(s, i, reattempt, by)
    PROVE  /\ isSetUp' = TRUE /\ neighbors' \in SUBSET Peers
           /\ retry' \in Instr!Retry \cup {None}
           /\ ~stopped => retry' # None
           /\ handlers' \in [Slots -> Instr!Handler \cup {None}]
           /\ Instr!Holders' = IF by = "throttler" THEN Instr!Holders \cup {s} ELSE Instr!Holders \ {s}
<1> DEFINE h == [instruction |-> i, reattempt |-> reattempt, by |-> by,
                 waiting |-> i.nodeIds, failed |-> FALSE]
           r == [instruction |-> i, counter |-> 0]
<1>1. i.nodeIds \in SUBSET Peers
  BY InstructionsAssumption
<1>2. h \in Instr!Handler /\ h.by = by /\ h # None
  <2>1. by \in {"throttler", "retry", "cancelled"} /\ FALSE \in BOOLEAN
    OBVIOUS
  <2>2. h \in Instr!Handler
    BY <1>1, <2>1 DEF Instr!Handler
  <2>3. QED
    BY <2>2, HandlerFields
<1>3. r \in Instr!Retry /\ r # None
  BY InstructionsAssumption DEF Instr!Retry
<1>4. handlers' = [handlers EXCEPT ![s] = h] /\ retry' = (IF stopped THEN retry ELSE r) /\ isSetUp' = TRUE
      /\ neighbors' = IF isSetUp THEN neighbors \cap i.nodeIds ELSE {}
  BY DEF Instr!Starts
<1> HIDE DEF h, r
<1>5. Instr!TypeOK
  BY DEF InstrInv
<1>6. QED
  BY <1>2, <1>3, <1>4, <1>5, HoldersAfter DEF Instr!TypeOK

LEMMA InstrInit == Instr!Init => InstrInv
<1> SUFFICES ASSUME Instr!Init PROVE InstrInv
  OBVIOUS
<1>1. Instr!Holders = {}
  BY DEF Instr!Init, Instr!Holders, Instr!InFlight
<1>2. Instr!TypeOK
  <2>1. 0 \in 0 .. RetryLimit + 1
    BY InstructionsAssumption
  <2>2. QED
    BY <2>1 DEF Instr!Init, Instr!TypeOK
<1>3. QED
  BY <1>1, <1>2 DEF Instr!Init, InstrInv, OneHolder, HoldersAreCounted, Instr!RetriedWhileSubscribed

LEMMA ConnectionsSettle ==
    ASSUME InstrInv, NEW s \in Slots, NEW p \in Peers, Instr!Connected(s, p) \/ Instr!ConnectFails(s, p)
    PROVE  InstrInv'
<1>1. PICK failed \in BOOLEAN : handlers' = [handlers EXCEPT ![s] = Instr!SettleOne(handlers[s], p, failed)]
  <2>1. CASE Instr!Connected(s, p)
    BY <2>1, Zenon DEF Instr!Connected
  <2>2. CASE Instr!ConnectFails(s, p)
    BY <2>2 DEF Instr!ConnectFails
  <2>3. QED
    BY <2>1, <2>2
<1>2. Instr!TypeOK /\ handlers[s] \in Instr!Handler /\ handlers[s] # None
  BY DEF InstrInv, Instr!TypeOK, Instr!Connected, Instr!ConnectFails
<1> DEFINE h == Instr!SettleOne(handlers[s], p, failed)
<1>3. h \in Instr!Handler /\ h.by = handlers[s].by /\ h # None
  BY <1>2, SettledIsHandler, HandlerFields
<1> HIDE DEF h
<1>4. /\ handlers' \in [Slots -> Instr!Handler \cup {None}]
      /\ Instr!Holders' = IF handlers[s].by = "throttler" THEN Instr!Holders \cup {s} ELSE Instr!Holders \ {s}
  BY <1>1, <1>2, <1>3, HoldersAfter DEF h
<1>5. Instr!Holders' = Instr!Holders
  BY <1>2, <1>4 DEF Instr!Holders, Instr!InFlight
<1>6. /\ UNCHANGED <<isSetUp, counter, queue, seen, retry, stopped, status, latest, silent>>
      /\ neighbors' \in SUBSET Peers
  BY <1>2 DEF Instr!Connected, Instr!ConnectFails, Instr!TypeOK, Instr!throttler, Instr!history, Instr!stream
<1>7. Instr!TypeOK' /\ Instr!RetriedWhileSubscribed'
  BY <1>2, <1>4, <1>6 DEF Instr!TypeOK, InstrInv, Instr!RetriedWhileSubscribed
<1>8. QED
  BY <1>5, <1>6, <1>7, SameHolders

\* What is reported, and the counter, when a handler ends.
LEMMA EndIsTyped ==
    ASSUME Instr!TypeOK, NEW s \in Slots, Instr!Settled(s)
    PROVE  /\ handlers[s] \in Instr!Handler
           /\ Instr!CounterAfter(s) \in Nat /\ Instr!StatusAfter(s) \in Nat \cup {-1}
<1>1. handlers[s] \in Instr!Handler
  BY DEF Instr!TypeOK, Instr!Settled
<1>2. handlers[s].instruction.counter \in Nat
  BY <1>1, HandlerFields
<1>3. Instr!CounterAfter(s) \in Nat
  BY <1>2 DEF Instr!TypeOK, Instr!CounterAfter
<1>4. QED
  BY <1>1, <1>3 DEF Instr!TypeOK, Instr!StatusAfter

LEMMA ThrottledEndKeeps ==
    ASSUME InstrInv, NEW s \in Slots, Instr!ThrottledEnds(s)
    PROVE  InstrInv'
<1>1. /\ Instr!TypeOK /\ Instr!Settled(s) /\ s \in Instr!Holders
      /\ seen # 0 /\ retry # None /\ isSetUp /\ ~stopped
  BY DEF InstrInv, Instr!ThrottledEnds, Instr!Settled, Instr!Holders, Instr!InFlight,
         HoldersAreCounted, Instr!RetriedWhileSubscribed
<1>2. /\ counter' \in Nat /\ status' \in Nat \cup {-1} /\ UNCHANGED <<seen, stopped>>
  BY <1>1, EndIsTyped DEF Instr!ThrottledEnds
<1>3. CASE queue = None
  <2>1. handlers' = [handlers EXCEPT ![s] = None] /\ UNCHANGED <<isSetUp, neighbors, retry, queue, latest, silent>>
    BY <1>3 DEF Instr!ThrottledEnds, Instr!history
  <2>2. handlers' \in [Slots -> Instr!Handler \cup {None}] /\ Instr!Holders' = Instr!Holders \ {s}
    BY <1>1, <2>1, HoldersAfter
  <2>3. Instr!TypeOK'
    BY <1>1, <1>2, <2>1, <2>2 DEF Instr!TypeOK
  <2>4. QED
    BY <1>1, <1>2, <1>3, <2>1, <2>2, <2>3 DEF InstrInv, OneHolder, HoldersAreCounted, Instr!RetriedWhileSubscribed
<1>4. CASE queue # None
  <2>1. /\ Instr!Starts(s, queue, FALSE, "throttler") /\ queue' = None /\ latest' = queue /\ silent' = 0
        /\ queue \in Instructions
    BY <1>1, <1>4 DEF Instr!ThrottledEnds, Instr!TypeOK
  <2>2. /\ isSetUp' = TRUE /\ neighbors' \in SUBSET Peers
        /\ retry' \in Instr!Retry \cup {None} /\ retry' # None
        /\ handlers' \in [Slots -> Instr!Handler \cup {None}]
        /\ Instr!Holders' = Instr!Holders \cup {s}
    BY <1>1, <2>1, StartIsSound
  <2>3. Instr!TypeOK'
    BY <1>1, <1>2, <2>1, <2>2, InstructionsAssumption DEF Instr!TypeOK
  <2>4. Instr!Holders' = Instr!Holders
    BY <1>1, <2>2
  <2>5. QED
    BY <1>1, <1>2, <2>1, <2>2, <2>3, <2>4
    DEF InstrInv, OneHolder, HoldersAreCounted, Instr!RetriedWhileSubscribed
<1>5. QED
  BY <1>3, <1>4

LEMMA OtherEndsKeep ==
    ASSUME InstrInv, NEW s \in Slots, Instr!RetryEnds(s) \/ Instr!CancelledEnds(s)
    PROVE  InstrInv'
<1>1. Instr!TypeOK /\ Instr!Settled(s) /\ s \notin Instr!Holders /\ handlers[s] \in Instr!Handler
  BY EndIsTyped DEF InstrInv, Instr!RetryEnds, Instr!CancelledEnds, Instr!Settled, Instr!Holders
<1>2. /\ counter' \in Nat /\ status' \in Nat \cup {-1}
      /\ handlers' = [handlers EXCEPT ![s] = None]
      /\ UNCHANGED <<isSetUp, neighbors, queue, seen, stopped, latest, silent>>
      /\ retry' = retry \/ retry' = Instr!Rearmed(handlers[s].instruction)
  BY <1>1, EndIsTyped DEF Instr!RetryEnds, Instr!CancelledEnds, Instr!throttler, Instr!history
<1>3. handlers' \in [Slots -> Instr!Handler \cup {None}] /\ Instr!Holders' = Instr!Holders
  <2>1. handlers' \in [Slots -> Instr!Handler \cup {None}] /\ Instr!Holders' = Instr!Holders \ {s}
    BY <1>1, <1>2, HoldersAfter
  <2>2. QED
    BY <1>1, <2>1
<1>4. /\ Instr!Rearmed(handlers[s].instruction) \in Instr!Retry \cup {None}
      /\ Instr!Rearmed(handlers[s].instruction) # None <=> retry # None
  <2> DEFINE i == handlers[s].instruction
             n == IF retry.counter >= RetryLimit THEN 0 ELSE retry.counter + 1
             r == [instruction |-> i, counter |-> n]
  <2>1. CASE retry = None
    BY <2>1 DEF Instr!Rearmed
  <2>2. CASE retry # None
    <3>1. i \in Instructions /\ retry.counter \in 0 .. RetryLimit
      BY <1>1, <2>2, HandlerFields DEF Instr!TypeOK, Instr!Retry
    <3>2. n \in 0 .. RetryLimit
      BY <3>1, InstructionsAssumption
    <3> HIDE DEF n, i
    <3>3. r \in Instr!Retry
      BY <3>1, <3>2 DEF Instr!Retry
    <3>4. r # None
      BY <3>3, InstructionsAssumption
    <3>5. Instr!Rearmed(handlers[s].instruction) = r
      BY <2>2 DEF Instr!Rearmed, n, i
    <3>6. QED
      BY <2>2, <3>3, <3>4, <3>5
  <2>3. QED
    BY <2>1, <2>2
<1>5. retry' \in Instr!Retry \cup {None} /\ (retry' # None <=> retry # None)
  BY <1>1, <1>2, <1>4 DEF Instr!TypeOK
<1>6. Instr!TypeOK' /\ Instr!RetriedWhileSubscribed'
  BY <1>1, <1>2, <1>3, <1>5 DEF Instr!TypeOK, InstrInv, Instr!RetriedWhileSubscribed
<1>7. QED
  BY <1>2, <1>3, <1>6, SameHolders

LEMMA ReceivingKeeps ==
    ASSUME InstrInv, NEW i \in Instructions, Instr!ReceiveInstruction(i)
    PROVE  InstrInv'
<1>1. /\ Instr!TypeOK /\ ~stopped /\ seen' = i.counter /\ i.counter \in Nat \ {0}
      /\ UNCHANGED <<stopped, status>>
  BY InstructionsAssumption DEF InstrInv, Instr!ReceiveInstruction
<1>2. CASE Instr!Busy
  <2>1. queue' = i /\ UNCHANGED <<isSetUp, neighbors, counter, retry, handlers, latest, silent>>
    BY <1>2 DEF Instr!ReceiveInstruction, Instr!stream, Instr!history
  <2>2. Instr!Holders' = Instr!Holders /\ Instr!Holders # {} /\ seen # 0
    BY <1>2, <2>1 DEF Instr!Holders, Instr!InFlight, Instr!Busy, InstrInv, HoldersAreCounted
  <2>3. Instr!TypeOK'
    BY <1>1, <2>1 DEF Instr!TypeOK
  <2>4. QED
    BY <1>1, <2>1, <2>2, <2>3 DEF InstrInv, OneHolder, HoldersAreCounted, Instr!RetriedWhileSubscribed
<1>3. CASE ~Instr!Busy
  <2> DEFINE s == Instr!FreeSlot
  <2>1. /\ Instr!Free # {} /\ Instr!Starts(s, i, FALSE, "throttler")
        /\ counter' = (IF isSetUp THEN counter ELSE 0) /\ queue' = None /\ latest' = i /\ silent' = 0
    BY <1>3 DEF Instr!ReceiveInstruction
  <2>2. s \in Slots
    BY <2>1 DEF Instr!FreeSlot, Instr!Free
  <2> HIDE DEF s
  <2>3. /\ isSetUp' = TRUE /\ neighbors' \in SUBSET Peers
        /\ retry' \in Instr!Retry \cup {None} /\ retry' # None
        /\ handlers' \in [Slots -> Instr!Handler \cup {None}]
        /\ Instr!Holders' = Instr!Holders \cup {s}
    BY <1>1, <2>1, <2>2, StartIsSound
  <2>4. Instr!Holders' = {s}
    BY <1>3, <2>3 DEF Instr!Busy
  <2>5. Instr!TypeOK'
    BY <1>1, <2>1, <2>3, InstructionsAssumption DEF Instr!TypeOK
  <2>6. QED
    BY <1>1, <2>1, <2>3, <2>4, <2>5 DEF InstrInv, OneHolder, HoldersAreCounted, Instr!RetriedWhileSubscribed
<1>4. QED
  BY <1>2, <1>3

LEMMA RetryingKeeps == ASSUME InstrInv, Instr!RetryFires PROVE InstrInv'
<1> DEFINE s == Instr!FreeSlot
<1>1. /\ Instr!TypeOK /\ retry \in Instr!Retry /\ retry # None /\ ~stopped /\ seen # 0
      /\ Instr!Free # {} /\ Instr!InFlight = {}
      /\ Instr!Starts(s, retry.instruction, retry.counter # 0, "retry")
      /\ counter' = (IF isSetUp THEN counter ELSE 0)
      /\ silent' = (IF retry.counter = 0 THEN 0 ELSE IF silent <= RetryLimit THEN silent + 1 ELSE silent)
      /\ UNCHANGED <<queue, seen, stopped, status, latest>>
  BY DEF InstrInv, Instr!TypeOK, Instr!RetryFires, Instr!RetriedWhileSubscribed, Instr!throttler
<1>2. s \in Slots
  BY <1>1 DEF Instr!FreeSlot, Instr!Free
<1> HIDE DEF s
<1>3. retry.instruction \in Instructions /\ (retry.counter # 0) \in BOOLEAN
  BY <1>1 DEF Instr!Retry
<1>4. /\ isSetUp' = TRUE /\ neighbors' \in SUBSET Peers
      /\ retry' \in Instr!Retry \cup {None} /\ retry' # None
      /\ handlers' \in [Slots -> Instr!Handler \cup {None}]
      /\ Instr!Holders' = Instr!Holders \ {s}
  BY <1>1, <1>2, <1>3, StartIsSound
<1>5. Instr!Holders' = Instr!Holders
  BY <1>1, <1>4 DEF Instr!Holders
<1>6. silent' \in 0 .. RetryLimit + 1
  BY <1>1, InstructionsAssumption DEF Instr!TypeOK
<1>7. Instr!TypeOK' /\ Instr!RetriedWhileSubscribed'
  BY <1>1, <1>4, <1>6 DEF Instr!TypeOK, Instr!RetriedWhileSubscribed
<1>8. QED
  BY <1>1, <1>5, <1>7, SameHolders

\* The lock is let go: the throttler forgets whom it waited for.
LEMMA CancellingLetsGo ==
    ASSUME Instr!TypeOK,
           handlers' = [s \in Slots |-> IF s \in Instr!Holders THEN [handlers[s] EXCEPT !.by = "cancelled"]
                                        ELSE handlers[s]]
    PROVE  handlers' \in [Slots -> Instr!Handler \cup {None}] /\ Instr!Holders' = {}
<1>1. ASSUME NEW s \in Slots
      PROVE  handlers'[s] \in Instr!Handler \cup {None} /\ (handlers'[s] # None => handlers'[s].by # "throttler")
  <2>1. CASE s \in Instr!Holders
    <3>1. handlers[s] \in Instr!Handler
      BY <2>1 DEF Instr!Holders, Instr!InFlight, Instr!TypeOK
    <3>2. handlers'[s] = [handlers[s] EXCEPT !.by = "cancelled"]
      BY <2>1
    <3>3. handlers'[s] \in Instr!Handler /\ handlers'[s].by = "cancelled"
      BY <3>1, <3>2 DEF Instr!Handler
    <3>4. QED
      BY <3>3
  <2>2. CASE s \notin Instr!Holders
    BY <2>2 DEF Instr!Holders, Instr!InFlight, Instr!TypeOK
  <2>3. QED
    BY <2>1, <2>2
<1>2. QED
  BY <1>1 DEF Instr!Holders, Instr!InFlight

LEMMA LeavingKeeps == ASSUME InstrInv, Instr!Unsubscribe \/ Instr!Stop PROVE InstrInv'
<1>1. Instr!TypeOK
  BY DEF InstrInv
<1>2. CASE Instr!Unsubscribe /\ stopped
  <2>1. /\ isSetUp' = FALSE /\ neighbors' = {} /\ counter' = 0 /\ status' = -1
        /\ UNCHANGED <<queue, seen, retry, handlers, stopped, latest, silent>>
    BY <1>2 DEF Instr!Unsubscribe, Instr!throttler, Instr!history
  <2>2. Instr!Holders' = Instr!Holders
    BY <2>1 DEF Instr!Holders, Instr!InFlight
  <2>3. Instr!TypeOK' /\ Instr!RetriedWhileSubscribed'
    BY <1>1, <1>2, <2>1 DEF Instr!TypeOK, InstrInv, Instr!RetriedWhileSubscribed
  <2>4. QED
    BY <2>1, <2>2, <2>3, SameHolders
<1>3. CASE Instr!Stop \/ (Instr!Unsubscribe /\ ~stopped)
  <2>1. /\ queue' = None /\ seen' = 0 /\ retry' = None
        /\ handlers' = [s \in Slots |-> IF s \in Instr!Holders THEN [handlers[s] EXCEPT !.by = "cancelled"]
                                        ELSE handlers[s]]
        /\ UNCHANGED <<latest, silent>>
    BY <1>3 DEF Instr!Unsubscribe, Instr!Stop, Instr!history
  <2>2. /\ isSetUp' \in BOOLEAN /\ neighbors' \in SUBSET Peers /\ counter' \in Nat
        /\ stopped' \in BOOLEAN /\ status' \in Nat \cup {-1}
    <3>1. CASE Instr!Unsubscribe
      BY <1>1, <3>1 DEF Instr!Unsubscribe, Instr!TypeOK
    <3>2. CASE Instr!Stop
      BY <1>1, <3>2 DEF Instr!Stop, Instr!stream, Instr!TypeOK
    <3>3. QED
      BY <1>3, <3>1, <3>2
  <2>3. handlers' \in [Slots -> Instr!Handler \cup {None}] /\ Instr!Holders' = {}
    BY <1>1, <2>1, CancellingLetsGo
  <2>4. Instr!TypeOK'
    BY <1>1, <2>1, <2>2, <2>3 DEF Instr!TypeOK
  <2>5. QED
    BY <2>1, <2>3, <2>4 DEF InstrInv, OneHolder, HoldersAreCounted, Instr!RetriedWhileSubscribed
<1>4. QED
  BY <1>2, <1>3

LEMMA OthersKeep ==
    ASSUME InstrInv, Instr!Subscribe \/ \E p \in Peers : Instr!NodeDisconnected(p)
    PROVE  InstrInv'
<1>1. /\ UNCHANGED <<queue, seen, retry, handlers, stopped, latest, silent>>
      /\ neighbors' \in SUBSET Peers /\ counter' \in Nat /\ isSetUp' \in BOOLEAN
      /\ isSetUp => isSetUp'
      /\ status' \in Nat \cup {-1}
  <2>1. CASE Instr!Subscribe
    BY <2>1 DEF InstrInv, Instr!TypeOK, Instr!Subscribe, Instr!throttler, Instr!history
  <2>2. ASSUME NEW p \in Peers, Instr!NodeDisconnected(p) 
      PROVE  /\ UNCHANGED <<queue, seen, retry, handlers, stopped, latest, silent>>
             /\ neighbors' \in SUBSET Peers /\ counter' \in Nat /\ isSetUp' \in BOOLEAN
             /\ isSetUp => isSetUp'
             /\ status' \in Nat \cup {-1}
    BY <2>2 DEF InstrInv, Instr!TypeOK, Instr!NodeDisconnected, Instr!CurrentStatus,
         Instr!throttler, Instr!history
  <2>3. QED
    BY <2>1, <2>2
<1>2. Instr!Holders' = Instr!Holders
  BY <1>1 DEF Instr!Holders, Instr!InFlight
<1>3. Instr!TypeOK' /\ Instr!RetriedWhileSubscribed'
  BY <1>1 DEF Instr!TypeOK, InstrInv, Instr!RetriedWhileSubscribed
<1>4. QED
  BY <1>1, <1>2, <1>3, SameHolders

LEMMA InstrStep == InstrInv /\ [Instr!Next]_(Instr!vars) => InstrInv'
<1> SUFFICES ASSUME InstrInv, [Instr!Next]_(Instr!vars) PROVE InstrInv'
  OBVIOUS
<1>1. ASSUME NEW s \in Slots, Instr!HandlerStep(s) PROVE InstrInv'
  BY <1>1, ConnectionsSettle, ThrottledEndKeeps, OtherEndsKeep DEF Instr!HandlerStep
<1>2. CASE UNCHANGED Instr!vars
  <2>1. UNCHANGED <<isSetUp, neighbors, counter, queue, seen, retry, handlers, stopped, status, latest, silent>>
    BY <1>2 DEF Instr!vars, Instr!stream, Instr!throttler, Instr!history
  <2>2. Instr!Holders' = Instr!Holders
    BY <2>1 DEF Instr!Holders, Instr!InFlight
  <2>3. Instr!TypeOK' /\ Instr!RetriedWhileSubscribed'
    BY <2>1 DEF Instr!TypeOK, InstrInv, Instr!RetriedWhileSubscribed
  <2>4. QED
    BY <2>1, <2>2, <2>3, SameHolders
<1>3. QED
  BY <1>1, <1>2, ReceivingKeeps, RetryingKeeps, LeavingKeeps, OthersKeep DEF Instr!Next

\* The node's record of a stream, its handlers and the retry are well formed, whatever
\* instructions, removals, retries and connections cross.
THEOREM InstructionsTypeCorrect == Instr!Spec => []Instr!TypeOK
<1>1. InstrInv => Instr!TypeOK
  BY DEF InstrInv
<1>2. QED
  BY <1>1, InstrInit, InstrStep, PTL DEF Instr!Spec

LEMMA SameCardinality == ASSUME NEW S PROVE Instr!Cardinality(S) = Cardinality(S)
  BY DEF Instr!Cardinality, Cardinality

\* The throttler waits for one handler at a time and for one whenever an instruction is queued,
\* and a retry is armed exactly from the first instruction until the stream is left
\* (InstructionThrottler, InstructionRetryManager): for any peers, instructions and handlers in
\* flight.
THEOREM LockAndRetryStay == Instr!Spec => []LockAndRetryAreKept
<1>1. ASSUME InstrInv PROVE Instr!LockIsHeld
  <2>1. Instr!Cardinality(Instr!Holders) <= 1
    <3>1. CASE Instr!Holders = {}
      BY <3>1, FS_EmptySet, SameCardinality
    <3>2. CASE Instr!Holders # {}
      <4>1. PICK s : Instr!Holders = {s}
        BY <1>1, <3>2 DEF InstrInv, OneHolder
      <4>2. Cardinality({s}) = 1
        BY FS_Singleton
      <4>3. Instr!Cardinality(Instr!Holders) = Cardinality({s})
        BY <4>1, SameCardinality
      <4>4. QED
        BY <4>2, <4>3
    <3>3. QED
      BY <3>1, <3>2
  <2>2. QED
    BY <1>1, <2>1 DEF InstrInv, Instr!LockIsHeld
<1>2. InstrInv => LockAndRetryAreKept
  BY <1>1 DEF InstrInv, LockAndRetryAreKept, Instr!LockAndRetryAreKept
<1>3. QED
  BY <1>2, InstrInit, InstrStep, PTL DEF Instr!Spec

-----------------------------------------------------------------------------
(***************************************************************************)
(* The order of a subscription's messages.  What is handed out follows the *)
(* chain: the messages that leave a queue together are the first ones of   *)
(* it, each next after the one before, and the first of the others waits.  *)
(***************************************************************************)

\* Messages of one publisher: no two have the same reference.
Distinct(S) == S \subseteq Msg /\ \A m, n \in S : m.ref = n.ref => m = n
Lower(S, m) == { n \in S : n.ref < m.ref }

LEMMA LowerGrows ==
    ASSUME NEW S, IsFiniteSet(S), Distinct(S)
    PROVE  /\ Cardinality(S) \in Nat
           /\ \A m \in S : Cardinality(Lower(S, m)) \in 0 .. Cardinality(S) - 1
           /\ \A m, n \in S : m.ref < n.ref <=> Cardinality(Lower(S, m)) < Cardinality(Lower(S, n))
<1>1. Cardinality(S) \in Nat
  BY FS_CardinalityType
<1>2. \A m \in S : m.ref \in Nat
  BY DEF Distinct, Msg
<1>3. \A m \in S : IsFiniteSet(Lower(S, m)) /\ Cardinality(Lower(S, m)) \in Nat
  <2>1. \A m : Lower(S, m) \in SUBSET S
    BY DEF Lower
  <2>2. QED
    BY <2>1, FS_Subset, FS_CardinalityType
<1>4. ASSUME NEW m \in S, NEW n \in S, m.ref < n.ref
      PROVE  Cardinality(Lower(S, m)) < Cardinality(Lower(S, n))
  <2>1. Lower(S, m) \subseteq Lower(S, n) /\ m \in Lower(S, n) /\ m \notin Lower(S, m)
    BY <1>2, <1>4 DEF Lower
  <2>2. /\ Cardinality(Lower(S, m)) <= Cardinality(Lower(S, n))
        /\ Cardinality(Lower(S, n)) = Cardinality(Lower(S, m)) => Lower(S, n) = Lower(S, m)
    BY <1>3, <2>1, FS_Subset
  <2>3. QED
    BY <1>3, <2>1, <2>2
<1>5. ASSUME NEW m \in S PROVE Cardinality(Lower(S, m)) < Cardinality(S)
  <2>1. Lower(S, m) \subseteq S /\ m \notin Lower(S, m)
    BY <1>2 DEF Lower
  <2>2. Cardinality(Lower(S, m)) <= Cardinality(S) /\ (Cardinality(S) = Cardinality(Lower(S, m)) => S = Lower(S, m))
    BY <2>1, FS_Subset
  <2>3. QED
    BY <1>1, <1>3, <2>1, <2>2
<1>6. ASSUME NEW m \in S, NEW n \in S, Cardinality(Lower(S, m)) < Cardinality(Lower(S, n))
      PROVE  m.ref < n.ref
  <2>1. m.ref # n.ref
    BY <1>3, <1>6 DEF Distinct
  <2>2. ~ n.ref < m.ref
    BY <1>3, <1>4, <1>6
  <2>3. QED
    BY <1>2, <2>1, <2>2
<1>7. QED
  BY <1>1, <1>3, <1>4, <1>5, <1>6

\* Every place in the order is taken.
LEMMA EveryPlaceIsTaken ==
    ASSUME NEW S, IsFiniteSet(S), Distinct(S), NEW k \in 0 .. Cardinality(S) - 1
    PROVE  \E m \in S : Cardinality(Lower(S, m)) = k
<1> DEFINE N == Cardinality(S)
           f == [m \in S |-> Cardinality(Lower(S, m))]
<1>1. N \in Nat /\ f \in [S -> 0 .. N - 1]
  BY LowerGrows
<1>2. \A m, n \in S : f[m] = f[n] => m = n
  <2> SUFFICES ASSUME NEW m \in S, NEW n \in S, f[m] = f[n] PROVE m = n
    OBVIOUS
  <2>1. Cardinality(Lower(S, m)) = Cardinality(Lower(S, n))
    OBVIOUS
  <2>2. m.ref \in Nat /\ n.ref \in Nat /\ Cardinality(Lower(S, m)) \in 0 .. N - 1
    BY LowerGrows DEF Distinct, Msg
  <2> HIDE DEF f
  <2>3. ~ m.ref < n.ref /\ ~ n.ref < m.ref
    <3>1. ~ Cardinality(Lower(S, m)) < Cardinality(Lower(S, n)) /\ ~ Cardinality(Lower(S, n)) < Cardinality(Lower(S, m))
      BY <1>1, <2>1, <2>2
    <3>2. QED
      BY <3>1, LowerGrows
  <2>4. QED
    BY <2>2, <2>3 DEF Distinct
<1>3. f \in Injection(S, 0 .. N - 1)
  BY <1>1, <1>2, Fun_IsInj
<1>4. IsFiniteSet(0 .. N - 1) /\ Cardinality(0 .. N - 1) = N
  <2>1. 0 \in Int /\ N - 1 \in Int
    BY <1>1
  <2> HIDE DEF N
  <2>2. IsFiniteSet(0 .. N - 1) /\ Cardinality(0 .. N - 1) = IF 0 > N - 1 THEN 0 ELSE N - 1 - 0 + 1
    BY <2>1, FS_Interval
  <2>3. QED
    BY <1>1, <2>2
<1>5. f \in Surjection(S, 0 .. N - 1)
  <2> HIDE DEF f
  <2>1. QED
    BY <1>3, <1>4, FS_Injection
<1>6. PICK m \in S : f[m] = k
  <2> HIDE DEF f, N
  <2>1. QED
    BY <1>5 DEF Surjection, N
<1>7. QED
  BY <1>6

\* InOrder: all messages, in ascending order.
LEMMA InOrderAscends ==
    ASSUME NEW S, IsFiniteSet(S), Distinct(S)
    PROVE  /\ Cardinality(S) \in Nat
           /\ InOrder(S) \in [1 .. Cardinality(S) -> S]
           /\ \A i \in 1 .. Cardinality(S) : Cardinality(Lower(S, InOrder(S)[i])) = i - 1
           /\ \A i, j \in 1 .. Cardinality(S) : i < j => InOrder(S)[i].ref < InOrder(S)[j].ref
           /\ \A m \in S : \E i \in 1 .. Cardinality(S) : InOrder(S)[i] = m
<1> DEFINE N == Cardinality(S)
           At(i) == CHOOSE m \in S : Cardinality(Lower(S, m)) = i - 1
<1>1. N \in Nat
  BY LowerGrows
<1>2. InOrder(S) = [i \in 1 .. N |-> At(i)]
  BY DEF InOrder, Lower
<1>3. \A i \in 1 .. N : At(i) \in S /\ Cardinality(Lower(S, At(i))) = i - 1
  <2> SUFFICES ASSUME NEW i \in 1 .. N PROVE At(i) \in S /\ Cardinality(Lower(S, At(i))) = i - 1
    OBVIOUS
  <2>1. i - 1 \in 0 .. N - 1
    BY <1>1
  <2>2. \E m \in S : Cardinality(Lower(S, m)) = i - 1
    BY <2>1, EveryPlaceIsTaken
  <2>3. QED
    BY <2>2
<1> HIDE DEF At
<1>4. \A i, j \in 1 .. N : i < j => At(i).ref < At(j).ref
  <2> SUFFICES ASSUME NEW i \in 1 .. N, NEW j \in 1 .. N, i < j PROVE At(i).ref < At(j).ref
    OBVIOUS
  <2>1. Cardinality(Lower(S, At(i))) < Cardinality(Lower(S, At(j)))
    BY <1>1, <1>3
  <2>2. QED
    BY <1>3, <2>1, LowerGrows
<1>5. ASSUME NEW m \in S PROVE \E i \in 1 .. N : At(i) = m
  <2>1. Cardinality(Lower(S, m)) \in 0 .. N - 1
    BY LowerGrows
  <2> DEFINE i == Cardinality(Lower(S, m)) + 1
  <2>2. i \in 1 .. N /\ i - 1 = Cardinality(Lower(S, m))
    BY <1>1, <2>1
  <2>3. At(i).ref = m.ref
    <3>1. At(i) \in S /\ Cardinality(Lower(S, At(i))) = Cardinality(Lower(S, m))
      BY <1>3, <2>2
    <3>2. At(i).ref \in Nat /\ m.ref \in Nat /\ Cardinality(Lower(S, m)) \in Nat
      BY <1>1, <2>1, <3>1 DEF Distinct, Msg
    <3>3. ~ At(i).ref < m.ref /\ ~ m.ref < At(i).ref
      BY <3>1, <3>2, LowerGrows
    <3>4. QED
      BY <3>2, <3>3
  <2>4. At(i) = m
    BY <1>3, <2>2, <2>3 DEF Distinct
  <2>5. QED
    BY <2>2, <2>4
<1>6. QED
  BY <1>1, <1>2, <1>3, <1>4, <1>5

\* What stands before a message: the greatest reference below its own, or the last one.
LEMMA BeforeIsGreatest ==
    ASSUME NEW c, c.queue \subseteq Msg, NEW m \in c.queue
    PROVE  /\ (\A n \in c.queue : ~ n.ref < m.ref) => Before(c, m) = c.last
           /\ \A k \in c.queue :
                 /\ k.ref < m.ref
                 /\ \A n \in c.queue : n.ref < m.ref => n.ref <= k.ref
                 => Before(c, m) = k.ref
<1> DEFINE lower == { n \in c.queue : n.ref < m.ref }
           refs == { n.ref : n \in lower }
<1>1. Before(c, m) = IF lower = {} THEN c.last ELSE Max(refs)
  BY DEF Before
<1>2. ASSUME NEW k \in c.queue, k.ref < m.ref, \A n \in c.queue : n.ref < m.ref => n.ref <= k.ref
      PROVE  Before(c, m) = k.ref
  <2>1. k \in lower /\ k.ref \in refs
    BY <1>2
  <2>2. \A x \in refs : k.ref >= x /\ x \in Nat
    BY <1>2 DEF Msg
  <2>3. Max(refs) \in refs /\ \A y \in refs : Max(refs) >= y
    <3> HIDE DEF refs
    <3>1. QED
      BY <2>1, <2>2 DEF Max
  <2>4. Max(refs) = k.ref
    <3> HIDE DEF refs
    <3>1. QED
      BY <2>1, <2>2, <2>3
  <2>5. QED
    BY <1>1, <2>1, <2>4
<1>3. (\A n \in c.queue : ~ n.ref < m.ref) => Before(c, m) = c.last
  BY <1>1
<1>4. QED
  BY <1>2, <1>3

\* A queue of one publisher, behind what has been handed out.
Queued(c) == IsFiniteSet(c.queue) /\ Distinct(c.queue) /\ c.last \in Nat
AheadOf(c) == \A m \in c.queue : c.last < m.ref
IsHead(S, m) == m \in S /\ \A n \in S : m.ref <= n.ref

\* The queue is not empty only if its head waits for one that is missing.
HeadWaits(c) ==
    \A m \in c.queue : IsHead(c.queue, m) => c.last # NoRef /\ m.prev \notin {NoRef, c.last}

\* Ready: the first messages of the queue.
LEMMA ReadyIsFirst ==
    ASSUME NEW c, Queued(c)
    PROVE  /\ Ready(c) \subseteq c.queue /\ IsFiniteSet(Ready(c)) /\ Distinct(Ready(c))
           /\ \A m \in Ready(c), n \in c.queue : n.ref <= m.ref => n \in Ready(c)
<1>1. Ready(c) \subseteq c.queue
  BY DEF Ready
<1>2. IsFiniteSet(Ready(c)) /\ Distinct(Ready(c))
  BY <1>1, FS_Subset DEF Queued, Distinct
<1>3. ASSUME NEW m \in Ready(c), NEW n \in c.queue, n.ref <= m.ref
      PROVE  n \in Ready(c)
  <2>1. \A k \in c.queue : k.ref \in Nat
    BY DEF Queued, Distinct, Msg
  <2> DEFINE blocked == { k \in c.queue : ~ NextInChain(k, Before(c, k)) }
  <2>2. Ready(c) = { k \in c.queue : \A b \in blocked : k.ref < b.ref }
    BY DEF Ready
  <2>3. \A b \in blocked : b \in c.queue
    OBVIOUS
  <2> HIDE DEF blocked
  <2>4. \A b \in blocked : n.ref < b.ref
    BY <1>1, <1>3, <2>1, <2>2, <2>3
  <2>5. QED
    BY <2>2, <2>4
<1>4. QED
  BY <1>1, <1>2, <1>3

\* Each of them is next after the one before it, and the first of the others is not.
LEMMA ReadyIsTheChain ==
    ASSUME NEW c, Queued(c)
    PROVE  LET run == InOrder(Ready(c))
               N == Cardinality(Ready(c))
               end == IF Ready(c) = {} THEN c.last ELSE run[N].ref
           IN  /\ \A i \in 1 .. N : NextInChain(run[i], IF i = 1 THEN c.last ELSE run[i - 1].ref)
               /\ \A m : IsHead(c.queue \ Ready(c), m) => ~ NextInChain(m, end)
<1> DEFINE R == Ready(c)
           run == InOrder(R)
           N == Cardinality(R)
           end == IF R = {} THEN c.last ELSE run[N].ref
           blocked == { k \in c.queue : ~ NextInChain(k, Before(c, k)) }
<1>1. /\ c.queue \subseteq Msg /\ \A m \in c.queue : m.ref \in Nat
      /\ \A m, n \in c.queue : m.ref = n.ref => m = n
  BY DEF Queued, Distinct, Msg
<1>2. /\ R \subseteq c.queue
      /\ \A m \in R, n \in c.queue : n.ref <= m.ref => n \in R
  BY ReadyIsFirst
<1>3. /\ N \in Nat /\ run \in [1 .. N -> R]
      /\ \A i, j \in 1 .. N : i < j => run[i].ref < run[j].ref
      /\ \A m \in R : \E i \in 1 .. N : run[i] = m
  BY ReadyIsFirst, InOrderAscends
<1>4. R = { k \in c.queue : \A b \in blocked : k.ref < b.ref }
  BY DEF Ready
<1> HIDE DEF R, run, N
<1>5. ASSUME NEW i \in 1 .. N
      PROVE  NextInChain(run[i], IF i = 1 THEN c.last ELSE run[i - 1].ref)
  <2>1. run[i] \in R /\ run[i] \in c.queue /\ run[i].ref \in Nat
    BY <1>1, <1>2, <1>3
  <2>2. NextInChain(run[i], Before(c, run[i]))
    BY <1>4, <2>1
  <2>3. ASSUME NEW n \in c.queue, n.ref < run[i].ref
        PROVE  i # 1 /\ n.ref <= run[i - 1].ref
    <3>1. n \in R
      BY <1>1, <1>2, <2>1, <2>3
    <3>2. PICK j \in 1 .. N : run[j] = n
      BY <1>3, <3>1
    <3>3. n.ref \in Nat
      BY <1>1
    <3>4. ~ i < j /\ i # j
      BY <1>3, <2>1, <2>3, <3>2, <3>3
    <3>5. i # 1 /\ i - 1 \in 1 .. N /\ (j = i - 1 \/ j < i - 1)
      BY <1>3, <3>4
    <3>6. j < i - 1 => run[j].ref < run[i - 1].ref
      BY <1>3, <3>5
    <3>7. run[i - 1].ref \in Nat
      BY <1>1, <1>2, <1>3, <3>5
    <3>8. QED
      BY <3>2, <3>3, <3>5, <3>6, <3>7
  <2>4. CASE i = 1
    <3>1. Before(c, run[i]) = c.last
      BY <1>1, <2>1, <2>3, <2>4, BeforeIsGreatest
    <3>2. QED
      BY <2>2, <2>4, <3>1
  <2>5. CASE i # 1
    <3>1. i - 1 \in 1 .. N /\ i - 1 < i
      BY <1>3, <2>5
    <3>2. run[i - 1] \in c.queue /\ run[i - 1].ref < run[i].ref
      BY <1>2, <1>3, <3>1
    <3>3. Before(c, run[i]) = run[i - 1].ref
      BY <1>1, <2>1, <2>3, <3>2, BeforeIsGreatest
    <3>4. QED
      BY <2>2, <2>5, <3>3
  <2>6. QED
    BY <2>4, <2>5
<1>6. ASSUME NEW m, IsHead(c.queue \ R, m)
      PROVE  ~ NextInChain(m, end)
  <2>1. m \in c.queue /\ m \notin R /\ \A n \in c.queue \ R : m.ref <= n.ref
    BY <1>6 DEF IsHead
  <2>2. PICK b \in blocked : ~ m.ref < b.ref
    BY <1>4, <2>1
  <2>3. b \in c.queue /\ b.ref \in Nat /\ m.ref \in Nat
    BY <1>1, <2>1, <2>2
  <2>4. b \notin R
    BY <1>4, <2>2, <2>3
  <2>5. b = m
    BY <1>1, <2>1, <2>2, <2>3, <2>4
  <2>6. ~ NextInChain(m, Before(c, m)) /\ \A k \in R : k.ref < m.ref
    BY <1>4, <2>2, <2>5
  <2>7. \A n \in c.queue : n.ref < m.ref => n \in R
    <3> SUFFICES ASSUME NEW n \in c.queue, n.ref < m.ref, n \notin R PROVE FALSE
      OBVIOUS
    <3>1. m.ref <= n.ref /\ n.ref \in Nat
      BY <1>1, <2>1
    <3>2. QED
      BY <2>3, <3>1
  <2>8. CASE R = {}
    <3>1. Before(c, m) = c.last
      BY <1>1, <2>1, <2>7, <2>8, BeforeIsGreatest
    <3>2. QED
      BY <2>6, <2>8, <3>1
  <2>9. CASE R # {}
    <3>1. N \in 1 .. N
      BY <1>3, <2>9
    <3>2. run[N] \in R /\ run[N] \in c.queue /\ run[N].ref < m.ref
      BY <1>2, <1>3, <2>6, <3>1
    <3>3. ASSUME NEW n \in c.queue, n.ref < m.ref PROVE n.ref <= run[N].ref
      <4>1. PICK j \in 1 .. N : run[j] = n
        BY <1>3, <2>7, <3>3
      <4>2. j = N \/ j < N
        BY <1>3
      <4>3. j < N => run[j].ref < run[N].ref
        BY <1>3, <3>1
      <4>4. n.ref \in Nat /\ run[N].ref \in Nat
        BY <1>1, <3>2
      <4>5. QED
        BY <4>1, <4>2, <4>3, <4>4
    <3>4. Before(c, m) = run[N].ref
      BY <1>1, <2>1, <3>2, <3>3, BeforeIsGreatest
    <3>5. QED
      BY <2>6, <2>9, <3>4
  <2>10. QED
    BY <2>8, <2>9
<1>7. QED
  BY <1>5, <1>6 DEF R, run, N


\* What an entry of a publisher's log may follow, as OrderedDelivery has it.
LegalAfter(p, at, s) ==
    \A i \in 1 .. Len(s) : Abstract!Follows(p, IF i = 1 THEN at ELSE s[i - 1].ref, s[i])
EndOf(at, s) == IF s = <<>> THEN at ELSE s[Len(s)].ref
Extends(p, s, at, t, end) ==
    \E e \in Seq(Entry) : t = s \o e /\ LegalAfter(p, at, e) /\ EndOf(at, e) = end

LEMMA PreviousIsNamed ==
    ASSUME NEW p \in Publishers, NEW m \in Sent[p]
    PROVE  Abstract!PrevOf(p, m.ref) = m.prev
BY SentAssumption DEF Abstract!PrevOf

\* What has been handed out, one piece after another.
LEMMA PiecesJoin ==
    ASSUME NEW p, NEW at, NEW s \in Seq(Entry), NEW t \in Seq(Entry),
           LegalAfter(p, at, s), LegalAfter(p, EndOf(at, s), t)
    PROVE  LegalAfter(p, at, s \o t) /\ EndOf(at, s \o t) = EndOf(EndOf(at, s), t)
<1> DEFINE u == s \o t
<1>1. /\ u \in Seq(Entry) /\ Len(u) = Len(s) + Len(t) /\ Len(s) \in Nat /\ Len(t) \in Nat
      /\ \A i \in 1 .. Len(s) + Len(t) : u[i] = IF i <= Len(s) THEN s[i] ELSE t[i - Len(s)]
  BY ConcatProperties, LenProperties
<1>2. /\ s = <<>> <=> Len(s) = 0
      /\ t = <<>> <=> Len(t) = 0
      /\ u = <<>> <=> Len(u) = 0
  BY <1>1, EmptySeq
<1> HIDE DEF u
<1>3. ASSUME NEW i \in 1 .. Len(u)
      PROVE  Abstract!Follows(p, IF i = 1 THEN at ELSE u[i - 1].ref, u[i])
  <2>1. CASE i <= Len(s)
    <3>1. i \in 1 .. Len(s) /\ u[i] = s[i] /\ (i # 1 => u[i - 1] = s[i - 1])
      BY <1>1, <2>1
    <3>2. Abstract!Follows(p, IF i = 1 THEN at ELSE s[i - 1].ref, s[i])
      BY <3>1 DEF LegalAfter
    <3>3. QED
      BY <3>1, <3>2
  <2>2. CASE i = Len(s) + 1
    <3>1. 1 \in 1 .. Len(t) /\ u[i] = t[1]
      BY <1>1, <2>2
    <3>2. Abstract!Follows(p, EndOf(at, s), t[1])
      BY <3>1 DEF LegalAfter
    <3>3. (IF i = 1 THEN at ELSE u[i - 1].ref) = EndOf(at, s)
      BY <1>1, <1>2, <2>2 DEF EndOf
    <3>4. QED
      BY <3>1, <3>2, <3>3
  <2>3. CASE i > Len(s) + 1
    <3>1. i - Len(s) \in 1 .. Len(t) /\ i - Len(s) # 1 /\ i # 1
      BY <1>1, <2>3
    <3>2. u[i] = t[i - Len(s)] /\ u[i - 1] = t[(i - Len(s)) - 1]
      <4>1. /\ i \in 1 .. Len(s) + Len(t) /\ i - 1 \in 1 .. Len(s) + Len(t)
            /\ ~ i <= Len(s) /\ ~ i - 1 <= Len(s) /\ (i - 1) - Len(s) = (i - Len(s)) - 1
        BY <1>1, <2>3
      <4>2. u[i] = t[i - Len(s)]
        BY <1>1, <4>1
      <4>3. u[i - 1] = t[(i - 1) - Len(s)]
        BY <1>1, <4>1
      <4>4. QED
        BY <4>1, <4>2, <4>3
    <3>3. Abstract!Follows(p, t[(i - Len(s)) - 1].ref, t[i - Len(s)])
      BY <3>1 DEF LegalAfter
    <3>4. QED
      BY <3>1, <3>2, <3>3
  <2>4. QED
    BY <1>1, <2>1, <2>2, <2>3
<1>4. EndOf(at, u) = EndOf(EndOf(at, s), t)
  <2>1. CASE t = <<>>
    BY <1>1, <1>2, <2>1 DEF EndOf
  <2>2. CASE t # <<>>
    <3>1. u[Len(u)] = t[Len(t)] /\ u # <<>>
      BY <1>1, <1>2, <2>2
    <3>2. QED
      BY <2>2, <3>1 DEF EndOf
  <2>3. QED
    BY <2>1, <2>2
<1>5. QED
  BY <1>3, <1>4 DEF LegalAfter, u

LEMMA ExtendsJoins ==
    ASSUME NEW p, NEW s \in Seq(Entry), NEW a, NEW t, NEW b, NEW u, NEW d,
           Extends(p, s, a, t, b), Extends(p, t, b, u, d)
    PROVE  Extends(p, s, a, u, d)
<1>1. PICK e \in Seq(Entry) : t = s \o e /\ LegalAfter(p, a, e) /\ EndOf(a, e) = b
  BY DEF Extends
<1>2. PICK f \in Seq(Entry) : u = t \o f /\ LegalAfter(p, b, f) /\ EndOf(b, f) = d
  BY DEF Extends
<1>3. u = s \o (e \o f) /\ e \o f \in Seq(Entry)
  <2>1. e \o f \in Seq(Entry)
    BY ConcatProperties
  <2>2. u = (s \o e) \o f
    BY <1>1, <1>2
  <2>3. (s \o e) \o f = s \o (e \o f)
    BY ConcatAssociative
  <2>4. QED
    BY <2>1, <2>2, <2>3
<1>4. LegalAfter(p, a, e \o f) /\ EndOf(a, e \o f) = d
  BY <1>1, <1>2, PiecesJoin
<1>5. QED
  BY <1>3, <1>4 DEF Extends

LEMMA NothingExtends ==
    ASSUME NEW p, NEW s \in Seq(Entry), NEW at
    PROVE  Extends(p, s, at, s, at)
<1>1. s \o <<>> = s /\ <<>> \in Seq(Entry) /\ Len(<<>>) = 0
  BY ConcatEmptySeq, EmptySeq
<1>2. LegalAfter(p, at, <<>>) /\ EndOf(at, <<>>) = at
  BY <1>1 DEF LegalAfter, EndOf
<1>3. QED
  BY <1>1, <1>2 DEF Extends

\* CheckQueue, field by field.
LEMMA CheckQueueFields ==
    ASSUME NEW c \in ChainState, Queued(c)
    PROVE  LET R == Ready(c)
               run == InOrder(R)
               N == Cardinality(R)
               d == CheckQueue(c)
           IN  /\ d \in ChainState
               /\ d.queue = c.queue \ R
               /\ d.last = IF R = {} THEN c.last ELSE run[N].ref
               /\ d.emitted = c.emitted \o [i \in 1 .. N |-> Popped(c, run[i])]
               /\ [i \in 1 .. N |-> Popped(c, run[i])] \in Seq(Entry)
               /\ d.maxRequests = c.maxRequests /\ d.asked = c.asked
               /\ \/ d.raised = c.raised
                  \/ /\ R # {} /\ d.queue = {}
                     /\ d.raised = c.raised \cup {[event |-> "drain", empty |-> TRUE]}
               /\ c.queue = {} => d.pending = c.pending /\ d.first = c.first /\ d.next = c.next
<1> DEFINE R == Ready(c)
           run == InOrder(R)
           N == Cardinality(R)
           e == [i \in 1 .. N |-> Popped(c, run[i])]
           popped == [Emit(c, [i \in DOMAIN run |-> Popped(c, run[i])]) EXCEPT
                        !.queue = @ \ R, !.marked = @ \ R,
                        !.last = IF R = {} THEN @ ELSE Last(run).ref]
           d == CheckQueue(c)
<1>1. /\ R \subseteq c.queue /\ IsFiniteSet(R) /\ Distinct(R)
      /\ N \in Nat /\ run \in [1 .. N -> R] /\ (R # {} => N \in 1 .. N)
  <2>1. R \subseteq c.queue /\ IsFiniteSet(R) /\ Distinct(R)
    BY ReadyIsFirst
  <2>2. N \in Nat /\ run \in [1 .. N -> R] /\ \A m \in R : \E i \in 1 .. N : run[i] = m
    BY <2>1, InOrderAscends
  <2> HIDE DEF R, run, N
  <2>3. R # {} => N \in 1 .. N
    BY <2>2
  <2>4. QED
    BY <2>1, <2>2, <2>3
<1>2. c.queue \subseteq Msg /\ \A m \in R : m.ref \in Nat
  BY <1>1 DEF Queued, Distinct, Msg
<1>3. d = IF popped.queue # {} THEN ScheduleGap(popped)
          ELSE IF N > 1 THEN Raise(ClearGap(popped), "drain") ELSE popped
  BY DEF CheckQueue
<1> HIDE DEF R, run, N
<1>4. run \in Seq(R) /\ Len(run) = N /\ DOMAIN run = 1 .. N
  BY <1>1
<1>5. e \in Seq(Entry)
  <2>1. \A i \in 1 .. N : Popped(c, run[i]) \in Entry
    BY <1>1, <1>2 DEF Popped, Entry
  <2>2. QED
    BY <1>1, <2>1
<1>6. popped = [c EXCEPT !.emitted = c.emitted \o e, !.queue = c.queue \ R, !.marked = c.marked \ R,
                         !.last = IF R = {} THEN c.last ELSE run[N].ref]
  BY <1>4 DEF Emit, Last, ChainState
<1> DEFINE es == c.emitted \o e
           end == IF R = {} THEN c.last ELSE run[N].ref
<1>7. es \in Seq(Entry) /\ end \in Nat
  <2>1. c.emitted \in Seq(Entry) /\ c.last \in Nat
    BY DEF ChainState
  <2>2. QED
    BY <1>1, <1>2, <1>5, <2>1, ConcatProperties
<1> HIDE DEF es, end, e, popped, d
<1>8. /\ popped \in ChainState
      /\ popped.queue = c.queue \ R /\ popped.last = end /\ popped.emitted = es
      /\ popped.maxRequests = c.maxRequests /\ popped.asked = c.asked /\ popped.raised = c.raised
      /\ popped.pending = c.pending /\ popped.first = c.first /\ popped.next = c.next
  BY <1>2, <1>6, <1>7 DEF ChainState, es, end
<1>9. CASE popped.queue # {}
  <2>1. d = ScheduleGap(popped)
    BY <1>3, <1>9
  <2>2. /\ d \in ChainState
        /\ d.queue = popped.queue /\ d.last = end /\ d.emitted = es
        /\ d.maxRequests = c.maxRequests /\ d.asked = c.asked /\ d.raised = c.raised
    <3>1. CASE popped.pending
      BY <1>8, <2>1, <3>1 DEF ScheduleGap
    <3>2. CASE ~ popped.pending
      <4>1. d = [popped EXCEPT !.requests = 0, !.pending = TRUE, !.first = TRUE]
        BY <2>1, <3>2 DEF ScheduleGap
      <4>2. QED
        BY <1>8, <4>1 DEF ChainState
    <3>3. QED
      BY <3>1, <3>2
  <2>3. c.queue # {}
    BY <1>8, <1>9
  <2>4. QED
    BY <1>5, <1>8, <2>2, <2>3 DEF es, end, d, e, R, run, N
<1>10. CASE popped.queue = {} /\ ~ N > 1
  BY <1>3, <1>5, <1>8, <1>10 DEF es, end, d, e, R, run, N
<1>11. CASE popped.queue = {} /\ N > 1
  <2>1. d = [ClearGap(popped) EXCEPT
               !.raised = popped.raised \cup {[event |-> "drain", empty |-> TRUE]}]
    BY <1>3, <1>8, <1>11 DEF Raise, ClearGap, ChainState
  <2>2. R # {}
    BY <1>11, <1>1, FS_EmptySet DEF N
  <2>3. /\ d \in ChainState
        /\ d.queue = {} /\ d.last = end /\ d.emitted = es
        /\ d.maxRequests = c.maxRequests /\ d.asked = c.asked
        /\ d.raised = c.raised \cup {[event |-> "drain", empty |-> TRUE]}
    <3> DEFINE cleared == ClearGap(popped)
               raised == popped.raised \cup {[event |-> "drain", empty |-> TRUE]}
    <3>1. cleared = [popped EXCEPT !.pending = FALSE, !.first = FALSE, !.next = FALSE]
      BY DEF ClearGap
    <3>2. /\ cleared \in ChainState
          /\ cleared.queue = {} /\ cleared.last = end /\ cleared.emitted = es
          /\ cleared.maxRequests = c.maxRequests /\ cleared.asked = c.asked
      BY <1>8, <1>11, <3>1 DEF ChainState
    <3>3. d = [cleared EXCEPT !.raised = raised]
      BY <2>1
    <3>4. raised \in SUBSET [event : {"drain", "error"}, empty : BOOLEAN]
      <4>1. [event |-> "drain", empty |-> TRUE] \in [event : {"drain", "error"}, empty : BOOLEAN]
        OBVIOUS
      <4>2. popped.raised \in SUBSET [event : {"drain", "error"}, empty : BOOLEAN]
        BY <1>8 DEF ChainState
      <4>3. QED
        BY <4>1, <4>2
    <3> HIDE DEF cleared, raised
    <3>5. /\ d \in ChainState
          /\ d.queue = {} /\ d.last = end /\ d.emitted = es
          /\ d.maxRequests = c.maxRequests /\ d.asked = c.asked /\ d.raised = raised
      BY <3>2, <3>3, <3>4 DEF ChainState
    <3>6. QED
      BY <1>8, <3>5 DEF raised
  <2>4. c.queue # {}
    BY <1>1, <2>2
  <2>5. QED
    BY <1>5, <1>8, <1>11, <2>2, <2>3, <2>4 DEF es, end, d, e, R, run, N
<1>12. QED
  BY <1>9, <1>10, <1>11


-----------------------------------------------------------------------------
(* What a chain keeps.  Its queue holds messages behind the last one handed *)
(* out, and between two calls its head waits.                              *)
RefsOf(p) == { m.ref : m \in Sent[p] }
PartOf(p, c) ==
    c \in ChainState /\ c.queue \subseteq Sent[p] /\ IsFiniteSet(c.queue) /\ AheadOf(c)
ChainFits(p, c) == PartOf(p, c) /\ c.last \in {NoRef} \cup RefsOf(p) /\ HeadWaits(c)

\* What a call does to a chain: it hands out what may follow, and what leaves the queue has been
\* handed out; it says that the queue is empty only if it leaves it so.
Raises(c, d) == \A r \in d.raised : r \in c.raised \/ (r.empty => d.queue = {})
GoesOn(p, c, d) ==
    /\ ChainFits(p, d)
    /\ Extends(p, c.emitted, c.last, d.emitted, d.last)
    /\ c.last <= d.last
    /\ \A m \in c.queue : m \in d.queue \/ m.ref <= d.last
    /\ Raises(c, d)

LEMMA SentAreDistinct ==
    ASSUME NEW p \in Publishers
    PROVE  /\ Sent[p] \subseteq Msg /\ Distinct(Sent[p])
           /\ \A m \in Sent[p] : m.ref \in Nat /\ m.prev \in Nat /\ m.ref # NoRef /\ m.prev < m.ref
           /\ \A c : PartOf(p, c) => Queued(c)
<1>1. Sent[p] \subseteq Msg
  BY SentAssumption
<1>2. Distinct(Sent[p])
  BY <1>1, SentAssumption DEF Distinct
<1>3. \A c : PartOf(p, c) => Queued(c)
  <2> SUFFICES ASSUME NEW c, PartOf(p, c) PROVE Queued(c)
    OBVIOUS
  <2>1. c.queue \subseteq Sent[p] /\ IsFiniteSet(c.queue) /\ c.last \in Nat
    BY DEF PartOf, ChainState
  <2>2. QED
    BY <1>2, <2>1 DEF Queued, Distinct
<1>4. \A m \in Sent[p] : m.ref \in Nat /\ m.prev \in Nat /\ m.ref # NoRef /\ m.prev < m.ref
  BY <1>1, SentAssumption DEF Msg
<1>5. QED
  BY <1>1, <1>2, <1>3, <1>4

LEMMA CheckQueueGoesOn ==
    ASSUME NEW p \in Publishers, NEW c, PartOf(p, c),
           c.last \in {NoRef} \cup RefsOf(p) \/ Ready(c) # {}
    PROVE  /\ GoesOn(p, c, CheckQueue(c))
           /\ CheckQueue(c).asked = c.asked /\ CheckQueue(c).maxRequests = c.maxRequests
           /\ Ready(c) = {} => /\ CheckQueue(c).emitted = c.emitted
                               /\ CheckQueue(c).raised = c.raised
<1> DEFINE R == Ready(c)
           run == InOrder(R)
           N == Cardinality(R)
           e == [i \in 1 .. N |-> Popped(c, run[i])]
           d == CheckQueue(c)
<1>1. Queued(c) /\ c \in ChainState /\ c.queue \subseteq Sent[p] /\ IsFiniteSet(c.queue) /\ c.last \in Nat
  BY SentAreDistinct DEF PartOf, ChainState
<1>2. /\ R \subseteq c.queue /\ \A m \in R, n \in c.queue : n.ref <= m.ref => n \in R
      /\ N \in Nat /\ run \in [1 .. N -> R]
      /\ \A i, j \in 1 .. N : i < j => run[i].ref < run[j].ref
      /\ \A m \in R : \E i \in 1 .. N : run[i] = m
  BY <1>1, ReadyIsFirst, InOrderAscends
<1>3. /\ \A i \in 1 .. N : NextInChain(run[i], IF i = 1 THEN c.last ELSE run[i - 1].ref)
      /\ \A m : IsHead(c.queue \ R, m) => ~ NextInChain(m, IF R = {} THEN c.last ELSE run[N].ref)
  BY <1>1, ReadyIsTheChain
<1>4. /\ d \in ChainState
      /\ d.queue = c.queue \ R
      /\ d.last = IF R = {} THEN c.last ELSE run[N].ref
      /\ d.emitted = c.emitted \o e /\ e \in Seq(Entry)
      /\ d.maxRequests = c.maxRequests /\ d.asked = c.asked
      /\ \/ d.raised = c.raised
         \/ /\ R # {} /\ d.queue = {}
            /\ d.raised = c.raised \cup {[event |-> "drain", empty |-> TRUE]}
  BY <1>1, CheckQueueFields
<1>5. \A m \in c.queue : m \in Sent[p] /\ m.ref \in Nat /\ m.prev \in Nat /\ c.last < m.ref
  BY <1>1, SentAreDistinct DEF PartOf, AheadOf
<1>6. R # {} => N \in 1 .. N /\ run[N] \in R
  <2> HIDE DEF R, run, N
  <2>1. QED
    BY <1>2
<1> HIDE DEF R, run, N, d
<1>7. \A m \in R : m.ref <= d.last
  <2> SUFFICES ASSUME NEW m \in R PROVE m.ref <= d.last
    OBVIOUS
  <2>1. PICK i \in 1 .. N : run[i] = m
    BY <1>2
  <2>2. i = N \/ i < N
    BY <1>2
  <2>3. run[N].ref \in Nat /\ m.ref \in Nat /\ d.last = run[N].ref
    BY <1>2, <1>4, <1>5, <1>6
  <2>4. i < N => run[i].ref < run[N].ref
    BY <1>2, <1>6
  <2>5. QED
    BY <2>1, <2>2, <2>3, <2>4
<1>8. d.last \in Nat /\ c.last <= d.last
  BY <1>1, <1>2, <1>4, <1>5, <1>6
<1>9. d.last \in {NoRef} \cup RefsOf(p)
  <2>1. CASE R = {}
    BY <1>4, <2>1 DEF R
  <2>2. CASE R # {}
    <3>1. d.last = run[N].ref /\ run[N] \in Sent[p]
      BY <1>1, <1>2, <1>4, <1>6, <2>2
    <3>2. QED
      BY <3>1 DEF RefsOf
  <2>3. QED
    BY <2>1, <2>2
<1>10. \A m \in d.queue : d.last < m.ref
  <2> SUFFICES ASSUME NEW m \in c.queue, m \notin R PROVE d.last < m.ref
    BY <1>4
  <2>1. CASE R = {}
    BY <1>4, <1>5, <2>1
  <2>2. CASE R # {}
    <3>1. run[N] \in R /\ d.last = run[N].ref
      BY <1>4, <1>6, <2>2
    <3>2. ~ m.ref <= run[N].ref
      BY <1>2, <3>1
    <3>3. QED
      BY <1>2, <1>5, <3>1, <3>2
  <2>3. QED
    BY <2>1, <2>2
<1>11. ASSUME NEW m \in d.queue, IsHead(d.queue, m)
       PROVE  d.last # NoRef /\ m.prev \notin {NoRef, d.last}
  <2>1. ~ NextInChain(m, d.last)
    BY <1>3, <1>4, <1>11
  <2>2. d.last < m.ref /\ m.ref \in Nat
    BY <1>4, <1>5, <1>10
  <2>3. QED
    BY <1>8, <2>1, <2>2 DEF NextInChain
<1>12. ChainFits(p, d)
  <2>1. IsFiniteSet(d.queue) /\ d.queue \subseteq Sent[p]
    BY <1>1, <1>4, FS_Subset
  <2>2. QED
    BY <1>4, <1>9, <1>10, <1>11, <2>1 DEF ChainFits, PartOf, AheadOf, HeadWaits
<1>13. LegalAfter(p, c.last, e)
  <2>0. Len(e) = N
    BY <1>2, <1>4
  <2> SUFFICES ASSUME NEW i \in 1 .. N
               PROVE  Abstract!Follows(p, IF i = 1 THEN c.last ELSE e[i - 1].ref, e[i])
    BY <2>0 DEF LegalAfter
  <2> DEFINE at == IF i = 1 THEN c.last ELSE run[i - 1].ref
  <2>1. e[i] = Popped(c, run[i]) /\ e[i].ref = run[i].ref /\ e[i].kind \in {"deliver", "skip"}
    BY DEF Popped
  <2>2. (IF i = 1 THEN c.last ELSE e[i - 1].ref) = at
    <3>1. i # 1 => i - 1 \in 1 .. N
      BY <1>2
    <3>2. QED
      BY <3>1 DEF Popped
  <2>3. run[i] \in c.queue /\ run[i] \in Sent[p] /\ run[i].ref \in Nat
    BY <1>1, <1>2, <1>5
  <2>4. at \in Nat /\ at < run[i].ref
    <3>1. CASE i = 1
      BY <1>1, <1>5, <2>3, <3>1
    <3>2. CASE i # 1
      <4>1. i - 1 \in 1 .. N /\ i - 1 < i
        BY <1>2, <3>2
      <4>2. run[i - 1].ref < run[i].ref /\ run[i - 1].ref \in Nat
        BY <1>2, <1>5, <4>1
      <4>3. QED
        BY <3>2, <4>2
    <3>3. QED
      BY <3>1, <3>2
  <2>5. NextInChain(run[i], at)
    BY <1>3
  <2>6. Abstract!PrevOf(p, run[i].ref) = run[i].prev
    BY <2>3, PreviousIsNamed
  <2> HIDE DEF at, e
  <2>7. QED
    BY <2>1, <2>2, <2>3, <2>4, <2>5, <2>6 DEF Abstract!Follows, NextInChain, NoRef
<1>14. EndOf(c.last, e) = d.last
  <2>1. Len(e) = N /\ (e = <<>> <=> N = 0)
    <3>1. Len(e) = N /\ e \in Seq(Entry)
      BY <1>2, <1>4
    <3> HIDE DEF e
    <3>2. QED
      BY <3>1, EmptySeq
  <2>2. R = {} <=> N = 0
    BY <1>2, <1>6
  <2>3. CASE R = {}
    BY <1>4, <2>1, <2>2, <2>3 DEF EndOf
  <2>4. CASE R # {}
    <3>1. e[N].ref = run[N].ref
      BY <1>6, <2>4 DEF Popped
    <3> HIDE DEF e
    <3>2. QED
      BY <1>4, <2>1, <2>2, <2>4, <3>1 DEF EndOf
  <2>5. QED
    BY <2>3, <2>4
<1>15. Extends(p, c.emitted, c.last, d.emitted, d.last)
  <2> HIDE DEF e
  <2>1. QED
    BY <1>4, <1>13, <1>14 DEF Extends
<1>16. \A m \in c.queue : m \in d.queue \/ m.ref <= d.last
  BY <1>4, <1>7
<1>17. Raises(c, d)
  BY <1>4 DEF Raises
<1>18. R = {} => d.emitted = c.emitted /\ d.raised = c.raised
  <2> SUFFICES ASSUME R = {} PROVE d.emitted = c.emitted
    BY <1>4
  <2>1. N = 0
    BY FS_EmptySet DEF N
  <2>2. Len(e) = 0 /\ e = <<>>
    BY <1>4, <2>1, EmptySeq
  <2>3. c.emitted \in Seq(Entry)
    BY <1>1 DEF ChainState
  <2> HIDE DEF e
  <2>4. QED
    BY <1>4, <2>2, <2>3, ConcatEmptySeq
<1>19. QED
  BY <1>4, <1>8, <1>12, <1>15, <1>16, <1>17, <1>18 DEF GoesOn, R, d


LEMMA PeekIsHead ==
    ASSUME NEW c, c.queue \subseteq Msg, c.queue # {}
    PROVE  IsHead(c.queue, Peek(c))
<1> DEFINE refs == { m.ref : m \in c.queue }
<1>1. refs \in SUBSET Nat /\ refs # {}
  BY DEF Msg
<1>2. PICK x \in refs : \A y \in refs : x <= y
  <2> HIDE DEF refs
  <2>1. QED
    BY <1>1, LeastNatural
<1>3. \E m \in c.queue : \A n \in c.queue : m.ref <= n.ref
  BY <1>2
<1>4. QED
  BY <1>3 DEF Peek, IsHead

\* Setting a timer or counting a request leaves the queue alone.
LEMMA SameQueueFits ==
    ASSUME NEW p, NEW c, NEW d \in ChainState, d.queue = c.queue, d.last = c.last
    PROVE  /\ PartOf(p, c) => PartOf(p, d)
           /\ ChainFits(p, c) => ChainFits(p, d)
BY DEF PartOf, ChainFits, AheadOf, HeadWaits

LEMMA QuietGoesOn ==
    ASSUME NEW p, NEW c, ChainFits(p, c), NEW d \in ChainState, d.queue = c.queue, d.last = c.last,
           d.emitted = c.emitted, d.raised = c.raised
    PROVE  GoesOn(p, c, d)
<1>1. c.emitted \in Seq(Entry) /\ c.last \in Nat
  BY DEF ChainFits, PartOf, ChainState
<1>2. Extends(p, c.emitted, c.last, d.emitted, d.last)
  BY <1>1, NothingExtends
<1>3. QED
  BY <1>1, <1>2, SameQueueFits DEF GoesOn, Raises

LEMMA AddGoesOn ==
    ASSUME NEW p \in Publishers, NEW c, ChainFits(p, c), NEW m \in Sent[p]
    PROVE  /\ GoesOn(p, c, Add(c, m))
           /\ Add(c, m).asked = c.asked /\ Add(c, m).maxRequests = c.maxRequests
           /\ Stale(c, m) => Add(c, m) = c
<1>1. CASE Stale(c, m)
  BY <1>1, QuietGoesOn DEF Add, ChainFits, PartOf
<1>2. CASE ~ Stale(c, m)
  <2> DEFINE marked == IF GapHandlingEnabled(c) THEN c.marked ELSE c.marked \cup {m}
             with == [c EXCEPT !.queue = c.queue \cup {m}, !.marked = marked]
  <2>1. Add(c, m) = CheckQueue(with)
    BY <1>2 DEF Add
  <2>2. /\ c \in ChainState /\ c.queue \subseteq Sent[p] /\ IsFiniteSet(c.queue) /\ AheadOf(c)
        /\ c.last \in {NoRef} \cup RefsOf(p) /\ c.last \in Nat
    BY DEF ChainFits, PartOf, ChainState
  <2>3. m \in Msg /\ m.ref \in Nat /\ m.ref # NoRef
    BY SentAreDistinct
  <2>4. c.last < m.ref
    BY <1>2, <2>2, <2>3 DEF Stale, NoRef
  <2>5. marked \in SUBSET Msg /\ c.queue \cup {m} \in SUBSET Msg
    BY <2>2, <2>3 DEF ChainState
  <2> HIDE DEF marked
  <2>6. /\ with \in ChainState
        /\ with.queue = c.queue \cup {m} /\ with.last = c.last /\ with.emitted = c.emitted
        /\ with.asked = c.asked /\ with.raised = c.raised /\ with.maxRequests = c.maxRequests
    BY <2>2, <2>5 DEF ChainState
  <2> HIDE DEF with
  <2>7. PartOf(p, with)
    <3>1. IsFiniteSet(with.queue) /\ with.queue \subseteq Sent[p]
      BY <2>2, <2>6, FS_AddElement
    <3>2. AheadOf(with)
      BY <2>2, <2>4, <2>6 DEF AheadOf
    <3>3. QED
      BY <2>6, <3>1, <3>2 DEF PartOf
  <2>8. GoesOn(p, with, CheckQueue(with)) /\ CheckQueue(with).asked = c.asked
        /\ CheckQueue(with).maxRequests = c.maxRequests
    BY <2>2, <2>6, <2>7, CheckQueueGoesOn
  <2>9. QED
    BY <1>2, <2>1, <2>6, <2>8 DEF GoesOn, Raises
<1>3. QED
  BY <1>1, <1>2

LEMMA MarkGoesOn ==
    ASSUME NEW p \in Publishers, NEW c, ChainFits(p, c), NEW m \in Sent[p]
    PROVE  /\ GoesOn(p, c, MarkExplicitly(c, m))
           /\ MarkExplicitly(c, m).asked = c.asked /\ MarkExplicitly(c, m).maxRequests = c.maxRequests
<1>1. CASE Stale(c, m)
  BY <1>1, QuietGoesOn DEF MarkExplicitly, ChainFits, PartOf
<1>2. CASE ~ Stale(c, m)
  <2> DEFINE d == [c EXCEPT !.marked = c.marked \cup {m}]
  <2>1. MarkExplicitly(c, m) = Add(d, m)
    BY <1>2 DEF MarkExplicitly
  <2>2. c \in ChainState /\ c.marked \cup {m} \in SUBSET Msg
    BY SentAreDistinct DEF ChainFits, PartOf, ChainState
  <2>3. /\ d \in ChainState /\ d.queue = c.queue /\ d.last = c.last /\ d.emitted = c.emitted
        /\ d.asked = c.asked /\ d.raised = c.raised /\ d.maxRequests = c.maxRequests
    BY <2>2 DEF ChainState
  <2> HIDE DEF d
  <2>4. ChainFits(p, d)
    BY <2>3, SameQueueFits
  <2>5. GoesOn(p, d, Add(d, m)) /\ Add(d, m).asked = d.asked /\ Add(d, m).maxRequests = d.maxRequests
    BY <2>4, AddGoesOn
  <2>6. QED
    BY <2>1, <2>3, <2>5 DEF GoesOn, Raises
<1>3. QED
  BY <1>1, <1>2

\* A head that waits is not ready.
LEMMA WaitingIsNotReady ==
    ASSUME NEW p \in Publishers, NEW c, PartOf(p, c), HeadWaits(c)
    PROVE  Ready(c) = {}
<1> SUFFICES ASSUME Ready(c) # {} PROVE FALSE
  OBVIOUS
<1> DEFINE R == Ready(c)
           run == InOrder(R)
           N == Cardinality(R)
<1>1. Queued(c)
  BY SentAreDistinct
<1>2. /\ R \subseteq c.queue /\ \A m \in R, n \in c.queue : n.ref <= m.ref => n \in R
      /\ N \in Nat /\ run \in [1 .. N -> R]
      /\ \A i, j \in 1 .. N : i < j => run[i].ref < run[j].ref
      /\ \A m \in R : \E i \in 1 .. N : run[i] = m
  BY <1>1, ReadyIsFirst, InOrderAscends
<1>3. \A i \in 1 .. N : NextInChain(run[i], IF i = 1 THEN c.last ELSE run[i - 1].ref)
  BY <1>1, ReadyIsTheChain
<1>4. R # {}
  OBVIOUS
<1> HIDE DEF R, run, N
<1>5. 1 \in 1 .. N /\ NextInChain(run[1], c.last)
  BY <1>2, <1>3, <1>4
<1>6. \A m \in c.queue : m.ref \in Nat
  BY <1>1 DEF Queued, Distinct, Msg
<1>7. IsHead(c.queue, run[1])
  <2> SUFFICES ASSUME NEW n \in c.queue PROVE run[1] \in c.queue /\ run[1].ref <= n.ref
    BY <1>2, <1>5 DEF IsHead
  <2>1. run[1] \in R /\ run[1] \in c.queue /\ run[1].ref \in Nat /\ n.ref \in Nat
    BY <1>2, <1>5, <1>6
  <2>2. CASE n \in R
    <3>1. PICK j \in 1 .. N : run[j] = n
      BY <1>2, <2>2
    <3>2. j = 1 \/ 1 < j
      BY <1>2
    <3>3. QED
      BY <1>2, <1>5, <2>1, <3>1, <3>2
  <2>3. CASE n \notin R
    BY <1>2, <2>1, <2>3
  <2>4. QED
    BY <2>2, <2>3
<1>8. QED
  BY <1>2, <1>5, <1>7 DEF HeadWaits, NextInChain


LEMMA DisableGoesOn ==
    ASSUME NEW p \in Publishers, NEW c, ChainFits(p, c)
    PROVE  LET d == Disable(c)
           IN  /\ ChainFits(p, d)
               /\ d.queue = c.queue /\ d.last = c.last /\ d.maxRequests = 0
               /\ d.emitted = c.emitted /\ d.asked = c.asked /\ d.raised = c.raised
<1> DEFINE off == [c EXCEPT !.maxRequests = 0]
           b == ClearGap(off)
           d == CheckQueue(b)
<1>1. c \in ChainState /\ PartOf(p, c) /\ HeadWaits(c) /\ c.last \in {NoRef} \cup RefsOf(p)
  BY DEF ChainFits, PartOf
<1>2. /\ off \in ChainState /\ off.queue = c.queue /\ off.last = c.last /\ off.maxRequests = 0
      /\ off.emitted = c.emitted /\ off.asked = c.asked /\ off.raised = c.raised
  BY <1>1 DEF ChainState
<1> HIDE DEF off
<1>3. b = [off EXCEPT !.pending = FALSE, !.first = FALSE, !.next = FALSE]
  BY DEF ClearGap
<1>4. /\ b \in ChainState /\ b.queue = c.queue /\ b.last = c.last /\ b.maxRequests = 0
      /\ b.emitted = c.emitted /\ b.asked = c.asked /\ b.raised = c.raised
  BY <1>2, <1>3 DEF ChainState
<1> HIDE DEF b
<1>5. PartOf(p, b) /\ HeadWaits(b) /\ Queued(b)
  BY <1>1, <1>4, SameQueueFits, SentAreDistinct DEF HeadWaits
<1>6. Ready(b) = {}
  BY <1>5, WaitingIsNotReady
<1>7. d.queue = b.queue /\ d.last = b.last
  BY <1>4, <1>5, <1>6, CheckQueueFields
<1>8. /\ GoesOn(p, b, d) /\ d.asked = b.asked /\ d.maxRequests = b.maxRequests
      /\ d.emitted = b.emitted /\ d.raised = b.raised
  BY <1>1, <1>4, <1>5, <1>6, CheckQueueGoesOn
<1>9. Disable(c) = d
  BY DEF Disable, b, off
<1>10. QED
  BY <1>4, <1>7, <1>8, <1>9 DEF GoesOn

\* What is asked for lies before a message of the queue, and an empty queue is left alone.
Tries(p, c, d) ==
    /\ GoesOn(p, c, d) /\ d.maxRequests = c.maxRequests
    /\ \A ref \in d.asked : ref \in c.asked \/ \E m \in d.queue : ref < m.ref
    /\ c.queue = {} => d.queue = {} /\ d.emitted = c.emitted /\ d.raised = c.raised

LEMMA QuietTries ==
    ASSUME NEW p, NEW c, ChainFits(p, c), NEW d \in ChainState, d.queue = c.queue, d.last = c.last,
           d.emitted = c.emitted, d.raised = c.raised, d.asked = c.asked, d.maxRequests = c.maxRequests
    PROVE  Tries(p, c, d)
BY QuietGoesOn DEF Tries

\* Setting a timer before or after changes nothing of it.
LEMMA TriesWithTimers ==
    ASSUME NEW p, NEW c, NEW b, NEW d, NEW f \in ChainState, Tries(p, b, d),
           b.queue = c.queue, b.last = c.last, b.emitted = c.emitted, b.raised = c.raised,
           b.asked = c.asked, b.maxRequests = c.maxRequests,
           f.queue = d.queue, f.last = d.last, f.emitted = d.emitted, f.raised = d.raised,
           f.asked = d.asked, f.maxRequests = d.maxRequests
    PROVE  Tries(p, c, f)
BY SameQueueFits DEF Tries, GoesOn, Raises

\* requestGapFill: the gap it gives up lies between the last message and the head of the queue,
\* which is handed out with it.
LEMMA RequestGapFillTries ==
    ASSUME NEW p \in Publishers, NEW c, ChainFits(p, c)
    PROVE  Tries(p, c, RequestGapFill(c))
<1>1. c \in ChainState /\ PartOf(p, c) /\ HeadWaits(c) /\ c.last \in {NoRef} \cup RefsOf(p)
  BY DEF ChainFits, PartOf
<1>2. CASE ~ c.pending \/ c.queue = {} \/ c.last = NoRef
  <2>1. RequestGapFill(c) = c
    BY <1>2 DEF RequestGapFill
  <2>2. QED
    BY <1>1, <2>1, QuietTries
<1>3. CASE ~ (~ c.pending \/ c.queue = {} \/ c.last = NoRef)
  <2> DEFINE m == Peek(c)
             to == m.prev
             asking == [c EXCEPT !.requests = c.requests + 1, !.asked = c.asked \cup {to}]
             skip == <<[kind |-> "gap", ref |-> to]>>
             skipped == Emit([c EXCEPT !.last = to], skip)
             failed == IF GapHandlingEnabled(c) THEN Raise(skipped, "error") ELSE skipped
             b == ClearGap(failed)
             d == CheckQueue(b)
  <2>1. RequestGapFill(c) = IF c.requests < c.maxRequests THEN asking ELSE d
    BY <1>1, <1>3 DEF RequestGapFill, ChainState
  <2>2. c.queue \subseteq Msg /\ c.queue \subseteq Sent[p] /\ IsFiniteSet(c.queue) /\ AheadOf(c)
    BY <1>1, SentAreDistinct DEF PartOf
  <2>3. IsHead(c.queue, m)
    BY <1>3, <2>2, PeekIsHead
  <2> HIDE DEF m
  <2>4. m \in Sent[p] /\ m \in c.queue /\ m.ref \in Nat /\ to \in Nat /\ to < m.ref
    BY <2>2, <2>3, SentAreDistinct DEF IsHead
  <2>5. c.last < to /\ c.last \in Nat /\ to # NoRef
    <3>1. to \notin {NoRef, c.last} /\ c.last # NoRef
      BY <1>1, <2>3, <2>4 DEF HeadWaits
    <3>2. PICK n \in Sent[p] : n.ref = c.last
      BY <1>1, <3>1 DEF RefsOf
    <3>3. n.ref < m.ref
      BY <2>2, <2>4, <3>2 DEF AheadOf
    <3>4. n.ref <= m.prev
      BY <2>4, <3>1, <3>2, <3>3, SentAssumption
    <3>5. c.last \in Nat
      BY <1>1 DEF ChainState
    <3>6. QED
      BY <2>4, <3>1, <3>2, <3>4, <3>5
  <2> HIDE DEF to
  <2>6. CASE c.requests < c.maxRequests
    <3>1. c.requests + 1 \in Nat /\ c.asked \cup {to} \in SUBSET Nat
      BY <1>1, <2>4 DEF ChainState
    <3>2. /\ asking \in ChainState /\ asking.queue = c.queue /\ asking.last = c.last
          /\ asking.emitted = c.emitted /\ asking.raised = c.raised
          /\ asking.maxRequests = c.maxRequests /\ asking.asked = c.asked \cup {to}
      BY <1>1, <3>1 DEF ChainState
    <3> HIDE DEF asking
    <3>3. GoesOn(p, c, asking)
      BY <3>2, QuietGoesOn
    <3>4. QED
      BY <1>3, <2>1, <2>4, <2>6, <3>2, <3>3 DEF Tries
  <2>7. CASE ~ c.requests < c.maxRequests
    <3> DEFINE es == c.emitted \o skip
    <3>1. skip \in Seq(Entry) /\ Len(skip) = 1 /\ skip[1] = [kind |-> "gap", ref |-> to] /\ skip # <<>>
      BY <2>4 DEF Entry
    <3> HIDE DEF skip
    <3>2. c.emitted \in Seq(Entry) /\ es \in Seq(Entry)
      BY <1>1, <3>1, ConcatProperties DEF ChainState
    <3>3. Extends(p, c.emitted, c.last, es, to)
      <4>1. LegalAfter(p, c.last, skip)
        BY <2>4, <2>5, <3>1 DEF LegalAfter, Abstract!Follows
      <4>2. EndOf(c.last, skip) = to
        BY <3>1 DEF EndOf
      <4>3. QED
        BY <3>1, <4>1, <4>2 DEF Extends
    <3> HIDE DEF es
    <3>4. /\ skipped \in ChainState /\ skipped.queue = c.queue /\ skipped.last = to
          /\ skipped.emitted = es /\ skipped.raised = c.raised /\ skipped.asked = c.asked
          /\ skipped.maxRequests = c.maxRequests
      <4> DEFINE moved == [c EXCEPT !.last = to]
      <4>1. /\ moved \in ChainState /\ moved.queue = c.queue /\ moved.last = to
            /\ moved.emitted = c.emitted /\ moved.raised = c.raised /\ moved.asked = c.asked
            /\ moved.maxRequests = c.maxRequests
        BY <1>1, <2>4 DEF ChainState
      <4>2. skipped = [moved EXCEPT !.emitted = es]
        BY <4>1 DEF Emit, es
      <4> HIDE DEF moved
      <4>3. QED
        BY <3>2, <4>1, <4>2 DEF ChainState
    <3> HIDE DEF skipped
    <3>5. /\ failed \in ChainState /\ failed.queue = c.queue /\ failed.last = to
          /\ failed.emitted = es /\ failed.asked = c.asked /\ failed.maxRequests = c.maxRequests
          /\ \A r \in failed.raised : r \in c.raised \/ ~ r.empty
      <4>1. CASE GapHandlingEnabled(c)
        <5> DEFINE error == [event |-> "error", empty |-> skipped.queue = {}]
        <5>1. failed = [skipped EXCEPT !.raised = skipped.raised \cup {error}]
          BY <3>4, <4>1 DEF Raise, ChainState
        <5>2. error.empty = FALSE /\ error \in [event : {"drain", "error"}, empty : BOOLEAN]
          BY <1>3, <3>4
        <5> HIDE DEF error
        <5>3. skipped.raised \cup {error} \in SUBSET [event : {"drain", "error"}, empty : BOOLEAN]
          BY <3>4, <5>2 DEF ChainState
        <5>4. /\ failed \in ChainState /\ failed.queue = skipped.queue /\ failed.last = skipped.last
              /\ failed.emitted = skipped.emitted /\ failed.asked = skipped.asked
              /\ failed.maxRequests = skipped.maxRequests /\ failed.raised = skipped.raised \cup {error}
          BY <3>4, <5>1, <5>3 DEF ChainState
        <5> HIDE DEF failed
        <5>5. QED
          BY <3>4, <5>2, <5>4
      <4>2. CASE ~ GapHandlingEnabled(c)
        BY <3>4, <4>2
      <4>3. QED
        BY <4>1, <4>2
    <3> HIDE DEF failed
    <3>6. /\ b \in ChainState /\ b.queue = c.queue /\ b.last = to
          /\ b.emitted = es /\ b.asked = c.asked /\ b.maxRequests = c.maxRequests
          /\ \A r \in b.raised : r \in c.raised \/ ~ r.empty
      <4>1. b = [failed EXCEPT !.pending = FALSE, !.first = FALSE, !.next = FALSE]
        BY DEF ClearGap
      <4>2. /\ b \in ChainState /\ b.queue = failed.queue /\ b.last = failed.last
            /\ b.emitted = failed.emitted /\ b.asked = failed.asked
            /\ b.maxRequests = failed.maxRequests /\ b.raised = failed.raised
        BY <3>5, <4>1 DEF ChainState
      <4> HIDE DEF b
      <4>3. QED
        BY <3>5, <4>2
    <3> HIDE DEF b
    <3>7. PartOf(p, b) /\ Queued(b)
      <4>1. \A n \in b.queue : to < n.ref
        BY <2>2, <2>3, <2>4, <3>6 DEF IsHead, Msg
      <4>2. PartOf(p, b)
        BY <2>2, <3>6, <4>1 DEF PartOf, AheadOf
      <4>3. QED
        BY <4>2, SentAreDistinct
    <3>8. Ready(b) # {}
      <4> SUFFICES ASSUME Ready(b) = {} PROVE FALSE
        OBVIOUS
      <4>1. IsHead(b.queue \ Ready(b), m)
        BY <2>3, <3>6
      <4>2. ~ NextInChain(m, b.last)
        BY <3>7, <4>1, ReadyIsTheChain
      <4>3. QED
        BY <2>5, <3>6, <4>2 DEF NextInChain, to
    <3>9. GoesOn(p, b, d) /\ d.asked = b.asked /\ d.maxRequests = b.maxRequests
      BY <3>7, <3>8, CheckQueueGoesOn
    <3> HIDE DEF d
    <3>10. Extends(p, c.emitted, c.last, d.emitted, d.last)
      BY <3>2, <3>3, <3>6, <3>9, ExtendsJoins DEF GoesOn
    <3>11. GoesOn(p, c, d)
      <4>1. d.last \in Nat
        BY <3>9 DEF GoesOn, ChainFits, PartOf, ChainState
      <4>2. QED
        BY <2>4, <2>5, <3>6, <3>9, <3>10, <4>1 DEF GoesOn, Raises
    <3>12. QED
      BY <1>3, <2>1, <2>7, <3>6, <3>9, <3>11 DEF Tries
  <2>8. QED
    BY <2>6, <2>7
<1>4. QED
  BY <1>2, <1>3

LEMMA TimeoutsTry ==
    ASSUME NEW p \in Publishers, NEW c, ChainFits(p, c)
    PROVE  Tries(p, c, PropagationTimeout(c)) /\ Tries(p, c, ResendTimeout(c))
<1>1. c \in ChainState
  BY DEF ChainFits, PartOf
<1>2. Tries(p, c, PropagationTimeout(c))
  <2> DEFINE b == [c EXCEPT !.first = FALSE]
             d == RequestGapFill(b)
             f == [d EXCEPT !.next = TRUE]
  <2>1. /\ b \in ChainState /\ b.queue = c.queue /\ b.last = c.last /\ b.emitted = c.emitted
        /\ b.raised = c.raised /\ b.asked = c.asked /\ b.maxRequests = c.maxRequests
    BY <1>1 DEF ChainState
  <2> HIDE DEF b
  <2>2. ChainFits(p, b)
    BY <2>1, SameQueueFits
  <2>3. Tries(p, b, d) /\ d \in ChainState
    BY <2>2, RequestGapFillTries DEF Tries, GoesOn, ChainFits, PartOf
  <2> HIDE DEF d
  <2>4. /\ f \in ChainState /\ f.queue = d.queue /\ f.last = d.last /\ f.emitted = d.emitted
        /\ f.raised = d.raised /\ f.asked = d.asked /\ f.maxRequests = d.maxRequests
    BY <2>3 DEF ChainState
  <2> HIDE DEF f
  <2>5. Tries(p, c, d) /\ Tries(p, c, f)
    BY <2>1, <2>3, <2>4, TriesWithTimers
  <2>6. PropagationTimeout(c) = IF d.pending THEN f ELSE d
    BY DEF PropagationTimeout, b, d, f
  <2>7. QED
    BY <2>5, <2>6
<1>3. Tries(p, c, ResendTimeout(c))
  <2>1. CASE c.pending
    BY <2>1, RequestGapFillTries DEF ResendTimeout
  <2>2. CASE ~ c.pending
    <3> DEFINE d == [c EXCEPT !.next = FALSE]
    <3>1. /\ d \in ChainState /\ d.queue = c.queue /\ d.last = c.last /\ d.emitted = c.emitted
          /\ d.raised = c.raised /\ d.asked = c.asked /\ d.maxRequests = c.maxRequests
      BY <1>1 DEF ChainState
    <3> HIDE DEF d
    <3>2. Tries(p, c, d)
      BY <3>1, QuietTries
    <3>3. QED
      BY <2>2, <3>2 DEF ResendTimeout, d
  <2>3. QED
    BY <2>1, <2>2
<1>4. QED
  BY <1>2, <1>3


-----------------------------------------------------------------------------
(* The whole stage.  A log ends where its chain is, what a resend is to     *)
(* bring lies before a message that was handed out or waits, and an output *)
(* that has ended leaves nothing behind.                                   *)
LogFits(p) ==
    /\ log[p] \in Seq(Entry) /\ LegalAfter(p, NoRef, log[p])
    /\ EndOf(NoRef, log[p]) = chain[p].last
ResendsFit ==
    \A r \in resends :
        \/ r.to <= chain[r.pub].last
        \/ \E m \in chain[r.pub].queue : r.to < m.ref
EndFits ==
    out = "ended" /\ ~ done => input = "closed" /\ \A p \in Publishers : chain[p].queue = {}
OrderingInv ==
    /\ OrderingTypeOK /\ ResendsFit /\ EndFits /\ NothingLostAtTheEnd
    /\ log \in [Publishers -> Seq(Entry)]
    /\ \A p \in Publishers : ChainFits(p, chain[p]) /\ LogFits(p)

\* A log only grows.
LogsGrow == \A p \in Publishers : \E e \in Seq(Entry) : log'[p] = log[p] \o e

LEMMA NewChainFits ==
    ASSUME NEW p, NEW max \in Nat
    PROVE  ChainFits(p, NewChain(max))
<1>1. NewChain(max) \in ChainState
  <2>1. <<>> \in Seq(Entry)
    BY EmptySeq
  <2>2. QED
    BY <2>1 DEF NewChain, ChainState, NoRef
<1>2. NewChain(max).queue = {} /\ NewChain(max).last = NoRef
  BY DEF NewChain
<1>3. QED
  BY <1>1, <1>2, FS_EmptySet DEF ChainFits, PartOf, AheadOf, HeadWaits

\* A chain of the stage, and what is left of one whose callbacks have taken effect.
Chains ==
    [queue : SUBSET Msg, last : Nat, pending : BOOLEAN, requests : Nat,
     maxRequests : {0, MaxGapRequests}, first : BOOLEAN, next : BOOLEAN, marked : SUBSET Msg,
     emitted : {<<>>}, asked : {{}}, raised : {{}}]
Settled(c) == [c EXCEPT !.emitted = <<>>, !.asked = {}, !.raised = {}]

LEMMA SettledFits ==
    ASSUME NEW p, NEW c, ChainFits(p, c), c.maxRequests \in {0, MaxGapRequests}
    PROVE  /\ ChainFits(p, Settled(c)) /\ Settled(c) \in Chains
           /\ Settled(c).queue = c.queue /\ Settled(c).last = c.last
<1>1. c \in ChainState /\ <<>> \in Seq(Entry)
  BY EmptySeq DEF ChainFits, PartOf
<1>2. /\ Settled(c) \in ChainState /\ Settled(c).queue = c.queue /\ Settled(c).last = c.last
      /\ Settled(c).emitted = <<>> /\ Settled(c).asked = {} /\ Settled(c).raised = {}
      /\ Settled(c).maxRequests = c.maxRequests
  BY <1>1 DEF ChainState, Settled
<1>3. Settled(c) \in Chains
  BY <1>2 DEF ChainState, Chains
<1>4. QED
  BY <1>2, <1>3, SameQueueFits

LEMMA BecomesKeeps ==
    ASSUME OrderingInv, NEW p \in Publishers, NEW c, Tries(p, chain[p], c) \/ GoesOn(p, chain[p], c),
           c.maxRequests = chain[p].maxRequests,
           \A ref \in c.asked : \E m \in c.queue : ref < m.ref,
           out = "ended" /\ ~ done => c.queue = {} /\ c.emitted = <<>>,
           Becomes(p, c), UNCHANGED <<input, done, enabled>>
    PROVE  OrderingInv' /\ LogsGrow
<1>1. /\ chain \in [Publishers -> Chains] /\ GoesOn(p, chain[p], c)
      /\ chain[p].emitted = <<>> /\ chain[p].raised = {} /\ chain[p].last \in Nat
      /\ chain[p].queue \subseteq Msg
  BY DEF OrderingInv, OrderingTypeOK, Chains, Tries
<1>2. /\ ChainFits(p, c) /\ c \in ChainState /\ c.maxRequests \in {0, MaxGapRequests}
      /\ c.last \in Nat /\ c.asked \subseteq Nat /\ c.emitted \in Seq(Entry)
      /\ chain[p].last <= c.last
      /\ \A m \in chain[p].queue : m \in c.queue \/ m.ref <= c.last
  BY <1>1 DEF GoesOn, ChainFits, PartOf, ChainState, Chains
<1>3. chain' = [chain EXCEPT ![p] = Settled(c)]
  BY DEF Becomes, Settled
<1>4. /\ ChainFits(p, Settled(c)) /\ Settled(c) \in Chains
      /\ Settled(c).queue = c.queue /\ Settled(c).last = c.last
  BY <1>2, SettledFits
<1>5. chain' \in [Publishers -> Chains] /\ \A q \in Publishers : chain'[q] = IF q = p THEN Settled(c) ELSE chain[q]
  BY <1>1, <1>3, <1>4
<1>6. log \in [Publishers -> Seq(Entry)] /\ log' = [log EXCEPT ![p] = log[p] \o c.emitted]
  BY DEF OrderingInv, Becomes
<1>7. LegalAfter(p, chain[p].last, c.emitted) /\ EndOf(chain[p].last, c.emitted) = c.last
  <2>1. PICK e \in Seq(Entry) : /\ c.emitted = <<>> \o e
                               /\ LegalAfter(p, chain[p].last, e) /\ EndOf(chain[p].last, e) = c.last
    BY <1>1 DEF GoesOn, Extends
  <2>2. c.emitted = e
    BY <2>1, ConcatEmptySeq
  <2>3. QED
    BY <2>1, <2>2
<1>8. /\ log[p] \in Seq(Entry) /\ LegalAfter(p, NoRef, log[p]) /\ EndOf(NoRef, log[p]) = chain[p].last
  BY DEF OrderingInv, LogFits
<1>9. /\ log' \in [Publishers -> Seq(Entry)]
      /\ log'[p] = log[p] \o c.emitted /\ \A q \in Publishers \ {p} : log'[q] = log[q]
  BY <1>2, <1>6, <1>8, ConcatProperties
<1>10. ASSUME NEW q \in Publishers PROVE ChainFits(q, chain'[q]) /\ LogFits(q)'
  <2>1. CASE q = p
    <3>1. LegalAfter(p, NoRef, log'[p]) /\ EndOf(NoRef, log'[p]) = c.last
      BY <1>2, <1>7, <1>8, <1>9, PiecesJoin
    <3>2. QED
      BY <1>4, <1>5, <1>9, <2>1, <3>1 DEF LogFits, LegalAfter, Abstract!Follows, Abstract!PrevOf
  <2>2. CASE q # p
    <3>1. chain'[q] = chain[q] /\ log'[q] = log[q] /\ ChainFits(q, chain[q]) /\ LogFits(q)
      BY <1>5, <1>9, <2>2 DEF OrderingInv
    <3>2. LogFits(q)'
      BY <3>1 DEF LogFits, LegalAfter, Abstract!Follows, Abstract!PrevOf
    <3>3. QED
      BY <3>1, <3>2
  <2>3. QED
    BY <2>1, <2>2
<1>11. LogsGrow
  <2> SUFFICES ASSUME NEW q \in Publishers PROVE \E e \in Seq(Entry) : log'[q] = log[q] \o e
    BY DEF LogsGrow
  <2>1. CASE q = p
    BY <1>2, <1>9, <2>1
  <2>2. CASE q # p
    <3>1. log[q] \in Seq(Entry) /\ <<>> \in Seq(Entry)
      BY <1>6, EmptySeq
    <3>2. log'[q] = log[q] \o <<>>
      BY <1>9, <2>2, <3>1, ConcatEmptySeq
    <3>3. QED
      BY <3>1, <3>2
  <2>3. QED
    BY <2>1, <2>2
<1>12. lost' = {}
  <2>1. lost = {}
    BY DEF OrderingInv, NothingLostAtTheEnd
  <2>2. c.emitted = <<>> => Delivered(c) = {}
    BY DEF Delivered, ToSet
  <2>3. QED
    BY <2>1, <2>2 DEF Becomes
<1>13. ASSUME NEW r \in resends'
       PROVE  /\ r \in [pub : Publishers, after : Nat, to : Nat]
              /\ r.to <= chain'[r.pub].last \/ \E m \in chain'[r.pub].queue : r.to < m.ref
  <2>1. r \in resends \/ \E ref \in c.asked : r = [pub |-> p, after |-> c.last, to |-> ref]
    BY <1>13 DEF Becomes
  <2>2. CASE r \in resends
    <3>1. /\ r \in [pub : Publishers, after : Nat, to : Nat]
          /\ r.to <= chain[r.pub].last \/ \E m \in chain[r.pub].queue : r.to < m.ref
      BY <2>2 DEF OrderingInv, OrderingTypeOK, ResendsFit
    <3>2. CASE r.pub # p
      BY <1>5, <3>1, <3>2
    <3>3. CASE r.pub = p
      <4>1. chain'[r.pub].last = c.last /\ chain'[r.pub].queue = c.queue /\ r.to \in Nat
        BY <1>4, <1>5, <3>1, <3>3
      <4>2. CASE r.to <= chain[p].last
        BY <1>1, <1>2, <3>1, <4>1, <4>2
      <4>3. CASE \E m \in chain[p].queue : r.to < m.ref
        <5>1. PICK m \in chain[p].queue : r.to < m.ref
          BY <4>3
        <5>2. m.ref \in Nat
          BY <1>1 DEF Msg
        <5>3. QED
          BY <1>2, <3>1, <4>1, <5>1, <5>2
      <4>4. QED
        BY <3>1, <3>3, <4>2, <4>3
    <3>4. QED
      BY <3>2, <3>3
  <2>3. CASE r \notin resends
    <3>1. PICK ref \in c.asked : r = [pub |-> p, after |-> c.last, to |-> ref]
      BY <2>1, <2>3
    <3>2. r \in [pub : Publishers, after : Nat, to : Nat] /\ r.pub = p /\ r.to = ref
      BY <1>2, <3>1
    <3>3. \E m \in c.queue : ref < m.ref
      BY <3>1
    <3>4. QED
      BY <1>4, <1>5, <3>2, <3>3
  <2>4. QED
    BY <2>2, <2>3
<1>14. EndFits'
  <2> SUFFICES ASSUME out' = "ended", ~ done
               PROVE  input = "closed" /\ \A q \in Publishers : chain'[q].queue = {}
    BY DEF EndFits
  <2>1. CASE out = "ended"
    BY <1>4, <1>5, <2>1 DEF OrderingInv, EndFits
  <2>2. CASE out # "ended"
    <3>1. ClosedBy(p, c)
      BY <2>2 DEF Becomes
    <3>2. input = "closed" /\ \A q \in Publishers \ {p} : chain[q].queue = {}
      BY <3>1 DEF ClosedBy
    <3>3. PICK r \in c.raised : r.empty
      BY <3>1 DEF ClosedBy
    <3>4. c.queue = {}
      BY <1>1, <3>3 DEF GoesOn, Raises
    <3>5. QED
      BY <1>4, <1>5, <3>2, <3>4
  <2>3. QED
    BY <2>1, <2>2
<1>15. OrderingTypeOK'
  <2>1. out' \in {"open", "ended", "error"} /\ done' \in BOOLEAN /\ enabled' \in BOOLEAN /\ input' \in {"open", "closed"}
    BY DEF OrderingInv, OrderingTypeOK, Becomes
  <2>2. resends' \subseteq [pub : Publishers, after : Nat, to : Nat]
    BY <1>13
  <2>3. QED
    BY <1>5, <1>12, <2>1, <2>2 DEF OrderingTypeOK, Chains
<1>16. QED
  BY <1>9, <1>10, <1>11, <1>12, <1>13, <1>14, <1>15 DEF OrderingInv, ResendsFit, NothingLostAtTheEnd


\* Where only timers, the input or the output change, logs and chains stay.
LEMMA LogsStay ==
    ASSUME OrderingInv, UNCHANGED <<log, lost>>,
           \A p \in Publishers : ChainFits(p, chain'[p]) /\ chain'[p].last = chain[p].last
    PROVE  /\ LogsGrow /\ NothingLostAtTheEnd' /\ log' \in [Publishers -> Seq(Entry)]
           /\ \A p \in Publishers : ChainFits(p, chain'[p]) /\ LogFits(p)'
<1>1. \A p \in Publishers : log[p] \in Seq(Entry) /\ log[p] = log[p] \o <<>> /\ <<>> \in Seq(Entry)
  <2>1. log \in [Publishers -> Seq(Entry)]
    BY DEF OrderingInv
  <2>2. QED
    BY <2>1, ConcatEmptySeq, EmptySeq
<1>2. ASSUME NEW p \in Publishers PROVE LogFits(p)'
  <2>1. LogFits(p) /\ chain'[p].last = chain[p].last /\ log' = log
    BY DEF OrderingInv
  <2>2. QED
    BY <2>1 DEF LogFits, LegalAfter, Abstract!Follows, Abstract!PrevOf
<1>3. QED
  BY <1>1, <1>2 DEF OrderingInv, LogsGrow, NothingLostAtTheEnd

LEMMA OrderingInitHolds == ASSUME OrderingInit PROVE OrderingInv
<1> DEFINE max == IF enabled THEN MaxGapRequests ELSE 0
<1>1. max \in Nat /\ max \in {0, MaxGapRequests}
  BY MaxGapRequestsAssumption DEF OrderingInit
<1>2. chain = [p \in Publishers |-> NewChain(max)]
  BY DEF OrderingInit
<1> HIDE DEF max
<1>3. ASSUME NEW p \in Publishers
      PROVE  ChainFits(p, chain[p]) /\ chain[p] \in Chains /\ chain[p].last = NoRef /\ chain[p].queue = {}
  <2>1. chain[p] = NewChain(max)
    BY <1>2
  <2>2. NewChain(max) \in Chains
    BY <1>1 DEF NewChain, Chains, NoRef
  <2>3. NewChain(max).last = NoRef /\ NewChain(max).queue = {}
    BY DEF NewChain
  <2>4. QED
    BY <1>1, <2>1, <2>2, <2>3, NewChainFits
<1>4. ASSUME NEW p \in Publishers PROVE LogFits(p) /\ log[p] \in Seq(Entry)
  <2>1. log[p] = <<>>
    BY DEF OrderingInit
  <2>2. log[p] \in Seq(Entry) /\ Len(<<>>) = 0
    BY <2>1, EmptySeq
  <2>3. QED
    BY <1>3, <2>1, <2>2 DEF LogFits, LegalAfter, EndOf
<1>5. log \in [Publishers -> Seq(Entry)] /\ chain \in [Publishers -> Chains]
  BY <1>2, <1>3, <1>4 DEF OrderingInit
<1>6. OrderingTypeOK /\ ResendsFit /\ EndFits /\ NothingLostAtTheEnd
  BY <1>5 DEF OrderingInit, OrderingTypeOK, Chains, ResendsFit, EndFits, NothingLostAtTheEnd
<1>7. QED
  BY <1>3, <1>4, <1>5, <1>6 DEF OrderingInv

LEMMA OrderingNextKeeps ==
    ASSUME OrderingInv, [OrderingNext]_orderingVars
    PROVE  OrderingInv' /\ LogsGrow
<1>1. /\ chain \in [Publishers -> Chains]
      /\ \A p \in Publishers :
            /\ ChainFits(p, chain[p]) /\ chain[p] \in ChainState
            /\ chain[p].maxRequests \in {0, MaxGapRequests}
            /\ chain[p].emitted = <<>> /\ chain[p].asked = {} /\ chain[p].raised = {}
      /\ resends \subseteq [pub : Publishers, after : Nat, to : Nat]
      /\ OrderingTypeOK /\ ResendsFit /\ EndFits
  BY DEF OrderingInv, OrderingTypeOK, Chains, ChainFits, PartOf
<1>2. ASSUME NEW p \in Publishers, NEW m \in Sent[p], Receive(p, m)
      PROVE  OrderingInv' /\ LogsGrow
  <2> DEFINE c == Add(chain[p], m)
  <2>1. GoesOn(p, chain[p], c) /\ c.asked = {} /\ c.maxRequests = chain[p].maxRequests
    BY <1>1, AddGoesOn
  <2>2. Becomes(p, c) /\ UNCHANGED <<input, done, enabled>> /\ input = "open"
    BY <1>2 DEF Receive
  <2>3. ~ (out = "ended" /\ ~ done)
    BY <1>1, <2>2 DEF EndFits
  <2> HIDE DEF c
  <2>4. QED
    BY <2>1, <2>2, <2>3, BecomesKeeps
<1>3. ASSUME NEW p \in Publishers, NEW m \in Markable[p], Mark(p, m)
      PROVE  OrderingInv' /\ LogsGrow
  <2> DEFINE c == MarkExplicitly(chain[p], m)
  <2>1. m \in Sent[p]
    BY SentAssumption
  <2>2. GoesOn(p, chain[p], c) /\ c.asked = {} /\ c.maxRequests = chain[p].maxRequests
    BY <1>1, <2>1, MarkGoesOn
  <2>3. Becomes(p, c) /\ UNCHANGED <<input, done, enabled>> /\ input = "open"
    BY <1>3 DEF Mark
  <2>4. ~ (out = "ended" /\ ~ done)
    BY <1>1, <2>3 DEF EndFits
  <2> HIDE DEF c
  <2>5. QED
    BY <2>2, <2>3, <2>4, BecomesKeeps
<1>4. ASSUME NEW p \in Publishers, FirePropagationTimeout(p) \/ FireResendTimeout(p)
      PROVE  OrderingInv' /\ LogsGrow
  <2>1. PICK c \in {PropagationTimeout(chain[p]), ResendTimeout(chain[p])} : Becomes(p, c)
    BY <1>4 DEF FirePropagationTimeout, FireResendTimeout
  <2>2. Tries(p, chain[p], c)
    BY <1>1, TimeoutsTry
  <2>3. out = "ended" /\ ~ done => c.queue = {} /\ c.emitted = <<>>
    BY <1>1, <2>2 DEF EndFits, Tries
  <2>4. c.maxRequests = chain[p].maxRequests /\ \A ref \in c.asked : \E m \in c.queue : ref < m.ref
    BY <1>1, <2>2 DEF Tries
  <2>5. UNCHANGED <<input, done, enabled>>
    BY <1>4 DEF FirePropagationTimeout, FireResendTimeout
  <2>6. QED
    BY <2>1, <2>2, <2>3, <2>4, <2>5, BecomesKeeps
<1>5. ASSUME NEW r \in resends, NEW m \in Sent[r.pub], ResendDelivers(r, m)
      PROVE  OrderingInv' /\ LogsGrow
  <2> DEFINE p == r.pub
             c == Add(chain[p], m)
  <2>1. p \in Publishers /\ r.to \in Nat
    BY <1>1
  <2>2. GoesOn(p, chain[p], c) /\ c.asked = {} /\ c.maxRequests = chain[p].maxRequests
    BY <1>1, <2>1, AddGoesOn
  <2>3. Becomes(p, c) /\ UNCHANGED <<input, done, enabled>> /\ m.ref <= r.to
    BY <1>5 DEF ResendDelivers
  <2>4. ASSUME out = "ended", ~ done PROVE c.queue = {} /\ c.emitted = <<>>
    <3>1. chain[p].queue = {}
      BY <1>1, <2>1, <2>4 DEF EndFits
    <3>2. r.to <= chain[p].last /\ chain[p].last \in Nat
      BY <1>1, <2>1, <3>1 DEF ResendsFit, ChainState
    <3>3. m.ref \in Nat /\ m.ref # NoRef
      BY <2>1, SentAreDistinct
    <3>4. Stale(chain[p], m)
      BY <2>1, <2>3, <3>2, <3>3 DEF Stale, NoRef
    <3>5. c = chain[p]
      BY <1>1, <2>1, <3>4, AddGoesOn
    <3>6. QED
      BY <1>1, <2>1, <3>1, <3>5
  <2> HIDE DEF c, p
  <2>5. QED
    BY <2>1, <2>2, <2>3, <2>4, BecomesKeeps
<1>6. ASSUME NEW r \in resends, ResendEnds(r) \/ ResendFails(r)
      PROVE  OrderingInv' /\ LogsGrow
  <2>1. /\ resends' = resends \ {r} /\ UNCHANGED <<chain, input, done, enabled, log, lost>>
        /\ out' = out \/ (out = "open" /\ out' = "error")
    BY <1>6 DEF ResendEnds, ResendFails
  <2>2. /\ LogsGrow /\ NothingLostAtTheEnd' /\ log' \in [Publishers -> Seq(Entry)]
        /\ \A p \in Publishers : ChainFits(p, chain'[p]) /\ LogFits(p)'
    BY <1>1, <2>1, LogsStay
  <2>3. OrderingTypeOK' /\ ResendsFit' /\ EndFits'
    BY <1>1, <2>1 DEF OrderingTypeOK, ResendsFit, EndFits
  <2>4. QED
    BY <2>2, <2>3 DEF OrderingInv
<1>7. ASSUME NEW r \in resends, ResendFindsNoStorage(r)
      PROVE  OrderingInv' /\ LogsGrow
  <2>1. /\ resends' = resends \ {r} /\ enabled' = FALSE /\ UNCHANGED <<input, out, done, log, lost>>
        /\ chain' = [p \in Publishers |-> Disable(chain[p])]
    BY <1>7 DEF ResendFindsNoStorage
  <2>2. ASSUME NEW p \in Publishers
        PROVE  /\ ChainFits(p, chain'[p]) /\ chain'[p] \in Chains
               /\ chain'[p].queue = chain[p].queue /\ chain'[p].last = chain[p].last
    <3> DEFINE d == Disable(chain[p])
    <3>1. /\ ChainFits(p, d) /\ d.queue = chain[p].queue /\ d.last = chain[p].last
          /\ d.maxRequests = 0 /\ d.emitted = <<>> /\ d.asked = {} /\ d.raised = {}
      BY <1>1, DisableGoesOn
    <3>2. chain'[p] = d
      BY <2>1
    <3> HIDE DEF d
    <3>3. d \in Chains
      BY <3>1 DEF ChainFits, PartOf, ChainState, Chains
    <3>4. QED
      BY <3>1, <3>2, <3>3
  <2>3. /\ LogsGrow /\ NothingLostAtTheEnd' /\ log' \in [Publishers -> Seq(Entry)]
        /\ \A p \in Publishers : ChainFits(p, chain'[p]) /\ LogFits(p)'
    BY <2>1, <2>2, LogsStay
  <2>4. chain' \in [Publishers -> Chains]
    BY <2>1, <2>2
  <2>5. OrderingTypeOK'
    BY <1>1, <2>1, <2>3, <2>4 DEF OrderingTypeOK, Chains, NothingLostAtTheEnd
  <2>6. EndFits'
    BY <1>1, <2>1, <2>2 DEF EndFits
  <2>7. ResendsFit'
    <3> SUFFICES ASSUME NEW s \in resends
                 PROVE  \/ s.to <= chain'[s.pub].last
                        \/ \E m \in chain'[s.pub].queue : s.to < m.ref
      BY <2>1 DEF ResendsFit
    <3>1. s.pub \in Publishers
      BY <1>1
    <3>2. QED
      BY <1>1, <2>2, <3>1 DEF ResendsFit
  <2>8. QED
    BY <2>3, <2>5, <2>6, <2>7 DEF OrderingInv
<1>8. ASSUME CloseInput PROVE OrderingInv' /\ LogsGrow
  <2>1. /\ input' = "closed" /\ UNCHANGED <<chain, resends, done, enabled, log, lost>>
        /\ out' = out \/ (out' = "ended" /\ \A p \in Publishers : chain[p].queue = {})
    BY <1>8 DEF CloseInput
  <2>2. /\ LogsGrow /\ NothingLostAtTheEnd' /\ log' \in [Publishers -> Seq(Entry)]
        /\ \A p \in Publishers : ChainFits(p, chain'[p]) /\ LogFits(p)'
    BY <1>1, <2>1, LogsStay
  <2>3. OrderingTypeOK' /\ ResendsFit' /\ EndFits'
    BY <1>1, <2>1 DEF OrderingTypeOK, ResendsFit, EndFits
  <2>4. QED
    BY <2>2, <2>3 DEF OrderingInv
<1>9. ASSUME Finish PROVE OrderingInv' /\ LogsGrow
  <2>1. /\ done' = TRUE /\ resends' = {} /\ UNCHANGED <<input, out, enabled, log, lost>>
        /\ chain' = [p \in Publishers |-> ClearGap(chain[p])]
    BY <1>9 DEF Finish
  <2>2. ASSUME NEW p \in Publishers
        PROVE  ChainFits(p, chain'[p]) /\ chain'[p] \in Chains /\ chain'[p].last = chain[p].last
    <3> DEFINE d == ClearGap(chain[p])
    <3>1. d = [chain[p] EXCEPT !.pending = FALSE, !.first = FALSE, !.next = FALSE]
      BY DEF ClearGap
    <3>2. chain'[p] = d
      BY <2>1
    <3> HIDE DEF d
    <3>3. /\ d \in ChainState /\ d.queue = chain[p].queue /\ d.last = chain[p].last
          /\ d.maxRequests = chain[p].maxRequests /\ d.emitted = chain[p].emitted
          /\ d.asked = chain[p].asked /\ d.raised = chain[p].raised
      BY <1>1, <3>1 DEF ChainState
    <3>4. d \in Chains
      BY <1>1, <3>3 DEF ChainState, Chains
    <3>5. QED
      BY <1>1, <3>2, <3>3, <3>4, SameQueueFits
  <2>3. /\ LogsGrow /\ NothingLostAtTheEnd' /\ log' \in [Publishers -> Seq(Entry)]
        /\ \A p \in Publishers : ChainFits(p, chain'[p]) /\ LogFits(p)'
    BY <2>1, <2>2, LogsStay
  <2>4. chain' \in [Publishers -> Chains]
    BY <2>1, <2>2
  <2>5. OrderingTypeOK' /\ ResendsFit' /\ EndFits'
    BY <1>1, <2>1, <2>3, <2>4 DEF OrderingTypeOK, Chains, NothingLostAtTheEnd, ResendsFit, EndFits
  <2>6. QED
    BY <2>3, <2>5 DEF OrderingInv
<1>10. CASE UNCHANGED orderingVars
  <2>1. UNCHANGED <<chain, resends, input, out, done, enabled, log, lost>>
    BY <1>10 DEF orderingVars
  <2>2. /\ LogsGrow /\ NothingLostAtTheEnd' /\ log' \in [Publishers -> Seq(Entry)]
        /\ \A p \in Publishers : ChainFits(p, chain'[p]) /\ LogFits(p)'
    BY <1>1, <2>1, LogsStay
  <2>3. OrderingTypeOK' /\ ResendsFit' /\ EndFits'
    BY <1>1, <2>1 DEF OrderingTypeOK, ResendsFit, EndFits
  <2>4. QED
    BY <2>2, <2>3 DEF OrderingInv
<1>11. QED
  BY <1>2, <1>3, <1>4, <1>5, <1>6, <1>7, <1>8, <1>9, <1>10 DEF OrderingNext

\* OrderedMsgChain, OrderMessages: the invariant that what follows rests on.
THEOREM OrderingInvHolds == OrderingSpec => []OrderingInv
<1>1. OrderingInit => OrderingInv
  BY OrderingInitHolds
<1>2. OrderingInv /\ [OrderingNext]_orderingVars => OrderingInv'
  BY OrderingNextKeeps
<1>3. QED
  BY <1>1, <1>2, PTL DEF OrderingSpec

\* The state of the ordering stage has its types, whatever is received, resent or given up.
THEOREM OrderingTyped == OrderingSpec => []OrderingTypeOK
BY OrderingInvHolds, PTL DEF OrderingInv

\* OrderMessages: no message is put in order after the output stream was ended.
THEOREM NothingIsRefused == OrderingSpec => []NothingLostAtTheEnd
BY OrderingInvHolds, PTL DEF OrderingInv

\* OrderedMsgChain: what a subscriber receives of each publisher is in order, without repetition
\* and without a hole that was not given up, whatever is lost, repeated, resent or marked.
THEOREM DeliveredInOrder == OrderingSpec => DeliversInOrder
<1>1. OrderingInit => Abstract!Init
  BY DEF OrderingInit, Abstract!Init
<1>2. OrderingInv /\ [OrderingNext]_orderingVars => [Abstract!Next]_log
  <2> SUFFICES ASSUME OrderingInv, [OrderingNext]_orderingVars PROVE Abstract!Next
    OBVIOUS
  <2>1. OrderingInv' /\ LogsGrow
    BY OrderingNextKeeps
  <2>2. ASSUME NEW p \in Publishers PROVE Abstract!Grow(p)
    <3>1. PICK e \in Seq(Entry) : log'[p] = log[p] \o e
      BY <2>1 DEF LogsGrow
    <3>2. log[p] \in Seq(Entry)
      BY DEF OrderingInv
    <3>3. /\ Len(log[p]) \in Nat /\ Len(log'[p]) = Len(log[p]) + Len(e) /\ Len(e) \in Nat
          /\ log'[p] \in Seq(Entry)
          /\ \A i \in 1 .. Len(log[p]) : log'[p][i] = log[p][i]
      BY <3>1, <3>2, ConcatProperties, LenProperties
    <3>4. SubSeq(log'[p], 1, Len(log[p])) = log[p]
      <4>1. \A i \in 1 .. Len(log[p]) : log'[p][i] \in Entry
        BY <3>3, ElementOfSeq
      <4> DEFINE s == SubSeq(log'[p], 1, Len(log[p]))
      <4>2. /\ s \in Seq(Entry) /\ Len(s) = Len(log[p])
            /\ \A i \in 1 .. Len(log[p]) : s[i] = log'[p][i]
        BY <3>3, <4>1, SubSeqProperties
      <4> HIDE DEF s
      <4>3. s = log[p]
        BY <3>2, <3>3, <4>2, SeqEqual
      <4>4. QED
        BY <4>3 DEF s
    <3>5. Abstract!Legal(p, log'[p])
      BY <2>1 DEF OrderingInv, LogFits, LegalAfter, Abstract!Legal, NoRef, Abstract!Follows, Abstract!PrevOf
    <3>6. QED
      BY <3>3, <3>4, <3>5 DEF Abstract!Grow
  <2>3. QED
    BY <2>2 DEF Abstract!Next
<1>3. QED
  BY <1>1, <1>2, OrderingInvHolds, PTL DEF OrderingSpec, DeliversInOrder, Abstract!Spec

=============================================================================
