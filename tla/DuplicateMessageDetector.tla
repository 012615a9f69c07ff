---------------------- MODULE DuplicateMessageDetector ----------------------
(***************************************************************************)
(* The duplicate detector a node keeps for each (publisher, message chain) *)
(* of a stream: network/src/logic/DuplicateMessageDetector.ts.             *)
(*                                                                         *)
(* A message carries its number and the number of the message its          *)
(* publisher sent before it (or none).  The detector stores the half-open  *)
(* intervals (lo, hi] that may still hold unseen numbers.  NumberPair is a *)
(* total order, so a pair is represented by its rank, and the pair         *)
(* (Infinity, Infinity) by a rank above all the others.                    *)
(***************************************************************************)
EXTENDS Integers, Sequences

CONSTANTS
    Numbers,    \* ranks of the message numbers
    Infinity,   \* the upper bound of the last gap
    NoPrev,     \* previousNumber === null
    MaxGaps,    \* maxNumberOfGaps
    LinkSets    \* the sets of (previous, number) pairs a publisher may be sending

Links == (Numbers \cup {NoPrev}) \X Numbers

ASSUME RanksAssumption ==
    /\ Numbers \subseteq Int
    /\ Infinity \in Int
    /\ \A n \in Numbers : n < Infinity
ASSUME NoPrevAssumption == NoPrev \notin Int
ASSUME MaxGapsAssumption == MaxGaps \in Nat \ {0}
ASSUME LinkSetsAssumption == LinkSets \subseteq SUBSET Links

VARIABLES
    gaps,       \* the gaps, in the order of the array
    links,      \* the messages of this publisher's chain (they may arrive any number of times)
    newReports, \* history: how often each number was reported as not yet seen
    verdict     \* history: what markAndCheck answered last, and for which number

vars == <<gaps, links, newReports, verdict>>

Gap == [lo : Int, hi : Int]

\* The answers: true, and false or an exception that leave the gaps alone.
AnswerNew(n) ==
    /\ verdict' = [kind |-> "new", number |-> n]
    /\ newReports' = [newReports EXCEPT ![n] = @ + 1]
Answer(kind, n) ==
    /\ verdict' = [kind |-> kind, number |-> n]
    /\ UNCHANGED <<gaps, newReports>>

-----------------------------------------------------------------------------
(* markAndCheck, one action per way it returns or throws.                  *)

\* previousNumber >= number: InvalidNumberingError is thrown before any change.
MarkInvalid(prev, n) ==
    /\ prev # NoPrev
    /\ prev >= n
    /\ Answer("invalid", n)

Valid(prev, n) == prev # NoPrev => prev < n

\* The first number ever marked is new whatever its predecessor is.
MarkFirst(prev, n) ==
    /\ Valid(prev, n)
    /\ gaps = <<>>
    /\ gaps' = <<[lo |-> n, hi |-> Infinity]>>
    /\ AnswerNew(n)

\* Without a previous number only the latest known number is compared.
MarkUnchained(prev, n) ==
    /\ prev = NoPrev
    /\ gaps # <<>>
    /\ IF n > gaps[Len(gaps)].lo
       THEN gaps' = [gaps EXCEPT ![Len(gaps)].lo = n] /\ AnswerNew(n)
       ELSE Answer("duplicate", n)

\* One iteration of the loop returns or throws at gap i.
Fires(i, prev, n) == prev >= gaps[i].hi \/ n > gaps[i].lo

\* The loop runs from the highest gap to the lowest: i is where it stops.
StopsAt(i, prev, n) ==
    /\ i \in 1 .. Len(gaps)
    /\ Fires(i, prev, n)
    /\ \A j \in i + 1 .. Len(gaps) : ~ Fires(j, prev, n)

\* Mutation: the number just marked stays in the upper part.
RemainderWithNumber(g, prev, n) ==
    (IF prev = g.lo THEN <<>> ELSE <<[lo |-> g.lo, hi |-> prev]>>)
    \o (IF n = g.hi THEN <<>> ELSE <<[lo |-> n - 1, hi |-> g.hi]>>)

\* Mutation: the lower part ends before the predecessor.
RemainderShort(g, prev, n) ==
    (IF prev = g.lo THEN <<>> ELSE <<[lo |-> g.lo, hi |-> prev - 1]>>)
    \o (IF n = g.hi THEN <<>> ELSE <<[lo |-> n, hi |-> g.hi]>>)

\* What is left of gap g once (prev, n) is known to hold no unseen number but n: nothing, the
\* upper part, the lower part or both.
Remainder(g, prev, n) ==
    (IF prev = g.lo THEN <<>> ELSE <<[lo |-> g.lo, hi |-> prev]>>)
    \o (IF n = g.hi THEN <<>> ELSE <<[lo |-> n, hi |-> g.hi]>>)

\* this.gaps with gap i replaced by the gaps of r.
Spliced(i, r) == SubSeq(gaps, 1, i - 1) \o r \o SubSeq(gaps, i + 1, Len(gaps))

\* dropLowestGapIfOverMaxNumberOfGaps
DropLowestGap(s) == IF Len(s) > MaxGaps THEN Tail(s) ELSE s

\* The number lies in the gap the loop stops at: it is new, and the gap shrinks or splits.
MarkInGap(prev, n) ==
    /\ prev # NoPrev /\ prev < n
    /\ \E i \in 1 .. Len(gaps) :
         /\ StopsAt(i, prev, n)
         /\ prev < gaps[i].hi /\ prev >= gaps[i].lo /\ n <= gaps[i].hi
         /\ gaps' = DropLowestGap(Spliced(i, Remainder(gaps[i], prev, n)))
    /\ AnswerNew(n)

\* The number lies between two gaps, or below all of them.
MarkSeen(prev, n) ==
    /\ prev # NoPrev /\ prev < n
    /\ gaps # <<>>
    /\ \A i \in 1 .. Len(gaps) : StopsAt(i, prev, n) => prev >= gaps[i].hi
    /\ Answer("duplicate", n)

\* (prev, n) crosses a bound of a gap: GapMisMatchError is thrown, nothing changes.
MarkMismatch(prev, n) ==
    /\ prev # NoPrev /\ prev < n
    /\ \E i \in 1 .. Len(gaps) :
         /\ StopsAt(i, prev, n)
         /\ prev < gaps[i].hi
         /\ prev < gaps[i].lo \/ n > gaps[i].hi
    /\ Answer("mismatch", n)

MarkAndCheck(prev, n) ==
    \/ MarkInvalid(prev, n)
    \/ MarkFirst(prev, n)
    \/ MarkUnchained(prev, n)
    \/ MarkInGap(prev, n)
    \/ MarkSeen(prev, n)
    \/ MarkMismatch(prev, n)

Init ==
    /\ gaps = <<>>
    /\ links \in LinkSets
    /\ newReports = [n \in Numbers |-> 0]
    /\ verdict = [kind |-> "none", number |-> Infinity]

Next ==
    /\ \E link \in links : MarkAndCheck(link[1], link[2])
    /\ UNCHANGED links

Spec == Init /\ [][Next]_vars

-----------------------------------------------------------------------------
(* Properties.                                                             *)

\* The gaps are pairs of numbers, and a verdict is one of the five the method can give.
TypeOK ==
    /\ gaps \in Seq(Gap)
    /\ links \in SUBSET Links
    /\ newReports \in [Numbers -> Nat]
    /\ verdict \in [kind : {"none", "new", "duplicate", "invalid", "mismatch"},
                    number : Numbers \cup {Infinity}]

\* The invariants the comment after the splice claims: no gap is empty, gaps ascend without
\* touching, the last one is open to Infinity; and the limit on their number holds.
Ascending(s) ==
    /\ \A i \in 1 .. Len(s) : s[i].lo < s[i].hi
    /\ \A i, j \in 1 .. Len(s) : i < j => s[i].hi < s[j].lo
OpenEnded(s) == s # <<>> => s[Len(s)].hi = Infinity

GapsAreOrdered ==
    /\ Ascending(gaps)
    /\ OpenEnded(gaps)
    /\ Len(gaps) <= MaxGaps

\* Whatever (previous, number) pairs arrive, in whatever order and however often, a number that
\* was once reported as new is never reported as new again: a node emits and forwards a message
\* at most once.
NewAtMostOnce == \A n \in Numbers : newReports[n] <= 1

\* The links of an honest publisher: each message of the chain C names the one before it.
Predecessor(C, n) ==
    IF \A m \in C : m >= n THEN NoPrev
    ELSE CHOOSE p \in C : p < n /\ \A m \in C : m < n => m <= p
ChainLinks(C) == { <<Predecessor(C, n), n>> : n \in C }
Honest == links = ChainLinks({ link[2] : link \in links })

\* A message of an honest publisher never makes the detector throw, and it is dropped as a
\* duplicate only when it was accepted before or lies below the lowest gap that is still kept
\* (a gap is given up only when more than maxNumberOfGaps are open).
HonestMessagesGetThrough ==
    [][Honest =>
         \/ verdict'.kind = "new"
         \/ /\ verdict'.kind = "duplicate"
            /\ newReports[verdict'.number] = 0 => verdict'.number < gaps[1].lo]_vars

=============================================================================
