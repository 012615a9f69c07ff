--------------------------- MODULE OrderedMsgChain --------------------------
(***************************************************************************)
(* The queue that puts the messages of one publisher's chain in order and  *)
(* asks for missing ones: protocol/src/utils/OrderedMsgChain.ts.           *)
(*                                                                         *)
(* Every method runs to completion without yielding, so each is a function *)
(* from the chain's state to the state it leaves behind; what it hands out *)
(* on the way is collected, in order, in `emitted`, what it asks for and   *)
(* raises in `asked` and `raised`.                                         *)
(* A MessageRef (timestamp, sequenceNumber) is totally ordered and is      *)
(* represented by its rank; 0 stands for null.                             *)
(***************************************************************************)
EXTENDS Integers, Sequences, FiniteSets, SequencesExt

NoRef == 0

Msg == [ref : Nat \ {NoRef}, prev : Nat]

Entry == [kind : {"deliver", "skip", "gap"}, ref : Nat]

ChainState ==
    [queue : SUBSET Msg,         \* MsgChainQueue
     last : Nat,                 \* lastOrderedMsgRef
     pending : BOOLEAN,          \* hasPendingGap
     requests : Nat,             \* gapRequestCount
     maxRequests : Nat,          \* maxGapRequests
     first : BOOLEAN,            \* the propagation timeout firstGap is armed
     next : BOOLEAN,             \* the resend interval nextGaps is armed
     marked : SUBSET Msg,        \* markedExplicitly
     emitted : Seq(Entry),
     asked : SUBSET Nat,         \* the upper ends of the gaps to fill
     raised : SUBSET [event : {"drain", "error"}, empty : BOOLEAN]]

NewChain(maxRequests) ==
    [queue |-> {}, last |-> NoRef, pending |-> FALSE, requests |-> 0,
     maxRequests |-> maxRequests, first |-> FALSE, next |-> FALSE, marked |-> {},
     emitted |-> <<>>, asked |-> {}, raised |-> {}]

Emit(c, entries) == [c EXCEPT !.emitted = @ \o entries]
Raise(c, event) == [c EXCEPT !.raised = @ \cup {[event |-> event, empty |-> c.queue = {}]}]

GapHandlingEnabled(c) == c.maxRequests > 0

-----------------------------------------------------------------------------

\* Mutation: the message at the last position is not recognised.
StaleButEqual(c, m) == m \in c.queue \/ (c.last # NoRef /\ m.ref < c.last)

\* isStaleMessage
Stale(c, m) == m \in c.queue \/ (c.last # NoRef /\ m.ref <= c.last)

\* The head of the queue, as the heap hands it out.
Peek(c) == CHOOSE m \in c.queue : \A n \in c.queue : m.ref <= n.ref

\* hasNextMessageInChain, for message m after `last`
NextInChain(m, last) ==
    \/ last = NoRef
    \/ IF m.prev # NoRef THEN m.prev = last ELSE m.ref > last

\* The reference that precedes message m when the queue is popped in order.
Before(c, m) ==
    LET lower == { n \in c.queue : n.ref < m.ref }
    IN  IF lower = {} THEN c.last ELSE Max({ n.ref : n \in lower })

\* The messages the loop of checkQueue pops: those up to the first one that is not next after
\* the one before it.
Ready(c) ==
    LET blocked == { n \in c.queue : ~ NextInChain(n, Before(c, n)) }
    IN  { m \in c.queue : \A n \in blocked : m.ref < n.ref }

\* The messages in the order of their references.
InOrder(messages) ==
    [i \in 1 .. Cardinality(messages) |->
        CHOOSE m \in messages : Cardinality({ n \in messages : n.ref < m.ref }) = i - 1]

\* pop: a marked message is skipped, unless gap handling is disabled.
Popped(c, m) ==
    [kind |-> IF m \in c.marked /\ GapHandlingEnabled(c) THEN "skip" ELSE "deliver",
     ref |-> m.ref]

ClearGap(c) == [c EXCEPT !.pending = FALSE, !.first = FALSE, !.next = FALSE]

ScheduleGap(c) ==
    IF c.pending THEN c
    ELSE [c EXCEPT !.requests = 0, !.pending = TRUE, !.first = TRUE]

CheckQueue(c) ==
    LET ready == Ready(c)
        run == InOrder(ready)
        popped == [Emit(c, [i \in DOMAIN run |-> Popped(c, run[i])]) EXCEPT
                     !.queue = @ \ ready,
                     !.marked = @ \ ready,
                     !.last = IF ready = {} THEN @ ELSE Last(run).ref]
    IN  IF popped.queue # {} THEN ScheduleGap(popped)
        ELSE IF Cardinality(ready) > 1
             THEN Raise(ClearGap(popped), "drain")
             ELSE popped

\* add: with gap handling disabled every message is marked on its way in.
Add(c, m) ==
    IF Stale(c, m) THEN c
    ELSE CheckQueue([c EXCEPT !.queue = @ \cup {m},
                              !.marked = IF GapHandlingEnabled(c) THEN @ ELSE @ \cup {m}])

MarkExplicitly(c, m) ==
    IF Stale(c, m) THEN c ELSE Add([c EXCEPT !.marked = @ \cup {m}], m)

Disable(c) == CheckQueue(ClearGap([c EXCEPT !.maxRequests = 0]))

\* requestGapFill: ask for what lies between the last message and the head of the queue, or,
\* when the requests are used up, skip the gap and go on.  The error is raised while the
\* queue still holds the blocked message.
RequestGapFill(c) ==
    IF ~ c.pending \/ c.queue = {} \/ c.last = NoRef THEN c
    ELSE LET to == Peek(c).prev IN
         IF c.requests < c.maxRequests
         THEN [c EXCEPT !.requests = @ + 1, !.asked = @ \cup {to}]
         ELSE LET skipped == Emit([c EXCEPT !.last = to], <<[kind |-> "gap", ref |-> to]>>)
                  failed == IF GapHandlingEnabled(c) THEN Raise(skipped, "error") ELSE skipped
              IN  CheckQueue(ClearGap(failed))

\* Mutation: the interval is never started.
PropagationTimeoutOnly(c) == RequestGapFill([c EXCEPT !.first = FALSE])

\* The callback of the timeout: one attempt, then the interval if a gap is still pending.
PropagationTimeout(c) ==
    LET tried == RequestGapFill([c EXCEPT !.first = FALSE])
    IN  IF tried.pending THEN [tried EXCEPT !.next = TRUE] ELSE tried

\* The callback of the interval.
ResendTimeout(c) ==
    IF ~ c.pending THEN [c EXCEPT !.next = FALSE] ELSE RequestGapFill(c)

=============================================================================
