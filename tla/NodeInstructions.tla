-------------------------- MODULE NodeInstructions --------------------------
(***************************************************************************)
(* How a node carries out the instructions of a tracker for one stream:    *)
(* Node.handleTrackerInstruction, the InstructionThrottler in front of it, *)
(* the InstructionRetryManager behind it and the stream's entry in the     *)
(* StreamManager (network/src/logic).                                      *)
(*                                                                         *)
(* A handler runs without yielding up to the await of the connections it   *)
(* asked for; other handlers, timers and calls run while it waits.  The    *)
(* in-flight handlers occupy the slots of `handlers`.                      *)
(***************************************************************************)
EXTENDS Integers, FiniteSets

CONSTANTS
    Peers,
    Instructions,   \* the instructions the tracker may send: [counter, nodeIds]
    RetryLimit,     \* statusSendCounterLimit
    Slots,          \* bound: how many handlers may be in flight
    None

VARIABLES
    isSetUp,    \* the stream is set up in the StreamManager
    neighbors,  \* its inboundNodes and outboundNodes (they are always changed together)
    counter,    \* its counter: that of the last instruction handled
    queue,      \* throttler: the instruction waiting to be handled
    seen,       \* throttler: instructionCounter, 0 if undefined
    retry,      \* retry manager: the instruction its timer is armed with, and the retry counter
    handlers,   \* the invocations of handleTrackerInstruction in flight
    stopped,    \* stop() was called
    status,     \* history: the counter of the last status sent, -1 for an unsubscription
    latest,     \* history: the last instruction the throttler had handled
    silent      \* history: retries since the last one that was to send a status (capped)

throttler == <<queue, seen>>
stream == <<isSetUp, neighbors, counter>>
history == <<latest, silent>>
vars == <<stream, throttler, retry, handlers, stopped, status, history>>

Handler ==
    [instruction : Instructions,
     reattempt : BOOLEAN,
     by : {"throttler", "retry", "cancelled"},   \* who waits for it to finish
     waiting : SUBSET Peers,                     \* connections not settled
     failed : BOOLEAN]                           \* one of them was not made

Retry == [instruction : Instructions, counter : 0 .. RetryLimit]

InFlight == { s \in Slots : handlers[s] # None }
Holders == { s \in InFlight : handlers[s].by = "throttler" }

\* A handler whose connections are settled goes on before anything else happens: its
\* continuation is a microtask, all that comes from outside are tasks of their own.
Settled(s) == handlers[s] # None /\ handlers[s].waiting = {}
NextTask == \A s \in Slots : ~ Settled(s)

\* The slot a new handler takes.
Free == Slots \ InFlight
FreeSlot == CHOOSE s \in Free : TRUE

-----------------------------------------------------------------------------
(* handleTrackerInstruction                                                *)

\* What is sent by prepareAndSendStreamStatus.
CurrentStatus == IF isSetUp THEN counter ELSE -1

\* The handler up to its await, in slot s: the retry is armed anew, the stream is set up if
\* need be, neighbors that are not in the instruction are dropped and the others connected to.
Starts(s, instruction, reattempt, by) ==
    /\ retry' = IF stopped THEN retry ELSE [instruction |-> instruction, counter |-> 0]
    /\ isSetUp' = TRUE
    /\ neighbors' = IF isSetUp THEN neighbors \cap instruction.nodeIds ELSE {}
    /\ handlers' = [handlers EXCEPT ![s] =
            [instruction |-> instruction, reattempt |-> reattempt, by |-> by,
             waiting |-> instruction.nodeIds, failed |-> FALSE]]

\* One of the handler's connections is settled.
SettleOne(handler, p, failed) ==
    [handler EXCEPT !.waiting = @ \ {p}, !.failed = @ \/ failed]

\* A connection is made: the peer becomes a neighbor, unless the stream was removed meanwhile.
Connected(s, p) ==
    /\ NextTask
    /\ handlers[s] # None /\ p \in handlers[s].waiting
    /\ neighbors' = IF isSetUp THEN neighbors \cup {p} ELSE neighbors
    /\ handlers' = [handlers EXCEPT ![s] = SettleOne(@, p, ~ isSetUp)]
    /\ UNCHANGED <<isSetUp, counter, throttler, retry, stopped, status, history>>

\* It fails or times out.
ConnectFails(s, p) ==
    /\ NextTask
    /\ handlers[s] # None /\ p \in handlers[s].waiting
    /\ handlers' = [handlers EXCEPT ![s] = SettleOne(@, p, TRUE)]
    /\ UNCHANGED <<stream, throttler, retry, stopped, status, history>>

-----------------------------------------------------------------------------
(* The handler after its await, and whoever waits for it.                  *)

\* updateCounter, unless the stream was removed meanwhile.
CounterAfter(s) == IF isSetUp THEN handlers[s].instruction.counter ELSE counter

\* Mutation: a status is sent only if a connection failed.
StatusOnFailure(s) ==
    IF handlers[s].failed THEN IF isSetUp THEN CounterAfter(s) ELSE -1 ELSE status

\* Reattempts send a status only if they failed.
StatusAfter(s) ==
    IF ~ handlers[s].reattempt \/ handlers[s].failed
    THEN IF isSetUp THEN CounterAfter(s) ELSE -1
    ELSE status

\* It was started by the throttler (invokeHandleFnWithLock), which goes on with the instruction
\* that is queued, if any.
ThrottledEnds(s) ==
    /\ Settled(s) /\ handlers[s].by = "throttler"
    /\ counter' = CounterAfter(s)
    /\ status' = StatusAfter(s)
    /\ IF queue = None \/ stopped
       THEN /\ handlers' = [handlers EXCEPT ![s] = None]
            /\ UNCHANGED <<isSetUp, neighbors, retry, queue, history>>
       ELSE /\ Starts(s, queue, FALSE, "throttler")
            /\ queue' = None
            /\ latest' = queue
            /\ silent' = 0
    /\ UNCHANGED <<seen, stopped>>

\* Mutation: the entry is made again if the stream was removed.
RearmedAlways(instruction) == [instruction |-> instruction, counter |-> 1]

\* retryFunction after its await: the timer is armed again with the instruction just retried,
\* if the stream has not been removed.
Rearmed(instruction) ==
    IF retry = None THEN None
    ELSE [instruction |-> instruction,
          counter |-> IF retry.counter >= RetryLimit THEN 0 ELSE retry.counter + 1]

RetryEnds(s) ==
    /\ Settled(s) /\ handlers[s].by = "retry"
    /\ counter' = CounterAfter(s)
    /\ status' = StatusAfter(s)
    /\ handlers' = [handlers EXCEPT ![s] = None]
    /\ retry' = Rearmed(handlers[s].instruction)
    /\ UNCHANGED <<isSetUp, neighbors, throttler, stopped, history>>

\* Nobody waits for a handler whose promise was cancelled.
CancelledEnds(s) ==
    /\ Settled(s) /\ handlers[s].by = "cancelled"
    /\ counter' = CounterAfter(s)
    /\ status' = StatusAfter(s)
    /\ handlers' = [handlers EXCEPT ![s] = None]
    /\ UNCHANGED <<isSetUp, neighbors, throttler, retry, stopped, history>>

-----------------------------------------------------------------------------
(* The calls and timers.                                                   *)

Accepts(instruction) == seen = 0 \/ seen <= instruction.counter

Busy == Holders # {}

\* InstructionThrottler.add: handled at once, or kept until the current one has been handled.
ReceiveInstruction(instruction) ==
    /\ NextTask
    /\ ~ stopped
    /\ Accepts(instruction)
    /\ seen' = instruction.counter
    /\ IF Busy
       THEN /\ queue' = instruction
            /\ UNCHANGED <<stream, retry, handlers, history>>
       ELSE /\ Free # {}
            /\ Starts(FreeSlot, instruction, FALSE, "throttler")
            /\ counter' = IF isSetUp THEN counter ELSE 0
            /\ queue' = None
            /\ latest' = instruction
            /\ silent' = 0
    /\ UNCHANGED <<stopped, status>>

\* The timer of the retry manager.  A handler lasts at most nodeConnectTimeout (15 s) and armed
\* the timer when it started, to fire after instructionRetryInterval (60 s): none is in flight.
RetryFires ==
    /\ retry # None
    /\ InFlight = {} /\ Free # {}
    /\ Starts(FreeSlot, retry.instruction, retry.counter # 0, "retry")
    /\ silent' = IF retry.counter = 0 THEN 0
                 ELSE IF silent <= RetryLimit THEN silent + 1 ELSE silent
    /\ counter' = IF isSetUp THEN counter ELSE 0
    /\ UNCHANGED <<throttler, stopped, status, latest>>

\* subscribeToStreamIfHaveNotYet, by the user of the node or by data that arrives late.
Subscribe ==
    /\ NextTask
    /\ ~ isSetUp
    /\ isSetUp' = TRUE /\ neighbors' = {} /\ counter' = 0
    /\ status' = 0
    /\ UNCHANGED <<throttler, retry, handlers, stopped, history>>

\* unsubscribeFromStream: the promise of the current handler is cancelled, the handler itself
\* goes on.  A node that was stopped leaves the throttler and the retry manager alone.
Unsubscribe ==
    /\ NextTask
    /\ isSetUp
    /\ isSetUp' = FALSE /\ neighbors' = {} /\ counter' = 0
    /\ IF stopped
       THEN UNCHANGED <<throttler, retry, handlers>>
       ELSE /\ queue' = None /\ seen' = 0
            /\ handlers' = [s \in Slots |->
                 IF s \in Holders THEN [handlers[s] EXCEPT !.by = "cancelled"] ELSE handlers[s]]
            /\ retry' = None
    /\ status' = -1
    /\ UNCHANGED <<stopped, history>>

\* onNodeDisconnected
NodeDisconnected(p) ==
    /\ NextTask
    /\ p \in neighbors
    /\ neighbors' = neighbors \ {p}
    /\ status' = CurrentStatus
    /\ UNCHANGED <<isSetUp, counter, throttler, retry, handlers, stopped, history>>

\* stop
Stop ==
    /\ NextTask
    /\ ~ stopped
    /\ stopped' = TRUE
    /\ queue' = None /\ seen' = 0
    /\ handlers' = [s \in Slots |->
         IF s \in Holders THEN [handlers[s] EXCEPT !.by = "cancelled"] ELSE handlers[s]]
    /\ retry' = None
    /\ UNCHANGED <<stream, status, history>>

Init ==
    /\ isSetUp = FALSE /\ neighbors = {} /\ counter = 0
    /\ queue = None /\ seen = 0
    /\ retry = None
    /\ handlers = [s \in Slots |-> None]
    /\ stopped = FALSE
    /\ status = -1
    /\ latest = None
    /\ silent = 0

HandlerStep(s) ==
    \/ \E p \in Peers : Connected(s, p) \/ ConnectFails(s, p)
    \/ ThrottledEnds(s)
    \/ RetryEnds(s)
    \/ CancelledEnds(s)

Next ==
    \/ \E s \in Slots : HandlerStep(s)
    \/ \E instruction \in Instructions : ReceiveInstruction(instruction)
    \/ RetryFires
    \/ Subscribe
    \/ Unsubscribe
    \/ \E p \in Peers : NodeDisconnected(p)
    \/ Stop

\* Every connection attempt settles (promiseTimeout), and settled handlers go on.
Fairness == \A s \in Slots : WF_vars(HandlerStep(s))

Spec == Init /\ [][Next]_vars /\ Fairness

-----------------------------------------------------------------------------
(* Properties.                                                             *)

TypeOK ==
    /\ isSetUp \in BOOLEAN /\ neighbors \in SUBSET Peers /\ counter \in Nat
    /\ queue \in Instructions \cup {None}
    /\ seen \in Nat
    /\ retry \in Retry \cup {None}
    /\ handlers \in [Slots -> Handler \cup {None}]
    /\ stopped \in BOOLEAN
    /\ status \in Nat \cup {-1}
    /\ latest \in Instructions \cup {None}
    /\ silent \in 0 .. RetryLimit + 1

\* The throttler handles one instruction at a time, and an instruction in its queue has a
\* handler whose end will bring it up.
LockIsHeld ==
    /\ Cardinality(Holders) <= 1
    /\ queue # None => Holders # {}

\* From the first instruction on until the stream is removed a retry is armed, and after that
\* none: neither handlers that finish late nor their cancelled promises leave one behind or
\* lose it.
RetriedWhileSubscribed ==
    /\ retry # None <=> seen # 0
    /\ retry # None => isSetUp /\ ~ stopped

\* Neither the throttler's lock nor the retry timer is leaked or lost by handlers that overlap
\* with removals, retries and the stop of the node.
LockAndRetryAreKept == LockIsHeld /\ RetriedWhileSubscribed

\* Every instruction the throttler accepts is reported back to the tracker with its counter or
\* that of a later one, unless the stream is removed or the node is stopped: without the report
\* the tracker would ignore what the node says of the stream.
Pending(n) ==
    \/ queue # None /\ queue.counter = n
    \/ \E s \in Holders : handlers[s].instruction.counter = n
AcceptedIsReported ==
    \A n \in { i.counter : i \in Instructions } :
        Pending(n) ~> (status >= n \/ status = -1 \/ stopped)

\* "Instruction reattempts are updated properly per stream" (InstructionRetryManager.test.ts):
\* once a newer instruction has been handled, it is the one that is retried.
RetriesTheLatest == retry # None => retry.instruction = latest

\* "First and every nth instruction retries will always send status messages to tracker"
\* (InstructionRetryManager.retryFunction): no more than statusSendCounterLimit retries in a row
\* are made as silent reattempts.
EveryNthRetryReports == silent <= RetryLimit
=============================================================================
