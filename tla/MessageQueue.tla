------------------------------- MODULE MessageQueue ------------------------------
(***************************************************************************)
(* The messages a node sends to one peer (src/packages/network/src/        *)
(* connection/MessageQueue.ts and the sending half of WebRtcConnection.ts):*)
(* one queue that outlives the connections, and the loop that empties it   *)
(* while the data channel of the present connection is open. The loop runs *)
(* in one go, but the channel drains and closes on another thread: one     *)
(* action is one turn of the loop, during which no other listener or timer *)
(* runs. A message is known by its number.                                 *)
(***************************************************************************)
EXTENDS Integers, Sequences, SequencesExt

CONSTANTS Messages,   \* bound: a set 1..n of numbers
          TooLong,    \* messages longer than the channel takes
          MaxSize, MaxTries,
          Burst,      \* messages sent before the loop lets others run, 10
          Threshold   \* bufferThresholdHigh, in messages

ASSUME QueueAssumption ==
    /\ Messages \subseteq Nat \ {0} /\ TooLong \subseteq Messages
    /\ MaxSize \in Nat \ {0} /\ MaxTries \in Nat \ {0}
    /\ Burst \in Nat \ {0} /\ Threshold \in Nat \ {0}

VARIABLES
    queue,         \* of [message, tries]; a failed item leaves it at once
    promise,       \* message |-> "unsent", "waiting", "resolved", "rejected"
    connection,    \* "none", "connecting", "open": as JavaScript knows it
    isOpen,        \* of the data channel, as the other thread knows it
    buffered,      \* bufferedAmount, in messages
    lowEvent,      \* bufferedAmountLow is to be reported
    paused,
    flushRef, flushTimeoutRef,
    sends,         \* numOfSuccessSends of the loop under way, or -1
    resolvedOrder  \* history: messages in the order their promises resolve

channelVars == <<isOpen, buffered, lowEvent>>
timerVars == <<flushRef, flushTimeoutRef>>
vars == <<queue, promise, connection, channelVars, paused, timerVars, sends, resolvedOrder>>

Item == [message : Messages, tries : 0..MaxTries]

Init ==
    /\ queue = <<>> /\ promise = [m \in Messages |-> "unsent"]
    /\ connection = "none" /\ isOpen = FALSE /\ buffered = 0 /\ lowEvent = FALSE
    /\ paused = FALSE /\ flushRef = FALSE /\ flushTimeoutRef = FALSE
    /\ sends = -1 /\ resolvedOrder = <<>>

Idle == sends = -1
Reject(ms) == promise' = [m \in Messages |-> IF m \in ms THEN "rejected" ELSE promise[m]]

(***************************************************************************)
(* The connection comes and goes; the queue stays.                         *)
(***************************************************************************)
Connect ==
    /\ Idle /\ connection = "none"
    /\ connection' = "connecting" /\ paused' = FALSE
    /\ UNCHANGED <<queue, promise, channelVars, timerVars, sends, resolvedOrder>>
EmitOpen ==
    /\ Idle /\ connection = "connecting"
    /\ connection' = "open" /\ isOpen' = TRUE
    /\ flushRef' = TRUE
    /\ UNCHANGED <<queue, promise, buffered, lowEvent, paused, flushTimeoutRef, sends, resolvedOrder>>
\* The channel closes on its side, which is reported some time later.
ChannelCloses ==
    /\ isOpen /\ isOpen' = FALSE
    /\ UNCHANGED <<queue, promise, connection, buffered, lowEvent, paused, timerVars, sends, resolvedOrder>>
Close ==
    /\ Idle /\ connection # "none"
    /\ connection' = "none"
    /\ isOpen' = FALSE /\ buffered' = 0 /\ lowEvent' = FALSE
    /\ flushRef' = FALSE /\ flushTimeoutRef' = FALSE
    /\ UNCHANGED <<queue, promise, paused, sends, resolvedOrder>>

\* send() and MessageQueue.add: a full queue drops its oldest message.
\* Mutant: whoever sent the message that is dropped is not told.
Nobody(q) == {}
Oldest(q) == {Head(q).message}
Send(m) ==
    /\ Idle /\ connection # "none" /\ promise[m] = "unsent"
    /\ \A k \in Messages : k < m => promise[k] # "unsent"
    /\ LET dropped == IF Len(queue) = MaxSize THEN Oldest(queue) ELSE {}
           rest == IF Len(queue) = MaxSize THEN Tail(queue) ELSE queue
       IN  /\ promise' = [k \in Messages |->
                             IF k = m THEN "waiting" ELSE IF k \in dropped THEN "rejected" ELSE promise[k]]
           /\ queue' = Append(rest, [message |-> m, tries |-> 0])
    /\ flushRef' = TRUE
    /\ UNCHANGED <<connection, channelVars, paused, flushTimeoutRef, sends, resolvedOrder>>

\* The channel drains; when it was well filled that is reported.
Full == buffered >= Threshold
Drain ==
    /\ isOpen /\ buffered > 0
    /\ buffered' = 0 /\ lowEvent' \in {TRUE, lowEvent \/ Full}
    /\ UNCHANGED <<queue, promise, connection, isOpen, paused, timerVars, sends, resolvedOrder>>
EmitLowBackpressure ==
    /\ Idle /\ lowEvent
    /\ lowEvent' = FALSE
    /\ paused' = FALSE /\ flushRef' = (flushRef \/ paused)
    /\ UNCHANGED <<queue, promise, connection, isOpen, buffered, flushTimeoutRef, sends, resolvedOrder>>

(***************************************************************************)
(* attemptToFlushMessages, from setImmediate or the retry timer.           *)
(***************************************************************************)
FlushNow ==
    /\ Idle /\ flushRef /\ flushRef' = FALSE /\ sends' = 0
    /\ UNCHANGED <<queue, promise, connection, channelVars, paused, flushTimeoutRef, resolvedOrder>>
FlushLater ==
    /\ Idle /\ flushTimeoutRef /\ flushTimeoutRef' = FALSE /\ sends' = 0
    /\ UNCHANGED <<queue, promise, connection, channelVars, paused, flushRef, resolvedOrder>>

LoopGoesOn == ~Idle /\ queue # <<>> /\ isOpen
LoopEnds ==
    /\ ~Idle /\ ~LoopGoesOn
    /\ sends' = -1
    /\ UNCHANGED <<queue, promise, connection, channelVars, paused, timerVars, resolvedOrder>>
\* Mutant: the loop is left after a burst and does not come back.
LoopBreaksOff ==
    /\ LoopGoesOn /\ sends >= Burst
    /\ sends' = -1
    /\ UNCHANGED <<queue, promise, connection, channelVars, paused, timerVars, resolvedOrder>>
LoopYields ==
    /\ LoopGoesOn /\ sends >= Burst
    /\ sends' = -1 /\ flushRef' = TRUE
    /\ UNCHANGED <<queue, promise, connection, channelVars, paused, flushTimeoutRef, resolvedOrder>>

HeadMessage == Head(queue).message
DropTooLong ==
    /\ LoopGoesOn /\ sends < Burst /\ HeadMessage \in TooLong
    /\ queue' = Tail(queue) /\ Reject({HeadMessage})
    /\ UNCHANGED <<connection, channelVars, paused, timerVars, sends, resolvedOrder>>
Pause ==
    /\ LoopGoesOn /\ sends < Burst /\ HeadMessage \notin TooLong
    /\ paused \/ Full
    /\ paused' = TRUE /\ sends' = -1
    /\ UNCHANGED <<queue, promise, connection, channelVars, timerVars, resolvedOrder>>

Trying == LoopGoesOn /\ sends < Burst /\ HeadMessage \notin TooLong /\ ~paused /\ ~Full
Sent ==
    /\ Trying
    /\ queue' = Tail(queue)
    /\ promise' = [promise EXCEPT ![HeadMessage] = "resolved"]
    /\ resolvedOrder' = Append(resolvedOrder, HeadMessage)
    /\ buffered' = buffered + 1 /\ sends' = sends + 1
    /\ UNCHANGED <<connection, isOpen, lowEvent, paused, timerVars>>

\* processFailedMessage: after the last try the message is given up.
\* Mutant: a message that failed is queued again behind the others.
RequeuedAfterFailure ==
    IF Head(queue).tries + 1 = MaxTries THEN Tail(queue)
    ELSE Append(Tail(queue), [Head(queue) EXCEPT !.tries = @ + 1])
AfterFailure == IF Head(queue).tries + 1 = MaxTries THEN Tail(queue)
                ELSE [queue EXCEPT ![1].tries = @ + 1]
GivenUp == IF Head(queue).tries + 1 = MaxTries THEN {HeadMessage} ELSE {}
ProcessFailedMessage ==
    /\ queue' = AfterFailure /\ Reject(GivenUp)
    /\ flushTimeoutRef' = TRUE
    /\ UNCHANGED <<connection, buffered, lowEvent, paused, flushRef, resolvedOrder>>
\* sendMessage throws, and the loop is left to the timer.
SendThrows == Trying /\ ProcessFailedMessage /\ sends' = -1 /\ UNCHANGED isOpen
\* It returns false, or the channel was closed under way, and the loop goes on.
SendReturnsFalse == Trying /\ ProcessFailedMessage /\ isOpen' \in BOOLEAN /\ UNCHANGED sends

Looping ==
    \/ LoopEnds \/ LoopYields \/ DropTooLong \/ Pause
    \/ Sent \/ SendThrows \/ SendReturnsFalse
Next ==
    \/ Connect \/ EmitOpen \/ ChannelCloses \/ Close \/ Drain \/ EmitLowBackpressure
    \/ \E m \in Messages : Send(m)
    \/ FlushNow \/ FlushLater \/ Looping

\* Timers and immediates fire, the loop runs, and an open channel drains.
Fairness ==
    /\ WF_vars(FlushNow) /\ WF_vars(FlushLater) /\ WF_vars(Looping)
    /\ WF_vars(Drain) /\ WF_vars(EmitLowBackpressure)
Spec == Init /\ [][Next]_vars
FairSpec == Spec /\ Fairness

TypeOK ==
    /\ queue \in Seq(Item) /\ Len(queue) <= MaxSize
    /\ promise \in [Messages -> {"unsent", "waiting", "resolved", "rejected"}]
    /\ connection \in {"none", "connecting", "open"}
    /\ isOpen \in BOOLEAN /\ lowEvent \in BOOLEAN /\ paused \in BOOLEAN
    /\ flushRef \in BOOLEAN /\ flushTimeoutRef \in BOOLEAN
    /\ buffered \in 0..Threshold /\ sends \in -1..Burst
    /\ resolvedOrder \in Seq(Messages)

\* A promise is open exactly while its message is in the queue, once: messages
\* dropped, given up and sent, over one connection after the other, all settle.
PromisesMatchQueue ==
    \A m \in Messages :
        LET places == {i \in DOMAIN queue : queue[i].message = m}
        IN  IF promise[m] = "waiting" THEN \E i \in places : places = {i} ELSE places = {}

\* Messages go out in the order of send(), retries and new connections included.
SentInOrder ==
    \A i, j \in DOMAIN resolvedOrder : i < j => resolvedOrder[i] < resolvedOrder[j]

\* Both: a queue loses nobody's message, and turns none around.
MessagesAreKept == PromisesMatchQueue /\ SentInOrder

\* While the channel stays open, every message is sent, dropped or given up.
EveryMessageSettles ==
    \A m \in Messages : promise[m] = "waiting" ~> promise[m] # "waiting" \/ ~isOpen
==================================================================================
