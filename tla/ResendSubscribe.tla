----------------------------- MODULE ResendSubscribe -----------------------------
(***************************************************************************)
(* A subscription that begins with what is stored                          *)
(* (src/packages/client/src/subscribe/index.ts resendSubscribe, with       *)
(* resendStream.ts, messageStream.ts, pipeline.js, utils/iterators.js).    *)
(* Two queues listen to the connection from the start, one for the resent  *)
(* and one for the live messages; a pipeline ("source") reads the first to *)
(* its end and then the second, and the pipeline of the subscription       *)
(* ("sub") takes what it gives, brings it in order, leaves out what fails  *)
(* and hands the rest to the subscriber. 'resent' is told when the last    *)
(* resent message has been handled.                                        *)
(* The messages are of one chain, numbered, and come in order: filling     *)
(* gaps is OrderMessages, and the subscribing itself SubscriptionSession.  *)
(* The two ordering steps and what lies between them are one queue here    *)
(* (ordered). An action is a task of the event loop or a turn of its       *)
(* promises (Turn); a task waits while a turn is due, except that messages *)
(* may come several in one task, and cancel() may be called in any turn.   *)
(***************************************************************************)
EXTENDS PushQueue, FiniteSets

CONSTANTS Stored,   \* 1..Stored are in the storage
          Final,    \* 1..Final are published
          Bad       \* those that cannot be validated or decrypted

Pipelines == {"source", "sub"}

VARIABLES
    resends, realtime, ordered,     \* the queues
    toResend, toCome,               \* what the server sends next
    request,        \* for the resend: adding, asked, resending; over, none, cut, failed
    subscribing,    \* pending, in, failed
    reading,        \* what the source reads: new, resends, realtime, over
    current,        \* the last message read from resends
    isResendDone, lastResentMsgId, lastProcessedMsgId, resentEmitted,
    passed,         \* the ordering has passed messages up to here
    subscriber,     \* away, asking, handling, left
    handed,         \* the messages handed to the subscriber
    handedBefore,   \* how many of them before 'resent' was told
    life,           \* of each pipeline: open, ending, finally, closing, done
    cancelled,      \* of each pipeline
    waits           \* whether the onFinally of a pipeline waits for the other to be done

queues == <<resends, realtime, ordered>>
server == <<toResend, toCome, request, subscribing>>
marks == <<current, isResendDone, lastResentMsgId, lastProcessedMsgId, resentEmitted, handedBefore>>
reader == <<subscriber, handed>>
pipes == <<life, cancelled, waits>>
resendVars == <<queues, server, reading, marks, passed, reader, pipes>>

ResendInit ==
    /\ resends = NewQueue /\ realtime = NewQueue /\ ordered = NewQueue
    /\ toResend = 1 /\ toCome \in {Stored, Stored + 1} \ {0}
    /\ request = "adding" /\ subscribing = "pending" /\ reading = "new"
    /\ current = Nothing /\ lastResentMsgId = Nothing /\ lastProcessedMsgId = Nothing
    /\ isResendDone = FALSE /\ resentEmitted = FALSE /\ handedBefore = 0
    /\ passed = 0 /\ subscriber = "away" /\ handed = <<>>
    /\ life = [p \in Pipelines |-> "open"]
    /\ cancelled = [p \in Pipelines |-> FALSE] /\ waits = [p \in Pipelines |-> FALSE]

(***************************************************************************)
(* The request: resendStream.subscribe() holds the connection and asks;    *)
(* onResendDone waits for the end of the resend, and takes the loss of the *)
(* connection for it. There may be nothing to resend (none), and a request  *)
(* that fails is not told to anyone.                                       *)
(***************************************************************************)
EndResends(how) == resends' = End(resends) /\ request' = how /\ UNCHANGED toResend

Ask == request = "adding" /\ request' = "asked" /\ UNCHANGED <<resends, toResend>>
Resending ==
    request = "asked" /\ request' = "resending" /\ UNCHANGED <<resends, toResend>>
Unicast ==
    /\ request = "resending" /\ toResend <= Stored
    /\ resends' = Push(resends, toResend) /\ toResend' = toResend + 1
    /\ UNCHANGED <<realtime, ordered, toCome, request, subscribing, reading, marks, passed, reader, pipes>>
OnResendDone ==
    \/ request = "asked" /\ EndResends("none")
    \/ request = "resending" /\ toResend > Stored /\ EndResends("over")
OnDisconnected == request \in {"asked", "resending"} /\ EndResends("cut")
ResendFails ==
    /\ request \in {"adding", "asked", "resending"}
    /\ resends' = Cancel(resends, "resend failed") /\ request' = "failed"
    /\ UNCHANGED toResend

ResendStream ==
    /\ Ask \/ Resending \/ OnResendDone \/ OnDisconnected \/ ResendFails
    /\ UNCHANGED <<realtime, ordered, toCome, subscribing, reading, marks, passed, reader, pipes>>

Subscribed ==
    /\ subscribing = "pending" /\ subscribing' = "in"
    /\ UNCHANGED <<queues, toResend, toCome, request, reading, marks, passed, reader, pipes>>
Broadcast ==
    /\ subscribing = "in" /\ toCome <= Final
    /\ realtime' = Push(realtime, toCome) /\ toCome' = toCome + 1
    /\ UNCHANGED <<resends, ordered, toResend, request, subscribing, reading, marks, passed, reader, pipes>>

(***************************************************************************)
(* 'resent', which is told once the resend is done and its last message    *)
(* has come out at the end of the pipeline, whichever is later.            *)
(***************************************************************************)
\* Mutant: told when the resends have been read.
ResentIsDueAtOnce(isDone, lastResent, lastProcessed) == ~resentEmitted /\ isDone
ResentIsDue(isDone, lastResent, lastProcessed) ==
    ~resentEmitted /\ isDone /\ (lastResent = Nothing \/ lastProcessed = lastResent)

MaybeEmitResend ==
    /\ resentEmitted' = (resentEmitted \/ ResentIsDue(isResendDone', lastResentMsgId', lastProcessedMsgId'))
    /\ handedBefore' = IF resentEmitted' /\ ~resentEmitted THEN Len(handed) ELSE handedBefore

\* The finally of HandleResends, when v has been read last
HandledResends(v) ==
    /\ current' = v /\ lastResentMsgId' = v /\ isResendDone' = TRUE
    /\ UNCHANGED lastProcessedMsgId
    /\ MaybeEmitResend
\* The finally of detectEndOfResend
DetectEndOfResend ==
    /\ lastProcessedMsgId' = handed[Len(handed)]
    /\ UNCHANGED <<current, lastResentMsgId, isResendDone>>
    /\ MaybeEmitResend

(***************************************************************************)
(* The source: HandleResends and ResendThenRealtime, read by the ordering  *)
(* as fast as they give.                                                   *)
(***************************************************************************)
Asks(q) == ~Asked(q) /\ q.given = Nothing
Taken(q) == [q EXCEPT !.given = Nothing]

\* OrderingUtil.add: what has been passed on before is left out.
Order(v) ==
    IF v > passed
    THEN passed' = v /\ ordered' = Push(ordered, v)
    ELSE UNCHANGED <<passed, ordered>>

HandleResends ==
    /\ life["source"] = "open" /\ reading = "resends" /\ Asks(resends)
    /\ resends' = Next(resends)
    /\ UNCHANGED <<realtime, ordered, server, reading, marks, passed, reader, pipes>>

ResentMessage ==
    /\ reading = "resends" /\ resends.given > 0
    /\ resends' = Taken(resends)
    /\ IF life["source"] = "open"
       THEN /\ current' = resends.given /\ Order(resends.given)
            /\ UNCHANGED <<reading, isResendDone, lastResentMsgId, lastProcessedMsgId, resentEmitted, handedBefore>>
       ELSE HandledResends(resends.given) /\ reading' = "over" /\ UNCHANGED <<passed, ordered>>
    /\ UNCHANGED <<realtime, server, reader, pipes>>

Ending(p) == IF life[p] = "open" THEN [life EXCEPT ![p] = "ending"] ELSE life

\* The resends are over: the live messages follow.
ResendThenRealtime ==
    /\ reading = "resends" /\ resends.given = Done
    /\ HandledResends(current)
    /\ resends' = Taken(resends)
    /\ reading' = IF life["source"] = "open" THEN "realtime" ELSE "over"
    /\ UNCHANGED <<realtime, ordered, server, passed, reader, pipes>>

\* The source is left between two messages.
ResendsLeft ==
    /\ reading = "resends" /\ life["source"] # "open" /\ Asks(resends)
    /\ HandledResends(current) /\ reading' = "over"
    /\ UNCHANGED <<queues, server, passed, reader, pipes>>

\* The resends fail while they are read: the ordering passes the error on.
ResendsFailed ==
    /\ reading = "resends" /\ resends.given = Failed
    /\ HandledResends(current)
    /\ resends' = Taken(resends) /\ ordered' = Throw(ordered, "resend failed")
    /\ reading' = "over" /\ life' = Ending("source")
    /\ UNCHANGED <<realtime, server, passed, reader, cancelled, waits>>

HandleRealtime ==
    /\ life["source"] = "open" /\ reading = "realtime" /\ Asks(realtime)
    /\ realtime' = Next(realtime)
    /\ UNCHANGED <<resends, ordered, server, reading, marks, passed, reader, pipes>>

LiveMessage ==
    /\ reading = "realtime" /\ realtime.given > 0
    /\ realtime' = Taken(realtime)
    /\ IF life["source"] = "open" THEN Order(realtime.given) ELSE UNCHANGED <<passed, ordered>>
    /\ UNCHANGED <<resends, server, reading, marks, reader, pipes>>

RealtimeOver ==
    /\ reading = "realtime" /\ realtime.given \in {Done, Failed}
    /\ realtime' = Taken(realtime) /\ ordered' = End(ordered)
    /\ reading' = "over" /\ life' = Ending("source")
    /\ UNCHANGED <<resends, server, marks, passed, reader, cancelled, waits>>

\* A reader that waits is woken.
GoesOn ==
    \/ /\ resends.at \in {"woken", "rejected"} /\ resends' = Resume(resends)
       /\ UNCHANGED <<realtime, ordered>>
    \/ /\ realtime.at \in {"woken", "rejected"} /\ realtime' = Resume(realtime)
       /\ UNCHANGED <<resends, ordered>>
    \/ /\ ordered.at \in {"woken", "rejected"} /\ ordered' = Resume(ordered)
       /\ UNCHANGED <<resends, realtime>>

\* cancel() of a queue goes on after its timer.
Cancelled(q) == q.cancelled /\ ~q.onEndCalled
CancelEnds ==
    \/ Cancelled(resends) /\ resends' = AfterCancel(resends) /\ UNCHANGED <<realtime, ordered>>
    \/ Cancelled(realtime) /\ realtime' = AfterCancel(realtime) /\ UNCHANGED <<resends, ordered>>
    \/ Cancelled(ordered) /\ ordered' = AfterCancel(ordered) /\ UNCHANGED <<resends, realtime>>


(***************************************************************************)
(* cancel() of a pipeline: nothing, while its onFinally runs; the first    *)
(* call lets its stages end, and cancels the pipeline they read from.      *)
(* Calls and later ones return when it is done.                            *)
(***************************************************************************)
Callable(p) == life[p] \in {"open", "ending"} /\ ~cancelled[p]
CancelFns(p) == {p} \cup (IF p = "sub" THEN {"source"} ELSE {})
CancelAll(p) ==
    /\ cancelled' = [r \in Pipelines |-> cancelled[r] \/ (r \in CancelFns(p) /\ (r = p \/ Callable(r)))]
    /\ life' = [r \in Pipelines |-> IF r \in CancelFns(p) /\ life[r] = "open" THEN "ending" ELSE life[r]]
    /\ ordered' = IF p = "sub" THEN Cancel(ordered, NoError) ELSE ordered

CancelSubscription ==
    /\ Callable("sub") /\ CancelAll("sub")
    /\ subscriber' = IF subscriber = "asking" THEN "left" ELSE subscriber
    /\ UNCHANGED <<resends, realtime, server, reading, marks, passed, handed, waits>>

(***************************************************************************)
(* A pipeline's stages have ended: what is not cancelled yet is, and its   *)
(* onFinally runs. That of the subscription cancels the source and waits   *)
(* for it unless the source's own onFinally runs; that of the source       *)
(* (end() of resendSubscribe) cancels a subscription that is not cancelled *)
(* and waits for it, and then cancels both queues.                         *)
(***************************************************************************)
IsOver(p) == life[p] = "done"
\* Mutant: cancel() waits for a pipeline whose onFinally runs, too.
WaitsUntilOver(p) == ~IsOver(p)
WaitsForCancel(p) == life[p] = "ending"

SubFinally ==
    /\ life["sub"] = "ending" /\ cancelled["sub"]
    /\ life' = [life EXCEPT !["sub"] = "finally"]
    /\ waits' = [waits EXCEPT !["sub"] = WaitsForCancel("source")]
    /\ IF subscriber = "handling" THEN DetectEndOfResend ELSE UNCHANGED marks
    /\ subscriber' = "left"
    /\ UNCHANGED <<queues, server, reading, passed, handed, cancelled>>

StagesEnd ==
    /\ life["sub"] = "ending" /\ ~cancelled["sub"] /\ CancelAll("sub")
    /\ UNCHANGED <<resends, realtime, server, reading, marks, passed, reader, waits>>

SourceFinally ==
    /\ life["source"] = "ending"
    /\ IF cancelled["sub"] \/ life["sub"] \in {"finally", "done"}
       THEN /\ life' = [life EXCEPT !["source"] = "finally"]
            /\ waits' = waits /\ cancelled' = [cancelled EXCEPT !["source"] = TRUE]
            /\ UNCHANGED ordered
       ELSE /\ life' = [life EXCEPT !["source"] = "finally", !["sub"] = "ending"]
            /\ waits' = [waits EXCEPT !["source"] = TRUE]
            /\ cancelled' = [p \in Pipelines |-> TRUE]
            /\ ordered' = Cancel(ordered, NoError)
    /\ UNCHANGED <<resends, realtime, server, reading, marks, passed, reader>>

SubDone ==
    /\ life["sub"] = "finally" /\ (waits["sub"] => IsOver("source"))
    /\ life' = [life EXCEPT !["sub"] = "done"]
    /\ UNCHANGED <<queues, server, reading, marks, passed, reader, cancelled, waits>>

CancelQueues ==
    /\ life["source"] = "finally" /\ (waits["source"] => IsOver("sub"))
    /\ life' = [life EXCEPT !["source"] = "closing"]
    /\ realtime' = Cancel(realtime, NoError) /\ resends' = Cancel(resends, NoError)
    /\ UNCHANGED <<ordered, server, reading, marks, passed, reader, cancelled, waits>>

SourceDone ==
    /\ life["source"] = "closing" /\ realtime.onEndCalled /\ resends.onEndCalled
    /\ life' = [life EXCEPT !["source"] = "done"]
    /\ UNCHANGED <<queues, server, reading, marks, passed, reader, cancelled, waits>>

Unwinds == SubFinally \/ StagesEnd \/ SourceFinally \/ SubDone \/ CancelQueues \/ SourceDone

(***************************************************************************)
(* The subscriber, who may iterate when the resend has been answered and   *)
(* the subscription made, and who may leave the loop at a message. A       *)
(* subscription that could not be made is taken back.                      *)
(***************************************************************************)
SubscribeFails ==
    /\ subscribing = "pending" /\ Callable("sub") /\ subscribing' = "failed" /\ CancelAll("sub")
    /\ UNCHANGED <<resends, realtime, toResend, toCome, request, reading, marks, passed, reader, waits>>

Iterate ==
    /\ subscriber = "away" /\ subscribing = "in" /\ request \notin {"adding", "asked"}
    /\ life["sub"] = "open"
    /\ subscriber' = "asking" /\ reading' = "resends"
    /\ UNCHANGED <<queues, server, marks, passed, handed, pipes>>

\* The next message is asked for: the one before it has been processed.
AskNext ==
    /\ subscriber = "handling" /\ life["sub"] = "open"
    /\ DetectEndOfResend /\ subscriber' = "asking"
    /\ UNCHANGED <<queues, server, reading, passed, handed, pipes>>

PullOrdered ==
    /\ subscriber = "asking" /\ life["sub"] = "open" /\ Asks(ordered)
    /\ ordered' = Next(ordered)
    /\ UNCHANGED <<resends, realtime, server, reading, marks, passed, reader, pipes>>

IgnoreMessages(v) == v \in Bad

Deliver ==
    /\ ordered.given > 0 /\ ordered' = Taken(ordered)
    /\ IF subscriber # "asking" \/ IgnoreMessages(ordered.given)
       THEN UNCHANGED reader
       ELSE subscriber' = "handling" /\ handed' = Append(handed, ordered.given)
    /\ UNCHANGED <<resends, realtime, server, reading, marks, passed, pipes>>

OrderedOver ==
    /\ ordered.given \in {Done, Failed} /\ ordered' = Taken(ordered)
    /\ subscriber' = "left" /\ life' = Ending("sub")
    /\ UNCHANGED <<resends, realtime, server, reading, marks, passed, handed, cancelled, waits>>

Break ==
    /\ subscriber = "handling" /\ life["sub"] = "open"
    /\ DetectEndOfResend /\ subscriber' = "left" /\ life' = Ending("sub")
    /\ UNCHANGED <<queues, server, reading, passed, handed, cancelled, waits>>

SourceStep ==
    HandleResends \/ ResentMessage \/ ResendThenRealtime \/ ResendsLeft \/ ResendsFailed
    \/ HandleRealtime \/ LiveMessage \/ RealtimeOver

Turn ==
    \/ SourceStep \/ PullOrdered \/ Deliver \/ OrderedOver
    \/ GoesOn /\ UNCHANGED <<server, reading, marks, passed, reader, pipes>>
TurnIsDue ==
    \/ \E q \in {resends, realtime, ordered} : q.at \in {"woken", "rejected"} \/ q.given # Nothing
    \/ reading = "resends" /\ Asks(resends)
    \/ reading = "realtime" /\ life["source"] = "open" /\ Asks(realtime)
    \/ subscriber = "asking" /\ life["sub"] = "open" /\ Asks(ordered)

Timer == CancelEnds /\ UNCHANGED <<server, reading, marks, passed, reader, pipes>>

ResendNext ==
    \/ Turn
    \/ ~TurnIsDue /\ (ResendStream \/ Subscribed \/ SubscribeFails \/ Timer \/ Unwinds
                        \/ Iterate \/ AskNext \/ Break)
    \/ Unicast \/ Broadcast \/ CancelSubscription

(***************************************************************************)
(* What must happen in the end: the tasks and promises of the event loop   *)
(* go on while there are any; the server answers or the connection is      *)
(* lost; the subscriber who waits for the subscription iterates it and     *)
(* goes on asking. Nobody has to cancel or leave. It is all bounded, so    *)
(* that under weak fairness there comes a state where nothing is due and   *)
(* nothing possible: what must become true is stated of those (Over).      *)
(***************************************************************************)
GoesOnForSure ==
    \/ Turn \/ Unicast \/ Broadcast
    \/ ~TurnIsDue /\ (ResendStream \/ Subscribed \/ SubscribeFails \/ Timer \/ Unwinds
                         \/ Iterate \/ AskNext)
UnwindingIsDue ==
    \/ \E p \in Pipelines : life[p] = "ending"
    \/ life["sub"] = "finally" /\ (waits["sub"] => IsOver("source"))
    \/ life["source"] = "finally" /\ (waits["source"] => IsOver("sub"))
    \/ life["source"] = "closing" /\ realtime.onEndCalled /\ resends.onEndCalled
SubscriberIsFree ==
    /\ life["sub"] = "open"
    /\ \/ subscriber = "away" /\ subscribing = "in" /\ request \notin {"adding", "asked"}
       \/ subscriber = "handling"
Over ==
    /\ ~TurnIsDue /\ ~UnwindingIsDue /\ ~SubscriberIsFree
    /\ request \notin {"adding", "asked", "resending"} /\ subscribing # "pending"
    /\ ~(subscribing = "in" /\ toCome <= Final)
    /\ \A q \in {resends, realtime, ordered} : ~Cancelled(q)

ResendSpec == ResendInit /\ [][ResendNext]_resendVars /\ WF_resendVars(GoesOnForSure)

(***************************************************************************)
(* The subscriber gets each message once and in order, the stored ones     *)
(* before the live ones, without a hole: what is missing could not be read *)
(* or is stored and was never sent, as the resend was cut off or failed    *)
(* (subscribe/index.ts:164, PushQueue.ts:311).                             *)
(***************************************************************************)
NothingIsSkipped ==
    /\ \A i, j \in DOMAIN handed : i < j => handed[i] < handed[j]
    /\ handed # <<>> =>
         \A v \in 1..handed[Len(handed)] :
            \/ \E i \in DOMAIN handed : handed[i] = v
            \/ v \in Bad
            \/ /\ v <= Stored
               /\ request = "failed" \/ (request \in {"cut", "none"} /\ v >= toResend)

(***************************************************************************)
(* When 'resent' is told the subscriber has had every resent message that  *)
(* was read, and no live one (subscribe/index.ts:130).                     *)
(***************************************************************************)
ResentComesAfterTheResends ==
    resentEmitted =>
        {handed[i] : i \in 1..handedBefore} = (1..current) \ Bad

\* What the subscriber has had, or had to do without.
Everything ==
    {handed[i] : i \in DOMAIN handed}
        \cup (IF request \in {"failed", "cut", "none"} THEN 1..Stored ELSE {})

\* Over spells out when none of what must happen is possible.
OverIsRest == Over <=> ~ENABLED GoesOnForSure

(***************************************************************************)
(* One who iterates gets what is published or is told the end, and when a  *)
(* subscription is cancelled or left all of it comes to an end: both       *)
(* pipelines are done and both queues let go of the connection             *)
(* (iterators.js:340, subscribe/index.ts:105).                             *)
(***************************************************************************)
ReadersAreServed ==
    Over =>
        /\ subscriber = "asking" => (1..Final) \ Bad \subseteq Everything
        /\ life["sub"] # "open" =>
             (\A p \in Pipelines : IsOver(p)) /\ resends.onEndCalled /\ realtime.onEndCalled
==================================================================================
