--------------------------------- MODULE Publisher -------------------------------
(***************************************************************************)
(* How a client publishes (src/packages/client/src/publish/index.ts,       *)
(* MessageCreator.ts and MessageChainer.ts). publish() puts a message into *)
(* two queues of its stream at once: one creates messages, which chains    *)
(* each to the one before it, encrypts and signs; the other sends what has *)
(* been created. Both run one task at a time, in the order of the calls    *)
(* (p-limit behind LimitAsyncFnByKey). The publisher holds the connection  *)
(* meanwhile, and for a while after the last message.                      *)
(* One stream; its partitions are chains of their own. The connection, the *)
(* session, the stream's data, keys and signatures answer or fail.         *)
(***************************************************************************)
EXTENDS Naturals

CONSTANTS Partitions,
          Timestamps,     \* what messages may be dated; they need not be in order
          MaxPublishes,   \* bound: calls of publish
          MaxStops,       \* bound: times the publisher is stopped and used again
          MaxFaults,      \* bound: failures
          None

ASSUME PublisherAssumption ==
    /\ Timestamps \subseteq Nat /\ MaxPublishes \in Nat /\ MaxStops \in Nat /\ MaxFaults \in Nat
    /\ None \notin [timestamp : Nat, sequence : Nat]
    /\ None \notin [epoch : Nat, partition : Partitions,
                    number : [timestamp : Nat, sequence : Nat],
                    previous : [timestamp : Nat, sequence : Nat] \union {None}]

VARIABLES
    called,     \* calls of publish so far: they are numbered
    content,    \* what each call is to publish: partition and timestamp
    queues,     \* the pair of queues each call went to: stop() starts new ones
    creating,   \* each call in the queue that creates
    sending,    \* each call in the queue that sends; rejected before it was tried, or failed
    message,    \* what was chained, and to what
    chainers,   \* prevMsgRef of each partition's chainer
    epoch,      \* the number of stops: of the queues and chainers there are now
    stopping,   \* a stop() has yet to remove the handle
    handle,     \* the publish handle is among the connection's
    timer,      \* publishHandleTimeout is running
    faults

tasks == <<creating, sending>>
chains == <<message, chainers>>
handles == <<handle, timer>>
vars == <<called, content, queues, tasks, chains, epoch, stopping, handles, faults>>

Publishes == 1..MaxPublishes
NumberPair == [timestamp : Nat, sequence : Nat]

Init ==
    /\ called = 0
    /\ content = [p \in Publishes |-> None] /\ queues = [p \in Publishes |-> 0]
    /\ creating = [p \in Publishes |-> "none"] /\ sending = [p \in Publishes |-> "none"]
    /\ message = [p \in Publishes |-> None] /\ chainers = [c \in Partitions |-> None]
    /\ epoch = 0 /\ stopping = FALSE
    /\ handle = FALSE /\ timer = FALSE
    /\ faults = 0

(***************************************************************************)
(* The queues. A task runs when those before it in its queue have ended.   *)
(***************************************************************************)
Waiting == {"queued", "chained"}
\* Mutants: tasks run at once; a task that failed blocks the queue.
FirstAlways(queue, p) == queue[p] \in Waiting
FirstAfterSuccess(queue, p) ==
    /\ queue[p] \in Waiting
    /\ \A q \in 1..(p - 1) : queues[q] = queues[p] => queue[q] \in {"created", "sent"}
First(queue, p) ==
    /\ queue[p] \in Waiting
    /\ \A q \in 1..(p - 1) : queues[q] = queues[p] => queue[q] \notin Waiting

\* clear(): what does not run yet is forgotten, and its promise with it.
Cleared(queue) ==
    [p \in Publishes |-> IF queue[p] = "queued" /\ ~First(queue, p) THEN "cleared" ELSE queue[p]]

Fault == faults < MaxFaults /\ faults' = faults + 1

(***************************************************************************)
(* publish(), with setupPublishHandle.                                     *)
(***************************************************************************)
Publish(c, t) ==
    LET p == called + 1
    IN  /\ called < MaxPublishes /\ called' = p
        /\ content' = [content EXCEPT ![p] = [partition |-> c, timestamp |-> t]]
        /\ queues' = [queues EXCEPT ![p] = epoch]
        /\ creating' = [creating EXCEPT ![p] = "queued"]
        /\ sending' = [sending EXCEPT ![p] = "queued"]
        /\ handle' = TRUE /\ timer' = FALSE
        /\ UNCHANGED <<chains, epoch, stopping, faults>>

(***************************************************************************)
(* The queue that creates.                                                 *)
(***************************************************************************)
Creates(p, to) ==
    /\ creating' = [creating EXCEPT ![p] = to]
    /\ UNCHANGED <<called, content, queues, sending, epoch, stopping, handles>>

\* add() of the chainer: a message dated before the last one leaves it.
NextSequence(last, t) == IF last # None /\ last.timestamp = t THEN last.sequence + 1 ELSE 0
Backdated(last, t) == last # None /\ last.timestamp > t

\* The stream's data are there: the message gets its number and reference.
Chain(p) ==
    LET c == content[p].partition
        t == content[p].timestamp
        number == [timestamp |-> t, sequence |-> NextSequence(chainers[c], t)]
    IN  /\ creating[p] = "queued" /\ First(creating, p)
        /\ Creates(p, "chained") /\ UNCHANGED faults
        /\ message' = [message EXCEPT ![p] = [epoch |-> epoch, partition |-> c,
                                              number |-> number, previous |-> chainers[c]]]
        /\ chainers' = IF Backdated(chainers[c], t) THEN chainers
                       ELSE [chainers EXCEPT ![c] = number]

\* Encrypted and signed.
CreateEnds(p) ==
    creating[p] = "chained" /\ Creates(p, "created") /\ UNCHANGED <<chains, faults>>

\* No stream, no group key, no signature: before or after it was chained.
CreateFails(p) ==
    First(creating, p) /\ Creates(p, "failed") /\ Fault /\ UNCHANGED chains

(***************************************************************************)
(* The queue that sends.                                                   *)
(***************************************************************************)
Sends(p, to) ==
    /\ sending' = [sending EXCEPT ![p] = to]
    /\ UNCHANGED <<called, content, queues, creating, chains, epoch, stopping, handle>>

\* There is no message: the handle's timer is not started.
DepsFail(p) ==
    /\ First(sending, p) /\ creating[p] = "failed"
    /\ Sends(p, "rejected") /\ UNCHANGED <<timer, faults>>
\* No connection, whatever becomes of the message, or no session token.
Rejects(p) ==
    First(sending, p) /\ Sends(p, "rejected") /\ Fault /\ UNCHANGED timer

\* sendMessage and refreshAutoDisconnectTimeout.
\* Mutant: only a success starts the timer.
SettlesUnlessFailed(p, to) ==
    First(sending, p) /\ creating[p] = "created" /\ Sends(p, to)
    /\ timer' = IF to = "sent" THEN handle ELSE timer
Settles(p, to) ==
    First(sending, p) /\ creating[p] = "created" /\ Sends(p, to) /\ timer' = handle
SendSucceeds(p) == Settles(p, "sent") /\ UNCHANGED faults
SendFails(p) == Settles(p, "failed") /\ Fault

TimerFires ==
    /\ timer /\ timer' = FALSE /\ handle' = FALSE
    /\ UNCHANGED <<called, content, queues, tasks, chains, epoch, stopping, faults>>

(***************************************************************************)
(* stop(), when the connection is done or the client is disconnected. What *)
(* runs goes on, and may be chained by the chainers that come next.        *)
(***************************************************************************)
Stop ==
    /\ epoch < MaxStops /\ epoch' = epoch + 1
    /\ creating' = Cleared(creating) /\ sending' = Cleared(sending)
    /\ chainers' = [c \in Partitions |-> None]
    /\ timer' = FALSE /\ stopping' = TRUE
    /\ UNCHANGED <<called, content, queues, message, handle, faults>>
StopEnds ==
    /\ stopping /\ stopping' = FALSE /\ handle' = FALSE
    /\ UNCHANGED <<called, content, queues, tasks, chains, epoch, timer, faults>>

Works(p) == Chain(p) \/ CreateEnds(p) \/ DepsFail(p) \/ SendSucceeds(p)
Breaks(p) == CreateFails(p) \/ Rejects(p) \/ SendFails(p)
Next ==
    \/ \E c \in Partitions, t \in Timestamps : Publish(c, t)
    \/ \E p \in Publishes : Works(p)
    \/ \E p \in Publishes : Breaks(p)
    \/ TimerFires \/ Stop \/ StopEnds
Spec == Init /\ [][Next]_vars

\* Whatever a task waits for is answered.
Fairness == \A p \in Publishes : WF_vars(Works(p))
FairSpec == Spec /\ Fairness

(***************************************************************************)
(* Properties.                                                             *)
(***************************************************************************)
Message == [epoch : Nat, partition : Partitions, number : NumberPair,
            previous : NumberPair \union {None}]
TypeOK ==
    /\ called \in 0..MaxPublishes
    /\ content \in [Publishes -> [partition : Partitions, timestamp : Timestamps] \union {None}]
    /\ queues \in [Publishes -> Nat]
    /\ creating \in [Publishes -> {"none", "queued", "chained", "created", "failed", "cleared"}]
    /\ sending \in [Publishes -> {"none", "queued", "sent", "failed", "rejected", "cleared"}]
    /\ message \in [Publishes -> Message \union {None}]
    /\ chainers \in [Partitions -> NumberPair \union {None}]
    /\ epoch \in 0..MaxStops /\ faults \in 0..MaxFaults
    /\ stopping \in BOOLEAN /\ handle \in BOOLEAN /\ timer \in BOOLEAN

\* A call that outlived a stop while its message was not chained yet belongs
\* to the queues from before it and the chainers from after it.
Straddles(p) == message[p] # None /\ message[p].epoch # queues[p]

\* Subscribers order a chain by what its messages name as their predecessor,
\* and wait for one they have not seen. The message that a sent message names
\* was sent before it, or whoever published it was told that it failed; calls
\* that a stop overtook excepted. This is what the two queues of publish()
\* are for ("sequencing will be broken", "can miss messages that are sent late").
PredecessorsGoFirst ==
    \A p \in Publishes :
        sending[p] = "sent" /\ ~Straddles(p) /\ message[p].previous # None =>
            \E q \in Publishes :
                /\ message[q] # None
                /\ message[q].epoch = message[p].epoch
                /\ message[q].partition = message[p].partition
                /\ message[q].number = message[p].previous
                /\ Straddles(q) \/ sending[q] \in {"sent", "failed", "rejected"}

\* The publisher does not hold the connection for good: while it has its
\* handle a message is on its way, or the timer of refreshAutoDisconnectTimeout
\* or a stop() will remove it; unless the last message was rejected before it
\* came to be sent, which starts no timer.
HandleIsGivenBack ==
    handle => \/ timer \/ stopping
              \/ \E p \in Publishes : sending[p] = "queued"
              \/ sending[called] = "rejected"

\* publish() settles: a call that fails does not keep those behind it in the
\* queues from being made. A stop forgets them (clearQueue settles nothing).
EveryPublishSettles ==
    \A p \in Publishes : sending[p] = "queued" ~> sending[p] # "queued" \/ epoch # queues[p]
==================================================================================
