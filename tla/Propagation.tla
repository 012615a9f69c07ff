----------------------------- MODULE Propagation ----------------------------
(***************************************************************************)
(* How a node passes messages on: onDataReceived and propagateMessage of   *)
(* network/src/logic/Node.ts, with the streams and detectors of            *)
(* StreamManager.ts, SeenButNotPropagatedSet.ts and MessageBuffer.         *)
(*                                                                         *)
(* A detector is what DuplicateMessageDetector shows it to be: it answers  *)
(* true for a message at most once (NewAtMostOnce), and once it has        *)
(* answered, true or false, it answers false.                              *)
(***************************************************************************)
EXTENDS MessageBuffer, FiniteSets

CONSTANTS
    Message,
    StreamOf,       \* the stream of each message
    Peer,
    User,           \* source === null: published by the node itself
    MaxElements,    \* of SeenButNotPropagatedSet
    FailureLimit    \* bound: 100 in the code

ASSUME PropagationAssumption ==
    /\ StreamOf \in [Message -> Stream]
    /\ User \notin Peer
    /\ MaxElements \in Nat \ {0}
    /\ FailureLimit \in Nat \ {0}

VARIABLES
    setUp,          \* the streams that are set up
    outbound,       \* outboundNodes of each stream
    answer,         \* what the detectors of a stream first answered to each of its messages
    waiting,        \* SeenButNotPropagatedSet
    setBefore,      \* its order: <<m, n>> if m was set before n
    handling,       \* messages of handleBufferedMessages that are still to be handled
    awaited,        \* peers to which data are being sent
    failures,       \* consecutiveDeliveryFailures
    propagated      \* history: how often each message was propagated since its stream was set up

nodeVars == <<setUp, outbound, answer, waiting, setBefore, handling, awaited, failures,
              propagated>>
vars == <<bufferVars, nodeVars>>

Source == Peer \cup {User}
Buffered == [message : Message, source : Source]

\* No JavaScript is running.
Idle == handling = <<>>

Init ==
    /\ BufferInit
    /\ setUp = {} /\ outbound = [s \in Stream |-> {}]
    /\ answer = [m \in Message |-> "none"]
    /\ waiting = {} /\ setBefore = {}
    /\ handling = <<>>
    /\ awaited = {} /\ failures = [p \in Peer |-> 0]
    /\ propagated = [m \in Message |-> 0]

-----------------------------------------------------------------------------
(* SeenButNotPropagatedSet: when it is full, what was set longest ago      *)
(* goes.  It also forgets by age.                                          *)

Oldest(S, order) == { m \in S : \A n \in S \ {m} : <<m, n>> \in order }

\* add
Add(m) ==
    LET order == Among(setBefore, waiting \ {m}) \cup ((waiting \ {m}) \X {m})
        all == waiting \cup {m}
        kept == IF Cardinality(all) > MaxElements THEN all \ Oldest(all, order) ELSE all
    IN  /\ waiting' = kept
        /\ setBefore' = Among(order, kept)

\* Mutation: nothing is forgotten.
DeleteNothing(m) ==
    /\ waiting' = waiting
    /\ setBefore' = setBefore

\* delete
Delete(m) ==
    /\ waiting' = waiting \ {m}
    /\ setBefore' = Among(setBefore, waiting \ {m})

-----------------------------------------------------------------------------
(* Messages.                                                               *)

\* Mutation: it is put back, but nobody knows that it is waiting.
PutBackOnly(m, source) ==
    /\ Put(StreamOf[m], [message |-> m, source |-> source])
    /\ UNCHANGED <<waiting, setBefore, awaited, propagated>>

PutBack(m, source) ==
    /\ Add(m)
    /\ Put(StreamOf[m], [message |-> m, source |-> source])
    /\ UNCHANGED <<awaited, propagated>>

SendTo(m, subscribers) ==
    /\ Delete(m)
    /\ awaited' = awaited \cup subscribers
    /\ propagated' = [propagated EXCEPT ![m] = @ + 1]
    /\ UNCHANGED bufferVars

\* propagateMessage
PropagateMessage(m, source) ==
    LET subscribers == outbound[StreamOf[m]] \ {source}
    IN  IF subscribers = {} THEN PutBack(m, source) ELSE SendTo(m, subscribers)

Ignore == UNCHANGED <<bufferVars, waiting, setBefore, awaited, propagated>>

\* onDataReceived.  The detector may also throw: the message is dropped then.
OnDataReceived(m, source) ==
    /\ setUp' = setUp \cup {StreamOf[m]}
    /\ \/ /\ answer[m] = "none"
          /\ answer' = [answer EXCEPT ![m] = "new"]
          /\ PropagateMessage(m, source)
       \/ /\ answer' = [answer EXCEPT ![m] = IF @ = "none" THEN "duplicate" ELSE @]
          /\ IF m \in waiting THEN PropagateMessage(m, source) ELSE Ignore
       \/ /\ answer[m] = "none"
          /\ UNCHANGED answer
          /\ Ignore
    /\ UNCHANGED <<outbound, failures>>

Receive(m, source) ==
    /\ Idle
    /\ OnDataReceived(m, source)
    /\ UNCHANGED handling

-----------------------------------------------------------------------------
(* Neighbors and streams.                                                  *)

TakeBuffered(s) == handling' = buffer[s] /\ PopAll(s)

\* subscribeToStreamOnNode, up to the loop of handleBufferedMessages
AddNeighbor(p, s) ==
    /\ Idle
    /\ s \in setUp
    /\ outbound' = [outbound EXCEPT ![s] = @ \cup {p}]
    /\ TakeBuffered(s)
    /\ UNCHANGED <<setUp, answer, waiting, setBefore, awaited, failures, propagated>>

\* One turn of that loop.
HandleBuffered ==
    /\ handling # <<>>
    /\ OnDataReceived(Head(handling).message, Head(handling).source)
    /\ handling' = Tail(handling)

\* unsubscribeFromStreamOnNode
RemoveNeighbor(p, s) ==
    /\ Idle
    /\ s \in setUp
    /\ outbound' = [outbound EXCEPT ![s] = @ \ {p}]
    /\ UNCHANGED <<bufferVars, setUp, answer, waiting, setBefore, handling, awaited, failures,
                   propagated>>

\* removeNodeFromAllStreams
WithoutPeer(p) == [s \in Stream |-> outbound[s] \ {p}]

\* onNodeDisconnected
NodeDisconnected(p) ==
    /\ Idle
    /\ outbound' = WithoutPeer(p)
    /\ UNCHANGED <<bufferVars, setUp, answer, waiting, setBefore, handling, awaited, failures,
                   propagated>>

\* subscribeToStreamIfHaveNotYet
Subscribe(s) ==
    /\ Idle
    /\ setUp' = setUp \cup {s}
    /\ UNCHANGED <<bufferVars, outbound, answer, waiting, setBefore, handling, awaited, failures,
                   propagated>>

\* unsubscribeFromStream: the detectors and the neighbors go, what is buffered stays.
Unsubscribe(s) ==
    /\ Idle
    /\ s \in setUp
    /\ setUp' = setUp \ {s}
    /\ outbound' = [outbound EXCEPT ![s] = {}]
    /\ answer' = [m \in Message |-> IF StreamOf[m] = s THEN "none" ELSE answer[m]]
    /\ propagated' = [m \in Message |-> IF StreamOf[m] = s THEN 0 ELSE propagated[m]]
    /\ UNCHANGED <<bufferVars, waiting, setBefore, handling, awaited, failures>>

-----------------------------------------------------------------------------
(* What sending leads to, timers, and the end.                             *)

\* One of the sends to p ends well; there may be others.
SendSucceeds(p) ==
    /\ Idle
    /\ p \in awaited
    /\ awaited' \in {awaited, awaited \ {p}}
    /\ failures' = [failures EXCEPT ![p] = 0]
    /\ UNCHANGED <<bufferVars, setUp, outbound, answer, waiting, setBefore, handling, propagated>>

\* One of the sends to p fails; a neighbor to which too many fail in a row is given up.
SendFails(p) ==
    LET giveUp == failures[p] + 1 >= FailureLimit
    IN  /\ Idle
        /\ p \in awaited
        /\ awaited' \in {awaited, awaited \ {p}}
        /\ failures' = [failures EXCEPT ![p] = IF giveUp THEN 0 ELSE @ + 1]
        /\ outbound' = IF giveUp THEN WithoutPeer(p) ELSE outbound
        /\ UNCHANGED <<bufferVars, setUp, answer, waiting, setBefore, handling, propagated>>

BufferTimeout ==
    /\ Idle
    /\ TimerFires
    /\ UNCHANGED nodeVars

\* An element gets too old.  Its age counts from when its message was last put back, and unless
\* bufferTimeoutInMs is raised above the 60 seconds that both are by default, the timer of that
\* copy, and so of every copy, fires before.
Expire(m) ==
    /\ Idle
    /\ m \in waiting
    /\ \A e \in Range(buffer[StreamOf[m]]) : e.message # m
    /\ Delete(m)
    /\ UNCHANGED <<bufferVars, setUp, outbound, answer, handling, awaited, failures, propagated>>

\* stop.  It does not keep onDataReceived from handling what is received or published later.
Stop ==
    /\ Idle
    /\ Clear
    /\ UNCHANGED nodeVars

Next ==
    \/ \E m \in Message, source \in Source : Receive(m, source)
    \/ \E p \in Peer, s \in Stream : AddNeighbor(p, s) \/ RemoveNeighbor(p, s)
    \/ HandleBuffered
    \/ \E p \in Peer : NodeDisconnected(p) \/ SendSucceeds(p) \/ SendFails(p)
    \/ \E s \in Stream : Subscribe(s) \/ Unsubscribe(s)
    \/ \E m \in Message : Expire(m)
    \/ BufferTimeout
    \/ Stop

Spec == Init /\ [][Next]_vars

-----------------------------------------------------------------------------
(* Properties.                                                             *)

TypeOK ==
    /\ \A s \in Stream : buffer[s] \in Seq(Buffered) /\ Len(buffer[s]) <= MaxSize
    /\ \A s \in Stream : \A e \in Range(buffer[s]) : StreamOf[e.message] = s
    /\ setUp \subseteq Stream
    /\ outbound \in [Stream -> SUBSET Peer]
    /\ \A s \in Stream \ setUp : outbound[s] = {}
    /\ answer \in [Message -> {"none", "new", "duplicate"}]
    /\ waiting \subseteq Message /\ Cardinality(waiting) <= MaxElements
    /\ setBefore \subseteq waiting \X waiting
    /\ handling \in Seq(Buffered)
    /\ awaited \subseteq Peer
    /\ failures \in [Peer -> 0 .. FailureLimit - 1]
    /\ propagated \in [Message -> Nat]

\* A message waits only while there is nobody to send it to: the only neighbor a stream may have
\* is the one the message came from.  Neighbors come, go and come back while messages wait.
NobodyToSendTo ==
    \A s \in Stream : \A e \in Range(buffer[s]) : outbound[s] \subseteq {e.source}

\* While its stream stays set up, a message is propagated at most once, although copies of it
\* arrive from several neighbors, wait side by side, and are handled again.
PropagatedAtMostOnce == \A m \in Message : propagated[m] <= 1

\* What has been seen, waits and has not been propagated is known to wait: when its turn comes
\* it is a duplicate to the detector, and only SeenButNotPropagatedSet says that it must go out.
WaitingIsRemembered ==
    \A s \in Stream : \A e \in Range(buffer[s]) \cup Range(handling) :
        answer[e.message] = "new" /\ propagated[e.message] = 0 => e.message \in waiting

\* What waits has nowhere to go, and keeps what its propagation rests on: its own timer and its
\* entry in the set.
WaitingIsKept == NobodyToSendTo /\ WaitingIsRemembered /\ EachMessageHasItsTimer
=============================================================================
