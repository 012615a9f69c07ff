-------------------------- MODULE PropagationProofs -------------------------
(***************************************************************************)
(* A message waits only while nobody can take it, goes out at most once,   *)
(* and keeps its own timer and, where there is one stream, its entry in    *)
(* the set of those that wait: for any streams, messages and neighbors.    *)
(***************************************************************************)
EXTENDS Propagation, SequenceTheorems, FiniteSetTheorems, TLAPS

Typed ==
    /\ buffer \in [Stream -> Seq(Buffered)]
    /\ handling \in Seq(Buffered)
    /\ outbound \in [Stream -> SUBSET Peer]
    /\ answer \in [Message -> {"none", "new", "duplicate"}]
    /\ propagated \in [Message -> Nat]

\* What has gone out was seen since the stream was set up, and does not count as waiting: the two
\* reasons for which a copy would be passed on.
GoneIsSettled ==
    \A m \in Message : propagated[m] # 0 => answer[m] # "none" /\ m \notin waiting

IInv ==
    /\ Typed
    /\ NobodyToSendTo
    /\ PropagatedAtMostOnce
    /\ GoneIsSettled

-----------------------------------------------------------------------------
(* The queue of a stream.                                                  *)

LEMMA RestIsPart ==
    ASSUME NEW S, NEW q \in Seq(S)
    PROVE  RestOf(q) \in Seq(S) /\ Range(RestOf(q)) \subseteq Range(q)
<1>1. CASE q = <<>>
  BY <1>1 DEF RestOf
<1>2. CASE q # <<>>
  <2>1. RestOf(q) \in Seq(S) /\ Len(Tail(q)) = Len(q) - 1
    BY <1>2 DEF RestOf
  <2>2. \A i \in 1 .. Len(Tail(q)) : Tail(q)[i] = q[i + 1] /\ i + 1 \in 1 .. Len(q)
    BY <1>2
  <2>3. Range(Tail(q)) \subseteq Range(q)
    BY <2>1, <2>2, <1>2 DEF Range, RestOf
  <2>4. QED
    BY <2>1, <2>3, <1>2 DEF RestOf
<1>3. QED
  BY <1>1, <1>2

LEMMA RangeOfAppend ==
    ASSUME NEW S, NEW q \in Seq(S), NEW x \in S
    PROVE  Append(q, x) \in Seq(S) /\ Range(Append(q, x)) \subseteq Range(q) \cup {x}
<1>1. Append(q, x) \in Seq(S) /\ DOMAIN Append(q, x) = 1 .. Len(q) + 1
  OBVIOUS
<1>2. \A i \in 1 .. Len(q) + 1 : Append(q, x)[i] = IF i = Len(q) + 1 THEN x ELSE q[i]
  OBVIOUS
<1>3. \A i \in 1 .. Len(q) + 1 : i = Len(q) + 1 \/ i \in DOMAIN q
  OBVIOUS
<1>4. QED
  BY <1>1, <1>2, <1>3 DEF Range

\* put adds one message to the queue of one stream.
LEMMA PutAddsOne ==
    ASSUME Typed, NEW s \in Stream, NEW e \in Buffered, Put(s, e)
    PROVE  /\ buffer' \in [Stream -> Seq(Buffered)]
           /\ \A r \in Stream \ {s} : buffer'[r] = buffer[r]
           /\ Range(buffer'[s]) \subseteq Range(buffer[s]) \cup {e}
<1> DEFINE q == IF MakesRoom(s) THEN RestOf(buffer[s]) ELSE buffer[s]
<1>1. buffer' = [buffer EXCEPT ![s] = Append(q, e)]
  BY DEF Put
<1>2. buffer[s] \in Seq(Buffered) /\ buffer \in [Stream -> Seq(Buffered)]
  BY DEF Typed
<1>3. q \in Seq(Buffered) /\ Range(q) \subseteq Range(buffer[s])
  BY <1>2, RestIsPart
<1>4. Append(q, e) \in Seq(Buffered) /\ Range(Append(q, e)) \subseteq Range(q) \cup {e}
  BY <1>3, RangeOfAppend
<1> HIDE DEF q
<1>5. buffer'[s] = Append(q, e)
  BY <1>1, <1>2
<1>6. QED
  BY <1>1, <1>2, <1>3, <1>4, <1>5

-----------------------------------------------------------------------------
(* Messages.                                                               *)

LEMMA BufferedFields ==
    /\ \A e \in Buffered : e.message \in Message /\ e.source \in Source
    /\ \A m \in Message, source \in Source : [message |-> m, source |-> source] \in Buffered
BY DEF Buffered

\* Queues from which messages only go, and streams from which neighbors only go.
LEMMA FewerIsFine ==
    ASSUME NobodyToSendTo,
           \A s \in Stream : Range(buffer'[s]) \subseteq Range(buffer[s]),
           \A s \in Stream : outbound'[s] \subseteq outbound[s]
    PROVE  NobodyToSendTo'
BY DEF NobodyToSendTo

\* What the detector's answer may become: it stays final.
Answered(m) ==
    /\ answer' \in [Message -> {"none", "new", "duplicate"}]
    /\ \A n \in Message : answer[n] # "none" => answer'[n] # "none"
    /\ answer'[m] # "none"

\* A message that is put back has not gone out, and is put back as nobody can take it.
LEMMA PutBackKeepsInv ==
    ASSUME IInv, NEW m \in Message, NEW source \in Source, propagated[m] = 0,
           Answered(m), handling' \in Seq(Buffered), UNCHANGED outbound,
           outbound[StreamOf[m]] \ {source} = {}, PutBack(m, source)
    PROVE  IInv'
<1> DEFINE s == StreamOf[m]
           e == [message |-> m, source |-> source]
<1>1. Typed /\ NobodyToSendTo /\ PropagatedAtMostOnce /\ GoneIsSettled
  BY DEF IInv
<1>2. s \in Stream /\ e \in Buffered /\ e.source = source
  BY PropagationAssumption, BufferedFields
<1>3. Put(s, e) /\ Add(m) /\ propagated' = propagated
  BY DEF PutBack
<1>4. /\ buffer' \in [Stream -> Seq(Buffered)]
      /\ \A r \in Stream \ {s} : buffer'[r] = buffer[r]
      /\ Range(buffer'[s]) \subseteq Range(buffer[s]) \cup {e}
  <2> HIDE DEF s, e
  <2>1. QED
    BY <1>1, <1>2, <1>3, PutAddsOne
<1>5. waiting' \subseteq waiting \cup {m}
  BY <1>3 DEF Add
<1>6. Typed'
  BY <1>1, <1>3, <1>4 DEF Typed, Answered
<1>7. NobodyToSendTo'
  <2> HIDE DEF e
  <2>1. ASSUME NEW r \in Stream, NEW d \in Range(buffer'[r])
        PROVE  outbound[r] \subseteq {d.source}
    <3>1. CASE d \in Range(buffer[r])
      BY <1>1, <3>1 DEF NobodyToSendTo
    <3>2. CASE r = s /\ d = e
      BY <1>2, <3>2
    <3>3. QED
      BY <1>4, <2>1, <3>1, <3>2
  <2>2. QED
    BY <2>1 DEF NobodyToSendTo
<1>8. PropagatedAtMostOnce'
  BY <1>1, <1>3 DEF PropagatedAtMostOnce
<1>9. GoneIsSettled'
  BY <1>1, <1>3, <1>5 DEF GoneIsSettled, Answered
<1>10. QED
  BY <1>6, <1>7, <1>8, <1>9 DEF IInv

\* A message goes out for the first time.
LEMMA SendToKeepsInv ==
    ASSUME IInv, NEW m \in Message, NEW subscribers, propagated[m] = 0,
           Answered(m), handling' \in Seq(Buffered), UNCHANGED outbound,
           SendTo(m, subscribers)
    PROVE  IInv'
<1>1. Typed /\ NobodyToSendTo /\ PropagatedAtMostOnce /\ GoneIsSettled
  BY DEF IInv
<1>2. /\ waiting' = waiting \ {m}
      /\ propagated' = [propagated EXCEPT ![m] = propagated[m] + 1]
      /\ buffer' = buffer
  BY DEF SendTo, Delete, bufferVars
<1>3. /\ propagated' \in [Message -> Nat] /\ propagated'[m] = 1
      /\ \A n \in Message \ {m} : propagated'[n] = propagated[n]
  BY <1>1, <1>2 DEF Typed
<1>4. Typed'
  BY <1>1, <1>2, <1>3 DEF Typed, Answered
<1>5. NobodyToSendTo'
  BY <1>1, <1>2 DEF NobodyToSendTo
<1>6. PropagatedAtMostOnce'
  BY <1>1, <1>3 DEF PropagatedAtMostOnce
<1>7. GoneIsSettled'
  BY <1>1, <1>2, <1>3 DEF GoneIsSettled, Answered
<1>8. QED
  BY <1>4, <1>5, <1>6, <1>7 DEF IInv

LEMMA PropagateKeepsInv ==
    ASSUME IInv, NEW m \in Message, NEW source \in Source, propagated[m] = 0,
           Answered(m), handling' \in Seq(Buffered), UNCHANGED outbound,
           PropagateMessage(m, source)
    PROVE  IInv'
<1>1. CASE outbound[StreamOf[m]] \ {source} = {}
  BY <1>1, PutBackKeepsInv DEF PropagateMessage
<1>2. CASE outbound[StreamOf[m]] \ {source} # {}
  BY <1>2, SendToKeepsInv DEF PropagateMessage
<1>3. QED
  BY <1>1, <1>2

\* A message is received, from a neighbor, the user or the buffer.
LEMMA ReceiveKeepsInv ==
    ASSUME IInv, NEW m \in Message, NEW source \in Source, handling' \in Seq(Buffered),
           OnDataReceived(m, source)
    PROVE  IInv'
<1>1. Typed /\ GoneIsSettled /\ NobodyToSendTo /\ PropagatedAtMostOnce
  BY DEF IInv
<1>2. outbound' = outbound
  BY DEF OnDataReceived
<1>3. answer[m] = "none" \/ m \in waiting => propagated[m] = 0
  BY <1>1 DEF GoneIsSettled, Typed
<1>4. CASE /\ answer[m] = "none"
           /\ answer' = [answer EXCEPT ![m] = "new"]
           /\ PropagateMessage(m, source)
  <2>1. Answered(m)
    BY <1>1, <1>4 DEF Answered, Typed
  <2>2. QED
    BY <1>2, <1>3, <1>4, <2>1, PropagateKeepsInv
<1>5. CASE /\ answer' = [answer EXCEPT ![m] = IF answer[m] = "none" THEN "duplicate" ELSE answer[m]]
           /\ IF m \in waiting THEN PropagateMessage(m, source) ELSE Ignore
  <2>1. Answered(m)
    BY <1>1, <1>5 DEF Answered, Typed
  <2>2. CASE m \in waiting
    BY <1>2, <1>3, <1>5, <2>1, <2>2, PropagateKeepsInv
  <2>3. CASE m \notin waiting
    <3>1. UNCHANGED <<buffer, waiting, propagated>>
      BY <1>5, <2>3 DEF Ignore, bufferVars
    <3>2. QED
      BY <1>1, <1>2, <2>1, <3>1
         DEF IInv, Typed, NobodyToSendTo, PropagatedAtMostOnce, GoneIsSettled, Answered
  <2>4. QED
    BY <2>2, <2>3
<1>6. CASE UNCHANGED answer /\ Ignore
  <2>1. UNCHANGED <<buffer, waiting, propagated, answer>>
    BY <1>6 DEF Ignore, bufferVars
  <2>2. QED
    BY <1>1, <1>2, <2>1
       DEF IInv, Typed, NobodyToSendTo, PropagatedAtMostOnce, GoneIsSettled
<1>7. QED
  BY <1>4, <1>5, <1>6 DEF OnDataReceived

-----------------------------------------------------------------------------
(* The other steps.                                                        *)

\* Steps that take messages from queues, and neighbors from streams, and do nothing else to them.
LEMMA FewerKeepsInv ==
    ASSUME IInv, Typed',
           \A s \in Stream : Range(buffer'[s]) \subseteq Range(buffer[s]),
           \A s \in Stream : outbound'[s] \subseteq outbound[s],
           UNCHANGED <<answer, propagated>>, waiting' \subseteq waiting
    PROVE  IInv'
<1>1. Typed /\ NobodyToSendTo /\ PropagatedAtMostOnce /\ GoneIsSettled
  BY DEF IInv
<1>2. NobodyToSendTo'
  BY <1>1, FewerIsFine
<1>3. PropagatedAtMostOnce' /\ GoneIsSettled'
  BY <1>1 DEF PropagatedAtMostOnce, GoneIsSettled
<1>4. QED
  BY <1>2, <1>3 DEF IInv

\* subscribeToStreamOnNode: the neighbor is new, but no message of the stream waits any more.
LEMMA AddNeighborKeepsInv ==
    ASSUME IInv, NEW p \in Peer, NEW s \in Stream, AddNeighbor(p, s)
    PROVE  IInv'
<1>1. Typed /\ NobodyToSendTo /\ PropagatedAtMostOnce /\ GoneIsSettled
  BY DEF IInv
<1>2. /\ outbound' = [outbound EXCEPT ![s] = outbound[s] \cup {p}]
      /\ handling' = buffer[s]
      /\ buffer' = [buffer EXCEPT ![s] = <<>>]
      /\ UNCHANGED <<answer, waiting, propagated>>
  BY DEF AddNeighbor, TakeBuffered, PopAll
<1>3. /\ buffer' \in [Stream -> Seq(Buffered)] /\ outbound' \in [Stream -> SUBSET Peer]
      /\ buffer'[s] = <<>>
      /\ \A r \in Stream \ {s} : buffer'[r] = buffer[r] /\ outbound'[r] = outbound[r]
  BY <1>1, <1>2 DEF Typed
<1>4. Typed'
  BY <1>1, <1>2, <1>3 DEF Typed
<1>5. Range(buffer'[s]) = {}
  BY <1>3 DEF Range
<1>6. NobodyToSendTo'
  BY <1>1, <1>3, <1>5 DEF NobodyToSendTo
<1>7. PropagatedAtMostOnce' /\ GoneIsSettled'
  BY <1>1, <1>2 DEF PropagatedAtMostOnce, GoneIsSettled
<1>8. QED
  BY <1>4, <1>6, <1>7 DEF IInv

\* unsubscribeFromStream: the stream has no neighbors any more, and starts anew.
LEMMA UnsubscribeKeepsInv ==
    ASSUME IInv, NEW s \in Stream, Unsubscribe(s)
    PROVE  IInv'
<1>1. Typed /\ NobodyToSendTo /\ PropagatedAtMostOnce /\ GoneIsSettled
  BY DEF IInv
<1>2. /\ UNCHANGED <<buffer, handling, waiting>>
      /\ outbound' = [outbound EXCEPT ![s] = {}]
      /\ answer' = [m \in Message |-> IF StreamOf[m] = s THEN "none" ELSE answer[m]]
      /\ propagated' = [m \in Message |-> IF StreamOf[m] = s THEN 0 ELSE propagated[m]]
  BY DEF Unsubscribe, bufferVars
<1>3. Typed'
  BY <1>1, <1>2 DEF Typed
<1>4. \A r \in Stream : outbound'[r] \subseteq outbound[r]
  BY <1>1, <1>2 DEF Typed
<1>5. NobodyToSendTo'
  BY <1>1, <1>2, <1>4 DEF NobodyToSendTo
<1>6. PropagatedAtMostOnce'
  BY <1>1, <1>2 DEF PropagatedAtMostOnce
<1>7. GoneIsSettled'
  BY <1>1, <1>2 DEF GoneIsSettled
<1>8. QED
  BY <1>3, <1>5, <1>6, <1>7 DEF IInv

\* A timer fires, or the node stops.
LEMMA TakenKeepsInv ==
    ASSUME IInv, UNCHANGED nodeVars,
           \/ Clear
           \/ \E s \in Stream : buffer' = [buffer EXCEPT ![s] = RestOf(buffer[s])]
    PROVE  IInv'
<1>1. Typed
  BY DEF IInv
<1>2. UNCHANGED <<outbound, answer, waiting, handling, propagated>>
  BY DEF nodeVars
<1>3. CASE Clear
  <2>1. buffer' = [s \in Stream |-> <<>>]
    BY <1>3 DEF Clear
  <2>2. \A s \in Stream : Range(buffer'[s]) \subseteq Range(buffer[s])
    BY <2>1 DEF Range
  <2>3. Typed'
    BY <1>1, <1>2, <2>1 DEF Typed
  <2>4. QED
    BY <1>2, <2>2, <2>3, FewerKeepsInv
<1>4. ASSUME NEW s \in Stream, buffer' = [buffer EXCEPT ![s] = RestOf(buffer[s])]
      PROVE  IInv'
  <2>1. RestOf(buffer[s]) \in Seq(Buffered) /\ Range(RestOf(buffer[s])) \subseteq Range(buffer[s])
    BY <1>1, RestIsPart DEF Typed
  <2>2. buffer' \in [Stream -> Seq(Buffered)]
    BY <1>1, <1>4, <2>1 DEF Typed
  <2>3. \A r \in Stream : Range(buffer'[r]) \subseteq Range(buffer[r])
    BY <1>1, <1>4, <2>1 DEF Typed
  <2>4. Typed'
    BY <1>1, <1>2, <2>2 DEF Typed
  <2>5. QED
    BY <1>2, <2>3, <2>4, FewerKeepsInv
<1>5. QED
  BY <1>3, <1>4

\* Neighbors go, sends end, elements get too old.
LEMMA RestKeepsInv ==
    ASSUME IInv, UNCHANGED <<buffer, answer, handling, propagated>>, waiting' \subseteq waiting,
           \/ UNCHANGED outbound
           \/ \E p \in Peer : outbound' = WithoutPeer(p)
           \/ \E p \in Peer, s \in Stream : outbound' = [outbound EXCEPT ![s] = outbound[s] \ {p}]
    PROVE  IInv'
<1>1. Typed
  BY DEF IInv
<1>2. /\ outbound' \in [Stream -> SUBSET Peer]
      /\ \A s \in Stream : outbound'[s] \subseteq outbound[s]
  <2>1. CASE UNCHANGED outbound
    BY <1>1, <2>1 DEF Typed
  <2>2. CASE \E p \in Peer : outbound' = WithoutPeer(p)
    BY <1>1, <2>2 DEF Typed, WithoutPeer
  <2>3. CASE \E p \in Peer, s \in Stream : outbound' = [outbound EXCEPT ![s] = outbound[s] \ {p}]
    BY <1>1, <2>3 DEF Typed
  <2>4. QED
    BY <2>1, <2>2, <2>3
<1>3. Typed'
  BY <1>1, <1>2 DEF Typed
<1>4. QED
  BY <1>2, <1>3, FewerKeepsInv

LEMMA HandleBufferedKeepsInv ==
    ASSUME IInv, HandleBuffered
    PROVE  IInv'
<1>1. handling \in Seq(Buffered) /\ handling # <<>>
  BY DEF IInv, Typed, HandleBuffered
<1>2. Head(handling) \in Buffered /\ handling' \in Seq(Buffered)
  BY <1>1 DEF HandleBuffered
<1>3. Head(handling).message \in Message /\ Head(handling).source \in Source
  BY <1>2, BufferedFields
<1>4. OnDataReceived(Head(handling).message, Head(handling).source)
  BY DEF HandleBuffered
<1>5. QED
  BY <1>2, <1>3, <1>4, ReceiveKeepsInv

LEMMA InitInv == Init => IInv
<1> SUFFICES ASSUME Init
             PROVE  IInv
  OBVIOUS
<1>1. /\ buffer = [s \in Stream |-> <<>>]
      /\ handling = <<>>
      /\ outbound = [s \in Stream |-> {}]
      /\ answer = [m \in Message |-> "none"]
      /\ propagated = [m \in Message |-> 0]
  BY DEF Init, BufferInit
<1>2. Typed
  BY <1>1 DEF Typed
<1>3. NobodyToSendTo
  BY <1>1 DEF NobodyToSendTo, Range
<1>4. PropagatedAtMostOnce /\ GoneIsSettled
  BY <1>1 DEF PropagatedAtMostOnce, GoneIsSettled
<1>5. QED
  BY <1>2, <1>3, <1>4 DEF IInv

LEMMA StepInv == IInv /\ [Next]_vars => IInv'
<1> SUFFICES ASSUME IInv, [Next]_vars
             PROVE  IInv'
  OBVIOUS
<1>1. ASSUME NEW m \in Message, NEW source \in Source, Receive(m, source)
      PROVE  IInv'
  <2>1. handling' \in Seq(Buffered)
    BY <1>1 DEF Receive, IInv, Typed
  <2>2. QED
    BY <1>1, <2>1, ReceiveKeepsInv DEF Receive
<1>2. ASSUME NEW p \in Peer, NEW s \in Stream, AddNeighbor(p, s)
      PROVE  IInv'
  BY <1>2, AddNeighborKeepsInv
<1>3. ASSUME NEW p \in Peer, NEW s \in Stream, RemoveNeighbor(p, s)
      PROVE  IInv'
  BY <1>3, RestKeepsInv DEF RemoveNeighbor, bufferVars
<1>4. CASE HandleBuffered
  BY <1>4, HandleBufferedKeepsInv
<1>5. ASSUME NEW p \in Peer, NodeDisconnected(p)
      PROVE  IInv'
  BY <1>5, RestKeepsInv DEF NodeDisconnected, bufferVars
<1>6. ASSUME NEW p \in Peer, SendSucceeds(p) \/ SendFails(p)
      PROVE  IInv'
  BY <1>6, RestKeepsInv DEF SendSucceeds, SendFails, bufferVars
<1>7. ASSUME NEW s \in Stream, Subscribe(s)
      PROVE  IInv'
  BY <1>7, RestKeepsInv DEF Subscribe, bufferVars
<1>8. ASSUME NEW s \in Stream, Unsubscribe(s)
      PROVE  IInv'
  BY <1>8, UnsubscribeKeepsInv
<1>9. ASSUME NEW m \in Message, Expire(m)
      PROVE  IInv'
  BY <1>9, RestKeepsInv DEF Expire, Delete, bufferVars
<1>10. CASE BufferTimeout
  <2>1. PICK s : buffer' = [buffer EXCEPT ![s] = RestOf(buffer[s])]
    BY <1>10 DEF BufferTimeout, TimerFires
  <2>2. CASE s \in Stream
    BY <1>10, <2>1, <2>2, TakenKeepsInv DEF BufferTimeout
  <2>3. CASE s \notin Stream
    <3>1. buffer' = buffer
      BY <2>1, <2>3 DEF IInv, Typed
    <3>2. QED
      BY <1>10, <3>1, RestKeepsInv DEF BufferTimeout, nodeVars
  <2>4. QED
    BY <2>2, <2>3
<1>11. CASE Stop
  BY <1>11, TakenKeepsInv DEF Stop
<1>12. CASE UNCHANGED vars
  BY <1>12, RestKeepsInv DEF vars, bufferVars, nodeVars
<1>13. QED
  BY <1>1, <1>2, <1>3, <1>4, <1>5, <1>6, <1>7, <1>8, <1>9, <1>10, <1>11, <1>12 DEF Next

\* Whatever happens to a node, a message is in its buffer only as long as the stream has no
\* neighbor other than the one the message came from: propagateMessage, handleBufferedMessages.
THEOREM WaitsForANeighbor == Spec => []NobodyToSendTo
<1>1. IInv => NobodyToSendTo
  BY DEF IInv
<1>2. QED
  BY InitInv, StepInv, <1>1, PTL DEF Spec

\* However many copies of a message arrive, wait and are handled again, a node propagates it at
\* most once while the stream stays set up: onDataReceived, propagateMessage.
THEOREM NoSecondPropagation == Spec => []PropagatedAtMostOnce
<1>1. IInv => PropagatedAtMostOnce
  BY DEF IInv
<1>2. QED
  BY InitInv, StepInv, <1>1, PTL DEF Spec

-----------------------------------------------------------------------------
(* Timers, and the order in which they were armed.                         *)

\* The strengthening: a timer is armed for one message, and the order of the timers is strict.
TimersIn(timers, s) == { a.timer : a \in { b \in timers : b.stream = s } }
Owned(s, refs, q, timers, before) ==
    /\ Len(refs) = Len(q)
    /\ TimersIn(timers, s) = Range(refs)
    /\ \A i, j \in 1 .. Len(refs) :
         i < j => refs[i] # refs[j] /\ <<refs[i], refs[j]>> \in before
Strict(before) == \A pair \in before : <<pair[2], pair[1]>> \notin before
ArmedOnce(timers) ==
    /\ timers \subseteq [timer : Timer, stream : Stream]
    /\ \A a, b \in timers : a.timer = b.timer => a = b
TimersOf(timers) == { a.timer : a \in timers }

TimersInv ==
    /\ timeoutRefs \in [Stream -> Seq(Timer)]
    /\ ArmedOnce(armed)
    /\ Strict(armedBefore)
    /\ EachMessageHasItsTimer

LEMMA EachIsOwned ==
    EachMessageHasItsTimer <=>
        \A s \in Stream : Owned(s, timeoutRefs[s], buffer[s], armed, armedBefore)
BY DEF EachMessageHasItsTimer, Owned, TimersIn

LEMMA EachIsOwnedNext ==
    EachMessageHasItsTimer' <=>
        \A s \in Stream : Owned(s, timeoutRefs'[s], buffer'[s], armed', armedBefore')
BY DEF EachMessageHasItsTimer, Owned, TimersIn

\* What is left of a strict order is strict, also when something new comes last.
LEMMA StrictWithNewest ==
    ASSUME NEW before, Strict(before), NEW E, NEW t, t \notin E
    PROVE  Strict(Among(before, E)) /\ Strict(Among(before, E) \cup (E \X {t}))
<1>1. Strict(Among(before, E))
  BY DEF Strict, Among
<1>2. ASSUME NEW pair \in Among(before, E) \cup (E \X {t})
      PROVE  <<pair[2], pair[1]>> \notin Among(before, E) \cup (E \X {t})
  <2>1. CASE pair \in Among(before, E)
    <3>1. pair[1] \in E /\ pair[2] \in E /\ <<pair[2], pair[1]>> \notin before
      BY <2>1 DEF Strict, Among
    <3>2. <<pair[2], pair[1]>> \notin E \X {t}
      BY <3>1
    <3>3. QED
      BY <3>1, <3>2 DEF Among
  <2>2. CASE pair \in E \X {t}
    <3>1. pair[2] = t /\ pair[2] \notin E
      BY <2>2
    <3>2. <<pair[2], pair[1]>>[1] = pair[2]
      OBVIOUS
    <3>3. QED
      BY <3>1, <3>2 DEF Among
  <2>3. QED
    BY <1>2, <2>1, <2>2
<1>3. QED
  BY <1>1, <1>2 DEF Strict

\* Timers of other streams come and go.
LEMMA OthersStayOwned ==
    ASSUME NEW r, NEW refs \in Seq(Timer), NEW q, NEW timers, NEW before,
           Owned(r, refs, q, timers, before),
           NEW others, NEW after, TimersIn(others, r) = TimersIn(timers, r),
           Among(before, TimersIn(timers, r)) \subseteq after
    PROVE  Owned(r, refs, q, others, after)
<1>1. \A i \in 1 .. Len(refs) : refs[i] \in TimersIn(timers, r)
  BY DEF Owned, Range
<1>2. ASSUME NEW i \in 1 .. Len(refs), NEW j \in 1 .. Len(refs), i < j
      PROVE  refs[i] # refs[j] /\ <<refs[i], refs[j]>> \in after
  <2>1. refs[i] # refs[j] /\ <<refs[i], refs[j]>> \in before
    BY <1>2 DEF Owned
  <2>2. <<refs[i], refs[j]>> \in Among(before, TimersIn(timers, r))
    BY <1>1, <2>1 DEF Among
  <2>3. QED
    BY <2>1, <2>2
<1>3. QED
  BY <1>2 DEF Owned

\* The first message of a queue goes with its timer.
LEMMA PopOwned ==
    ASSUME NEW s, NEW refs \in Seq(Timer), NEW q \in Seq(Buffered), NEW timers, NEW before,
           Owned(s, refs, q, timers, before), refs # <<>>,
           NEW left, left = { a \in timers : a.timer # Head(refs) }
    PROVE  Owned(s, Tail(refs), Tail(q), left, Among(before, TimersOf(left)))
<1>1. /\ Len(refs) \in Nat \ {0} /\ Len(refs) = Len(q) /\ q # <<>>
      /\ Tail(refs) \in Seq(Timer) /\ Len(Tail(refs)) = Len(refs) - 1
      /\ Len(Tail(q)) = Len(q) - 1
      /\ \A i \in 1 .. Len(Tail(refs)) : Tail(refs)[i] = refs[i + 1]
  BY HeadTailProperties, EmptySeq DEF Owned
<1>2. \A i \in 1 .. Len(Tail(refs)) : i + 1 \in 1 .. Len(refs) /\ 1 < i + 1 /\ 1 \in 1 .. Len(refs)
  BY <1>1
<1>3. \A i \in 2 .. Len(refs) : refs[i] # Head(refs)
  <2>1. TAKE i \in 2 .. Len(refs)
  <2>2. 1 \in 1 .. Len(refs) /\ i \in 1 .. Len(refs) /\ 1 < i
    BY <1>1
  <2>3. refs[1] # refs[i]
    BY <2>2 DEF Owned
  <2>4. Head(refs) = refs[1]
    OBVIOUS
  <2>5. QED
    BY <2>3, <2>4
<1>4. Range(Tail(refs)) = Range(refs) \ {Head(refs)}
  <2>1. Range(refs) = { refs[i] : i \in 1 .. Len(refs) }
    BY RangeEquality
  <2>2. Range(Tail(refs)) = { Tail(refs)[i] : i \in 1 .. Len(Tail(refs)) }
    BY <1>1, RangeEquality
  <2>3. ASSUME NEW t \in Range(Tail(refs)) PROVE t \in Range(refs) \ {Head(refs)}
    <3>1. PICK i \in 1 .. Len(Tail(refs)) : t = Tail(refs)[i]
      BY <2>2
    <3>2. i + 1 \in 2 .. Len(refs) /\ i + 1 \in 1 .. Len(refs) /\ t = refs[i + 1]
      BY <1>1, <3>1
    <3>3. QED
      BY <1>3, <2>1, <3>2
  <2>4. ASSUME NEW t \in Range(refs) \ {Head(refs)} PROVE t \in Range(Tail(refs))
    <3>1. PICK i \in 1 .. Len(refs) : t = refs[i]
      BY <2>1
    <3>2. i # 1
      BY <3>1
    <3>3. i - 1 \in 1 .. Len(Tail(refs)) /\ (i - 1) + 1 = i
      BY <1>1, <3>2
    <3>4. t = Tail(refs)[i - 1]
      BY <1>1, <3>1, <3>3
    <3>5. QED
      BY <2>2, <3>3, <3>4
  <2>5. QED
    BY <2>3, <2>4
<1>5. TimersIn(left, s) = TimersIn(timers, s) \ {Head(refs)}
  BY DEF TimersIn
<1>6. \A i \in 1 .. Len(Tail(refs)) : Tail(refs)[i] \in TimersOf(left)
  <2>1. \A i \in 1 .. Len(Tail(refs)) : Tail(refs)[i] \in Range(Tail(refs))
    BY <1>1, RangeEquality
  <2>2. TimersIn(left, s) = Range(Tail(refs))
    BY <1>4, <1>5 DEF Owned
  <2>3. QED
    BY <2>1, <2>2 DEF TimersIn, TimersOf
<1>7. ASSUME NEW i \in 1 .. Len(Tail(refs)), NEW j \in 1 .. Len(Tail(refs)), i < j
      PROVE  /\ Tail(refs)[i] # Tail(refs)[j]
             /\ <<Tail(refs)[i], Tail(refs)[j]>> \in Among(before, TimersOf(left))
  <2>1. i + 1 \in 1 .. Len(refs) /\ j + 1 \in 1 .. Len(refs) /\ i + 1 < j + 1
    BY <1>1, <1>7
  <2>2. refs[i + 1] # refs[j + 1] /\ <<refs[i + 1], refs[j + 1]>> \in before
    BY <2>1 DEF Owned
  <2>3. Tail(refs)[i] = refs[i + 1] /\ Tail(refs)[j] = refs[j + 1]
    BY <1>1
  <2>4. Tail(refs)[i] \in TimersOf(left) /\ Tail(refs)[j] \in TimersOf(left)
    BY <1>6
  <2>5. QED
    BY <2>2, <2>3, <2>4 DEF Among
<1>8. QED
  BY <1>1, <1>4, <1>5, <1>7 DEF Owned

\* A message is appended with a new timer.
LEMMA AppendOwned ==
    ASSUME NEW s, NEW refs \in Seq(Timer), NEW q \in Seq(Buffered), NEW timers, NEW before,
           Owned(s, refs, q, timers, before),
           NEW e \in Buffered, NEW t \in Timer, t \notin TimersOf(timers)
    PROVE  Owned(s, Append(refs, t), Append(q, e), timers \cup {[timer |-> t, stream |-> s]},
                 Among(before, TimersOf(timers)) \cup (TimersOf(timers) \X {t}))
<1> DEFINE new == [timer |-> t, stream |-> s]
           after == Among(before, TimersOf(timers)) \cup (TimersOf(timers) \X {t})
<1>1. /\ Len(refs) = Len(q) /\ Len(refs) \in Nat
      /\ Append(refs, t) \in Seq(Timer)
      /\ Len(Append(refs, t)) = Len(refs) + 1 /\ Len(Append(q, e)) = Len(q) + 1
      /\ \A i \in 1 .. Len(refs) : Append(refs, t)[i] = refs[i]
      /\ Append(refs, t)[Len(refs) + 1] = t
  BY AppendProperties, LenProperties DEF Owned
<1>2. \A i \in 1 .. Len(refs) : refs[i] \in TimersOf(timers)
  <2>1. \A i \in 1 .. Len(refs) : refs[i] \in Range(refs)
    BY DEF Range
  <2>2. Range(refs) \subseteq TimersOf(timers)
    BY DEF Owned, TimersIn, TimersOf
  <2>3. QED
    BY <2>1, <2>2
<1>3. Range(Append(refs, t)) = Range(refs) \cup {t}
  <2>1. Range(refs) = { refs[i] : i \in 1 .. Len(refs) }
    BY RangeEquality
  <2>2. Range(Append(refs, t)) = { Append(refs, t)[i] : i \in 1 .. Len(refs) + 1 }
    BY <1>1, RangeEquality
  <2>3. \A i \in 1 .. Len(refs) + 1 : i \in 1 .. Len(refs) \/ i = Len(refs) + 1
    BY <1>1
  <2>4. \A i \in 1 .. Len(refs) : i \in 1 .. Len(refs) + 1
    BY <1>1
  <2>5. Len(refs) + 1 \in 1 .. Len(refs) + 1
    BY <1>1
  <2>6. QED
    BY <1>1, <2>1, <2>2, <2>3, <2>4, <2>5
<1>4. TimersIn(timers \cup {new}, s) = TimersIn(timers, s) \cup {t}
  <2>1. new.timer = t /\ new.stream = s
    OBVIOUS
  <2> HIDE DEF new
  <2>2. { b \in timers \cup {new} : b.stream = s } = { b \in timers : b.stream = s } \cup {new}
    BY <2>1
  <2>3. QED
    BY <2>1, <2>2 DEF TimersIn
<1>5. ASSUME NEW i \in 1 .. Len(refs) + 1, NEW j \in 1 .. Len(refs) + 1, i < j
      PROVE  /\ Append(refs, t)[i] # Append(refs, t)[j]
             /\ <<Append(refs, t)[i], Append(refs, t)[j]>> \in after
  <2>1. i \in 1 .. Len(refs) /\ Append(refs, t)[i] = refs[i] /\ refs[i] \in TimersOf(timers)
    BY <1>1, <1>2, <1>5
  <2>2. CASE j = Len(refs) + 1
    <3>1. Append(refs, t)[j] = t
      BY <1>1, <2>2
    <3>2. QED
      BY <2>1, <3>1
  <2>3. CASE j # Len(refs) + 1
    <3>1. j \in 1 .. Len(refs)
      BY <1>1, <2>3
    <3>2. Append(refs, t)[j] = refs[j] /\ refs[j] \in TimersOf(timers)
      BY <1>1, <1>2, <3>1
    <3>3. refs[i] # refs[j] /\ <<refs[i], refs[j]>> \in before
      BY <1>5, <2>1, <3>1 DEF Owned
    <3>4. QED
      BY <2>1, <3>2, <3>3 DEF Among
  <2>4. QED
    BY <2>2, <2>3
<1> HIDE DEF after, new
<1>6. Owned(s, Append(refs, t), Append(q, e), timers \cup {new}, after)
  BY <1>1, <1>3, <1>4, <1>5 DEF Owned
<1>7. QED
  BY <1>6 DEF after, new

\* put: the first message of a full queue goes, and the new one gets a new timer.
LEMMA PutKeepsTimers ==
    ASSUME Typed, TimersInv, NEW s \in Stream, NEW e \in Buffered, Put(s, e)
    PROVE  TimersInv'
<1>1. PICK t \in Timer \ TimersOf(armed) :
        LET q == IF MakesRoom(s) THEN RestOf(buffer[s]) ELSE buffer[s]
            refs == IF MakesRoom(s) THEN RestOf(timeoutRefs[s]) ELSE timeoutRefs[s]
            others == Without(IF MakesRoom(s) THEN FirstOf(timeoutRefs[s]) ELSE {})
            earlier == TimersOf(others)
        IN  /\ buffer' = [buffer EXCEPT ![s] = Append(q, e)]
            /\ timeoutRefs' = [timeoutRefs EXCEPT ![s] = Append(refs, t)]
            /\ armed' = others \cup {[timer |-> t, stream |-> s]}
            /\ armedBefore' = Among(armedBefore, earlier) \cup (earlier \X {t})
  BY DEF Put, TimersOf
<1> DEFINE q == IF MakesRoom(s) THEN RestOf(buffer[s]) ELSE buffer[s]
           refs == IF MakesRoom(s) THEN RestOf(timeoutRefs[s]) ELSE timeoutRefs[s]
           others == Without(IF MakesRoom(s) THEN FirstOf(timeoutRefs[s]) ELSE {})
           earlier == TimersOf(others)
           between == Among(armedBefore, earlier)
           new == [timer |-> t, stream |-> s]
<1>2. /\ buffer' = [buffer EXCEPT ![s] = Append(q, e)]
      /\ timeoutRefs' = [timeoutRefs EXCEPT ![s] = Append(refs, t)]
      /\ armed' = others \cup {new}
      /\ armedBefore' = between \cup (earlier \X {t})
  BY <1>1
<1>3. /\ buffer \in [Stream -> Seq(Buffered)] /\ timeoutRefs \in [Stream -> Seq(Timer)]
      /\ ArmedOnce(armed) /\ Strict(armedBefore)
      /\ \A r \in Stream : Owned(r, timeoutRefs[r], buffer[r], armed, armedBefore)
  BY EachIsOwned DEF Typed, TimersInv
<1>4. others \subseteq armed
  BY DEF Without
<1>5. t \notin earlier /\ t \notin TimersOf(armed)
  BY <1>4 DEF TimersOf
<1>6. between = Among(armedBefore, earlier) /\ Among(between, earlier) = between
  BY DEF Among
<1>7. /\ q \in Seq(Buffered) /\ refs \in Seq(Timer)
      /\ Owned(s, refs, q, others, between)
  <2>1. CASE MakesRoom(s) /\ timeoutRefs[s] # <<>>
    <3>1. Len(buffer[s]) = Len(timeoutRefs[s]) /\ buffer[s] # <<>>
      BY <1>3, <2>1, EmptySeq DEF Owned
    <3>2. /\ q = Tail(buffer[s]) /\ refs = Tail(timeoutRefs[s])
          /\ others = { a \in armed : a.timer # Head(timeoutRefs[s]) }
      BY <2>1, <3>1 DEF RestOf, FirstOf, Without
    <3>3. Tail(buffer[s]) \in Seq(Buffered) /\ Tail(timeoutRefs[s]) \in Seq(Timer)
      BY <1>3, <2>1, <3>1, HeadTailProperties
    <3> HIDE DEF others, q, refs
    <3>4. Owned(s, Tail(timeoutRefs[s]), Tail(buffer[s]), others, Among(armedBefore, TimersOf(others)))
      BY <1>3, <2>1, <3>2, PopOwned
    <3>5. QED
      BY <3>2, <3>3, <3>4
  <2>2. CASE MakesRoom(s) /\ timeoutRefs[s] = <<>>
    <3>1. Len(buffer[s]) >= 2 /\ Len(buffer[s]) = 0
      BY <1>3, <2>2, MaxSizeAssumption, LenProperties DEF MakesRoom, Owned
    <3>2. QED
      BY <3>1
  <2>3. CASE ~ MakesRoom(s)
    <3>1. q = buffer[s] /\ refs = timeoutRefs[s] /\ others = armed
      BY <2>3 DEF Without
    <3>2. TimersIn(armed, s) \subseteq TimersOf(armed)
      BY DEF TimersIn, TimersOf
    <3>3. Among(armedBefore, TimersIn(armed, s)) \subseteq between
      BY <3>1, <3>2 DEF Among
    <3> HIDE DEF others, q, refs, between
    <3>4. Owned(s, timeoutRefs[s], buffer[s], others, between)
      BY <1>3, <3>1, <3>3, OthersStayOwned
    <3>5. QED
      BY <1>3, <3>1, <3>4
  <2>4. QED
    BY <2>1, <2>2, <2>3
<1>8. \A a \in armed : a.stream # s => a \in others
  <2> SUFFICES ASSUME NEW a \in armed, a.stream # s, MakesRoom(s)
               PROVE  a.timer \notin FirstOf(timeoutRefs[s])
    BY DEF Without
  <2>1. FirstOf(timeoutRefs[s]) \subseteq TimersIn(armed, s)
    <3>1. CASE timeoutRefs[s] = <<>>
      BY <3>1 DEF FirstOf
    <3>2. CASE timeoutRefs[s] # <<>>
      <4>1. 1 \in 1 .. Len(timeoutRefs[s]) /\ Head(timeoutRefs[s]) = timeoutRefs[s][1]
        BY <1>3, <3>2, EmptySeq
      <4>2. timeoutRefs[s][1] \in Range(timeoutRefs[s])
        BY <1>3, <4>1, RangeEquality
      <4>3. QED
        BY <1>3, <3>2, <4>1, <4>2 DEF FirstOf, Owned
    <3>3. QED
      BY <3>1, <3>2
  <2>2. QED
    BY <1>3, <2>1 DEF TimersIn, ArmedOnce
<1> HIDE DEF q, refs, others, between
<1>9. t \in Timer /\ e \in Buffered
  OBVIOUS
<1>10. Owned(s, Append(refs, t), Append(q, e), armed', armedBefore')
  <2>1. Owned(s, Append(refs, t), Append(q, e), others \cup {new},
              Among(between, TimersOf(others)) \cup (TimersOf(others) \X {t}))
    BY <1>5, <1>7, <1>9, AppendOwned
  <2>2. QED
    BY <1>2, <1>6, <2>1
<1>11. ASSUME NEW r \in Stream \ {s}
       PROVE  Owned(r, timeoutRefs[r], buffer[r], armed', armedBefore')
  <2>1. TimersIn(armed', r) = TimersIn(armed, r)
    <3>1. { a \in armed' : a.stream = r } = { a \in armed : a.stream = r }
      BY <1>2, <1>4, <1>8
    <3>2. QED
      BY <3>1 DEF TimersIn
  <2>2. TimersIn(armed, r) \subseteq earlier
    BY <1>8 DEF TimersIn, TimersOf
  <2>3. Among(armedBefore, TimersIn(armed, r)) \subseteq armedBefore'
    BY <1>2, <1>6, <2>2 DEF Among
  <2>4. Owned(r, timeoutRefs[r], buffer[r], armed, armedBefore) /\ timeoutRefs[r] \in Seq(Timer)
    BY <1>3
  <2>5. QED
    BY <2>1, <2>3, <2>4, OthersStayOwned
<1>12. EachMessageHasItsTimer'
  <2>1. /\ timeoutRefs'[s] = Append(refs, t) /\ buffer'[s] = Append(q, e)
        /\ \A r \in Stream \ {s} : timeoutRefs'[r] = timeoutRefs[r] /\ buffer'[r] = buffer[r]
    BY <1>2, <1>3
  <2>2. \A r \in Stream : Owned(r, timeoutRefs'[r], buffer'[r], armed', armedBefore')
    BY <1>10, <1>11, <2>1
  <2>3. QED
    BY <2>2, EachIsOwnedNext
<1>13. timeoutRefs' \in [Stream -> Seq(Timer)]
  BY <1>2, <1>3, <1>7, <1>9, AppendProperties
<1>14. ArmedOnce(armed')
  BY <1>2, <1>3, <1>4, <1>5 DEF ArmedOnce, TimersOf
<1>15. Strict(armedBefore')
  BY <1>2, <1>3, <1>5, <1>6, StrictWithNewest
<1>16. QED
  BY <1>12, <1>13, <1>14, <1>15 DEF TimersInv, ArmedOnce, Strict

\* Timers of some streams are cleared with what is in the queues.
LEMMA DisarmKeeps ==
    ASSUME TimersInv, NEW ts, Disarm(ts)
    PROVE  /\ ArmedOnce(armed') /\ Strict(armedBefore')
           /\ armed' = { a \in armed : a.timer \notin ts }
           /\ armedBefore' = Among(armedBefore, TimersOf(armed'))
           /\ \A r \in Stream :
                (\A a \in armed : a.stream = r => a.timer \notin ts) =>
                    Owned(r, timeoutRefs[r], buffer[r], armed', armedBefore')
<1>1. armed' = { a \in armed : a.timer \notin ts }
  BY DEF Disarm, Without
<1>2. armedBefore' = Among(armedBefore, TimersOf(armed'))
  BY DEF Disarm, TimersOf
<1>3. ArmedOnce(armed')
  BY <1>1 DEF TimersInv, ArmedOnce
<1>4. Strict(armedBefore')
  BY <1>2 DEF TimersInv, Strict, Among
<1>5. ASSUME NEW r \in Stream, \A a \in armed : a.stream = r => a.timer \notin ts
      PROVE  Owned(r, timeoutRefs[r], buffer[r], armed', armedBefore')
  <2>1. { a \in armed' : a.stream = r } = { a \in armed : a.stream = r }
    BY <1>1, <1>5
  <2>2. TimersIn(armed', r) = TimersIn(armed, r)
    BY <2>1 DEF TimersIn
  <2>3. TimersIn(armed, r) \subseteq TimersOf(armed')
    BY <2>1 DEF TimersIn, TimersOf
  <2>4. Among(armedBefore, TimersIn(armed, r)) \subseteq armedBefore'
    BY <1>2, <2>3 DEF Among
  <2>5. Owned(r, timeoutRefs[r], buffer[r], armed, armedBefore) /\ timeoutRefs[r] \in Seq(Timer)
    BY EachIsOwned DEF TimersInv
  <2>6. QED
    BY <2>2, <2>4, <2>5, OthersStayOwned
<1>6. QED
  BY <1>1, <1>2, <1>3, <1>4, <1>5

\* A timer belongs to one stream.
LEMMA TimersAreApart ==
    ASSUME TimersInv, NEW s, NEW a \in armed, a.timer \in TimersIn(armed, s)
    PROVE  a.stream = s
BY DEF TimersInv, ArmedOnce, TimersIn

\* The timer that fires is that of the first message of its stream.
LEMMA TimerFiresKeepsTimers ==
    ASSUME Typed, TimersInv, TimerFires
    PROVE  TimersInv'
<1>1. PICK a \in armed :
        /\ \A b \in armed : <<b.timer, a.timer>> \notin armedBefore
        /\ buffer' = [buffer EXCEPT ![a.stream] = RestOf(buffer[a.stream])]
        /\ timeoutRefs' = [timeoutRefs EXCEPT ![a.stream] = RestOf(timeoutRefs[a.stream])]
        /\ Disarm({a.timer} \cup FirstOf(timeoutRefs[a.stream]))
  BY DEF TimerFires
<1> DEFINE s == a.stream
           refs == timeoutRefs[s]
           q == buffer[s]
<1>2. /\ s \in Stream /\ refs \in Seq(Timer) /\ q \in Seq(Buffered)
      /\ Owned(s, refs, q, armed, armedBefore)
  BY EachIsOwned DEF Typed, TimersInv, ArmedOnce
<1>3. a.timer \in Range(refs)
  BY <1>2 DEF Owned, TimersIn
<1>4. PICK i \in 1 .. Len(refs) : refs[i] = a.timer
  BY <1>2, <1>3, RangeEquality
<1>5. Len(refs) \in Nat /\ refs # <<>> /\ 1 \in 1 .. Len(refs)
  BY <1>2, <1>4, EmptySeq, LenProperties
<1>6. i = 1
  <2> SUFFICES ASSUME i # 1 PROVE FALSE
    OBVIOUS
  <2>1. <<refs[1], a.timer>> \in armedBefore
    <3>1. 1 < i
      BY <1>5
    <3>2. QED
      BY <1>2, <1>4, <1>5, <3>1 DEF Owned
  <2>2. refs[1] \in TimersIn(armed, s)
    BY <1>2, <1>5, RangeEquality DEF Owned
  <2>3. QED
    BY <1>1, <2>1, <2>2 DEF TimersIn
<1>7. a.timer = Head(refs) /\ FirstOf(refs) = {a.timer}
  BY <1>4, <1>5, <1>6 DEF FirstOf
<1>8. Disarm({a.timer})
  BY <1>1, <1>7
<1>9. q # <<>>
  BY <1>2, <1>5, EmptySeq DEF Owned
<1>10. /\ buffer' = [buffer EXCEPT ![s] = Tail(q)]
       /\ timeoutRefs' = [timeoutRefs EXCEPT ![s] = Tail(refs)]
       /\ Tail(refs) \in Seq(Timer)
  BY <1>1, <1>2, <1>5, <1>9, HeadTailProperties DEF RestOf
<1> HIDE DEF s, refs, q
<1>11. /\ ArmedOnce(armed') /\ Strict(armedBefore')
       /\ armed' = { b \in armed : b.timer \notin {a.timer} }
       /\ armedBefore' = Among(armedBefore, TimersOf(armed'))
       /\ \A r \in Stream :
            (\A b \in armed : b.stream = r => b.timer \notin {a.timer}) =>
                Owned(r, timeoutRefs[r], buffer[r], armed', armedBefore')
  BY <1>8, DisarmKeeps
<1>12. Owned(s, Tail(refs), Tail(q), armed', armedBefore')
  <2>1. armed' = { b \in armed : b.timer # Head(refs) }
    BY <1>7, <1>11
  <2>2. Owned(s, Tail(refs), Tail(q), armed', Among(armedBefore, TimersOf(armed')))
    BY <1>2, <1>5, <2>1, PopOwned
  <2>3. QED
    BY <1>11, <2>2
<1>13. \A r \in Stream \ {s} : Owned(r, timeoutRefs[r], buffer[r], armed', armedBefore')
  BY <1>11 DEF s, TimersInv, ArmedOnce
<1>14. timeoutRefs' \in [Stream -> Seq(Timer)]
  BY <1>10 DEF TimersInv
<1>15. EachMessageHasItsTimer'
  <2>1. /\ timeoutRefs'[s] = Tail(refs) /\ buffer'[s] = Tail(q)
        /\ \A r \in Stream \ {s} : timeoutRefs'[r] = timeoutRefs[r] /\ buffer'[r] = buffer[r]
    BY <1>2, <1>10 DEF Typed, TimersInv
  <2>2. \A r \in Stream : Owned(r, timeoutRefs'[r], buffer'[r], armed', armedBefore')
    BY <1>12, <1>13, <2>1
  <2>3. QED
    BY <2>2, EachIsOwnedNext
<1>16. QED
  BY <1>11, <1>14, <1>15 DEF TimersInv, ArmedOnce, Strict

\* popAll and clear: queues go with all their timers.
LEMMA EmptyOwned ==
    ASSUME NEW s, NEW timers, \A a \in timers : a.stream # s, NEW before
    PROVE  Owned(s, <<>>, <<>>, timers, before)
<1>1. TimersIn(timers, s) = {} /\ Range(<<>>) = {} /\ Len(<<>>) = 0
  BY DEF TimersIn, Range
<1>2. QED
  BY <1>1 DEF Owned

LEMMA PopAllKeepsTimers ==
    ASSUME Typed, TimersInv, NEW S \in SUBSET Stream,
           buffer' = [s \in Stream |-> IF s \in S THEN <<>> ELSE buffer[s]],
           timeoutRefs' = [s \in Stream |-> IF s \in S THEN <<>> ELSE timeoutRefs[s]],
           Disarm(UNION { Range(timeoutRefs[s]) : s \in S })
    PROVE  TimersInv'
<1> DEFINE ts == UNION { Range(timeoutRefs[s]) : s \in S }
<1>1. /\ ArmedOnce(armed') /\ Strict(armedBefore')
      /\ armed' = { a \in armed : a.timer \notin ts }
      /\ \A r \in Stream :
            (\A a \in armed : a.stream = r => a.timer \notin ts) =>
                Owned(r, timeoutRefs[r], buffer[r], armed', armedBefore')
  <2> HIDE DEF ts
  <2>1. Disarm(ts)
    BY DEF ts
  <2>2. QED
    BY <2>1, DisarmKeeps
<1>2. \A a \in armed : a.timer \in ts <=> a.stream \in S
  <2> TAKE a \in armed
  <2>1. \A r \in Stream : TimersIn(armed, r) = Range(timeoutRefs[r])
    BY EachIsOwned DEF TimersInv, Owned
  <2>2. ASSUME a.timer \in ts PROVE a.stream \in S
    <3>1. PICK r \in S : a.timer \in Range(timeoutRefs[r])
      BY <2>2
    <3>2. a.stream = r
      BY <2>1, <3>1, TimersAreApart
    <3>3. QED
      BY <3>2
  <2>3. ASSUME a.stream \in S PROVE a.timer \in ts
    <3>1. a.timer \in TimersIn(armed, a.stream)
      BY DEF TimersIn
    <3>2. QED
      BY <2>1, <2>3, <3>1
  <2>4. QED
    BY <2>2, <2>3
<1> HIDE DEF ts
<1>3. \A r \in S : Owned(r, <<>>, <<>>, armed', armedBefore')
  <2>1. \A r \in S : \A a \in armed' : a.stream # r
    BY <1>1, <1>2
  <2>2. QED
    BY <2>1, EmptyOwned
<1>4. \A r \in Stream \ S : Owned(r, timeoutRefs[r], buffer[r], armed', armedBefore')
  BY <1>1, <1>2
<1>5. \A r \in Stream : Owned(r, timeoutRefs'[r], buffer'[r], armed', armedBefore')
  <2> TAKE r \in Stream
  <2>1. CASE r \in S
    <3>1. timeoutRefs'[r] = <<>> /\ buffer'[r] = <<>>
      BY <2>1
    <3>2. QED
      BY <1>3, <2>1, <3>1
  <2>2. CASE r \notin S
    <3>1. timeoutRefs'[r] = timeoutRefs[r] /\ buffer'[r] = buffer[r]
      BY <2>2
    <3>2. QED
      BY <1>4, <2>2, <3>1
  <2>3. QED
    BY <2>1, <2>2
<1>6. timeoutRefs' \in [Stream -> Seq(Timer)]
  BY EmptySeq DEF TimersInv
<1>7. QED
  BY <1>1, <1>5, <1>6, EachIsOwnedNext DEF TimersInv, ArmedOnce, Strict

LEMMA InitTimers == Init => TimersInv
<1> SUFFICES ASSUME Init
             PROVE  TimersInv
  OBVIOUS
<1>1. /\ buffer = [s \in Stream |-> <<>>] /\ timeoutRefs = [s \in Stream |-> <<>>]
      /\ armed = {} /\ armedBefore = {}
  BY DEF Init, BufferInit
<1>2. timeoutRefs \in [Stream -> Seq(Timer)]
  BY <1>1, EmptySeq
<1>3. \A s \in Stream : Owned(s, timeoutRefs[s], buffer[s], armed, armedBefore)
  <2>1. \A s \in Stream : \A a \in armed : a.stream # s
    BY <1>1
  <2>2. \A s \in Stream : Owned(s, <<>>, <<>>, armed, armedBefore)
    BY <2>1, EmptyOwned
  <2>3. QED
    BY <1>1, <2>2
<1>4. ArmedOnce(armed) /\ Strict(armedBefore)
  BY <1>1 DEF ArmedOnce, Strict
<1>5. QED
  BY <1>2, <1>3, <1>4, EachIsOwned DEF TimersInv

LEMMA StepTimers == IInv /\ TimersInv /\ [Next]_vars => TimersInv'
<1> SUFFICES ASSUME Typed, TimersInv, [Next]_vars
             PROVE  TimersInv'
  BY DEF IInv
<1>1. ASSUME UNCHANGED bufferVars
      PROVE  TimersInv'
  BY <1>1 DEF bufferVars, TimersInv, ArmedOnce, Strict, EachMessageHasItsTimer
<1>2. ASSUME NEW m \in Message, NEW source \in Source, OnDataReceived(m, source)
      PROVE  TimersInv'
  <2>1. StreamOf[m] \in Stream /\ [message |-> m, source |-> source] \in Buffered
    BY PropagationAssumption, BufferedFields
  <2>2. PutBack(m, source) \/ UNCHANGED bufferVars
    BY <1>2 DEF OnDataReceived, PropagateMessage, SendTo, Ignore
  <2>3. QED
    BY <1>1, <2>1, <2>2, PutKeepsTimers DEF PutBack
<1>3. ASSUME NEW m \in Message, NEW source \in Source, Receive(m, source)
      PROVE  TimersInv'
  BY <1>2, <1>3 DEF Receive
<1>4. CASE HandleBuffered
  <2>1. Head(handling) \in Buffered
    BY <1>4 DEF HandleBuffered, Typed
  <2>2. Head(handling).message \in Message /\ Head(handling).source \in Source
    BY <2>1, BufferedFields
  <2>3. QED
    BY <1>2, <1>4, <2>2 DEF HandleBuffered
<1>5. ASSUME NEW p \in Peer, NEW s \in Stream, AddNeighbor(p, s)
      PROVE  TimersInv'
  <2>1. /\ buffer' = [buffer EXCEPT ![s] = <<>>]
        /\ timeoutRefs' = [timeoutRefs EXCEPT ![s] = <<>>]
        /\ Disarm(Range(timeoutRefs[s]))
    BY <1>5 DEF AddNeighbor, TakeBuffered, PopAll
  <2>2. /\ buffer' = [r \in Stream |-> IF r \in {s} THEN <<>> ELSE buffer[r]]
        /\ timeoutRefs' = [r \in Stream |-> IF r \in {s} THEN <<>> ELSE timeoutRefs[r]]
    BY <2>1 DEF Typed, TimersInv
  <2>3. UNION { Range(timeoutRefs[r]) : r \in {s} } = Range(timeoutRefs[s])
    OBVIOUS
  <2>4. QED
    BY <2>1, <2>2, <2>3, PopAllKeepsTimers
<1>6. CASE BufferTimeout
  BY <1>6, TimerFiresKeepsTimers DEF BufferTimeout
<1>7. CASE Stop
  <2>1. /\ buffer' = [r \in Stream |-> IF r \in Stream THEN <<>> ELSE buffer[r]]
        /\ timeoutRefs' = [r \in Stream |-> IF r \in Stream THEN <<>> ELSE timeoutRefs[r]]
        /\ Disarm(UNION { Range(timeoutRefs[s]) : s \in Stream })
    BY <1>7 DEF Stop, Clear
  <2>2. QED
    BY <2>1, PopAllKeepsTimers
<1>8. ASSUME NEW p \in Peer, NEW s \in Stream, RemoveNeighbor(p, s)
      PROVE  TimersInv'
  BY <1>1, <1>8 DEF RemoveNeighbor
<1>9. ASSUME NEW p \in Peer, NodeDisconnected(p) \/ SendSucceeds(p) \/ SendFails(p)
      PROVE  TimersInv'
  BY <1>1, <1>9 DEF NodeDisconnected, SendSucceeds, SendFails
<1>10. ASSUME NEW s \in Stream, Subscribe(s) \/ Unsubscribe(s)
       PROVE  TimersInv'
  BY <1>1, <1>10 DEF Subscribe, Unsubscribe
<1>11. ASSUME NEW m \in Message, Expire(m)
       PROVE  TimersInv'
  BY <1>1, <1>11 DEF Expire
<1>12. CASE UNCHANGED vars
  BY <1>1, <1>12 DEF vars
<1>13. QED
  BY <1>3, <1>4, <1>5, <1>6, <1>7, <1>8, <1>9, <1>10, <1>11, <1>12 DEF Next

\* Each buffered message has a timer of its own and no timer outlives its message, and they fire
\* in the order of their queue: MessageBuffer's put, pop, popAll and clear.
THEOREM TimersGoWithMessages == Spec => []EachMessageHasItsTimer
<1>1. Spec => []TimersInv
  BY InitInv, StepInv, InitTimers, StepTimers, PTL DEF Spec
<1>2. TimersInv => EachMessageHasItsTimer
  BY DEF TimersInv
<1>3. QED
  BY <1>1, <1>2, PTL

-----------------------------------------------------------------------------
(* What waits is remembered.  SeenButNotPropagatedSet is shared by all     *)
(* streams and forgets what was set longest ago, whether that still waits  *)
(* or not: nothing is promised unless the node has one stream, and the set *)
(* room for what its buffer holds.                                         *)

OneStream ==
    /\ \A r, s \in Stream : r = s
    /\ MaxSize <= MaxElements

\* What is in the queue or taken from it, in the order in which it was put back.
Waits(s) == handling \o buffer[s]
From(q, i) == { q[j].message : j \in i .. Len(q) }
Due == { m \in Message : answer[m] = "new" /\ propagated[m] = 0 }

\* The strengthening: what is in the set and not in the queue, or only earlier in the queue, was
\* set before.
InOrder(q, set, before) ==
    \A i \in 1 .. Len(q) :
        q[i].message \in set => \A n \in set \ From(q, i) : <<n, q[i].message>> \in before

WaitsSound(q, set, before, due) ==
    /\ Strict(before)
    /\ Len(q) <= MaxSize
    /\ InOrder(q, set, before)
    /\ \A i \in 1 .. Len(q) : q[i].message \in due => q[i].message \in set
WaitsInv == \A s \in Stream : WaitsSound(Waits(s), waiting, setBefore, Due)

\* A queue from which the first message goes, or all go, or none.
Part(rest, q) == rest = q \/ rest = <<>> \/ (q # <<>> /\ rest = Tail(q))

LEMMA PartElements ==
    ASSUME NEW q \in Seq(Buffered), NEW rest, Part(rest, q)
    PROVE  /\ rest \in Seq(Buffered) /\ Len(rest) <= Len(q)
           /\ \A i \in 1 .. Len(rest) : \E j \in 1 .. Len(q) :
                rest[i] = q[j] /\ From(rest, i) = From(q, j)
<1>1. CASE rest = q
  BY <1>1, LenProperties
<1>2. CASE rest = <<>>
  BY <1>2, EmptySeq, LenProperties
<1>3. CASE q # <<>> /\ rest = Tail(q)
  <2>1. /\ rest \in Seq(Buffered) /\ Len(rest) = Len(q) - 1 /\ Len(q) \in Nat
        /\ \A i \in 1 .. Len(rest) : rest[i] = q[i + 1]
    BY <1>3, HeadTailProperties, LenProperties
  <2>2. ASSUME NEW i \in 1 .. Len(rest)
        PROVE  i + 1 \in 1 .. Len(q) /\ From(rest, i) = From(q, i + 1)
    <3>1. i + 1 \in 1 .. Len(q)
      BY <2>1
    <3>2. ASSUME NEW m \in From(rest, i) PROVE m \in From(q, i + 1)
      <4>1. PICK j \in i .. Len(rest) : m = rest[j].message
        BY <3>2 DEF From
      <4>2. j \in Int /\ j >= i /\ j <= Len(rest) /\ i \in Int /\ i >= 1
        BY <2>1
      <4>3. j \in 1 .. Len(rest) /\ j + 1 \in i + 1 .. Len(q)
        BY <2>1, <4>2
      <4>4. rest[j] = q[j + 1]
        BY <2>1, <4>3
      <4>5. QED
        BY <4>1, <4>3, <4>4 DEF From
    <3>3. ASSUME NEW m \in From(q, i + 1) PROVE m \in From(rest, i)
      <4>1. PICK j \in i + 1 .. Len(q) : m = q[j].message
        BY <3>3 DEF From
      <4>2. j - 1 \in i .. Len(rest) /\ j - 1 \in 1 .. Len(rest) /\ (j - 1) + 1 = j
        BY <2>1
      <4>3. rest[j - 1] = q[j]
        BY <2>1, <4>2
      <4>4. QED
        BY <4>1, <4>2, <4>3 DEF From
    <3>4. QED
      BY <3>1, <3>2, <3>3
  <2>3. QED
    BY <2>1, <2>2
<1>4. QED
  BY <1>1, <1>2, <1>3 DEF Part

\* Queue, set and order may lose elements.
LEMMA PartInOrder ==
    ASSUME NEW q \in Seq(Buffered), NEW rest, Part(rest, q),
           NEW set, NEW before, InOrder(q, set, before),
           NEW fewer \in SUBSET set, NEW after, Among(before, fewer) \subseteq after
    PROVE  InOrder(rest, fewer, after)
<1> SUFFICES ASSUME NEW i \in 1 .. Len(rest), rest[i].message \in fewer,
                    NEW n \in fewer \ From(rest, i)
             PROVE  <<n, rest[i].message>> \in after
  BY DEF InOrder
<1>1. PICK j \in 1 .. Len(q) : rest[i] = q[j] /\ From(rest, i) = From(q, j)
  BY PartElements
<1>2. <<n, rest[i].message>> \in before
  BY <1>1 DEF InOrder
<1>3. QED
  BY <1>2 DEF Among

\* The message put back last was set last.
LEMMA AppendInOrder ==
    ASSUME NEW q \in Seq(Buffered), NEW set, NEW before, InOrder(q, set, before),
           NEW e \in Buffered, NEW m, e.message = m
    PROVE  InOrder(Append(q, e), set \cup {m},
                   Among(before, set \ {m}) \cup ((set \ {m}) \X {m}))
<1> DEFINE q2 == Append(q, e)
           after == Among(before, set \ {m}) \cup ((set \ {m}) \X {m})
<1>1. /\ Len(q2) = Len(q) + 1 /\ Len(q) \in Nat
      /\ \A i \in 1 .. Len(q) : q2[i] = q[i]
      /\ q2[Len(q) + 1] = e
  BY AppendProperties, LenProperties
<1> HIDE DEF q2
<1> SUFFICES ASSUME NEW i \in 1 .. Len(q2), NEW n \in (set \cup {m}) \ From(q2, i),
                    q2[i].message \in set \cup {m}
             PROVE  <<n, q2[i].message>> \in after
  BY DEF InOrder, q2
<1>2. m \in From(q2, i)
  <2>1. Len(q2) \in i .. Len(q2) /\ q2[Len(q2)].message = m
    BY <1>1
  <2>2. QED
    BY <2>1 DEF From
<1>3. n \in set \ {m}
  BY <1>2
<1>4. CASE q2[i].message = m
  BY <1>3, <1>4
<1>5. CASE q2[i].message # m
  <2>1. i \in 1 .. Len(q) /\ q2[i] = q[i] /\ q[i].message \in set \ {m}
    BY <1>1, <1>5
  <2>2. From(q, i) \subseteq From(q2, i)
    <3> SUFFICES ASSUME NEW j \in i .. Len(q) PROVE q[j].message \in From(q2, i)
      BY DEF From
    <3>1. j \in i .. Len(q2) /\ q2[j] = q[j]
      BY <1>1, <2>1
    <3>2. QED
      BY <3>1 DEF From
  <2>3. <<n, q[i].message>> \in before
    BY <1>3, <2>1, <2>2 DEF InOrder
  <2>4. QED
    BY <1>3, <2>1, <2>3 DEF Among
<1>6. QED
  BY <1>4, <1>5

\* What goes when the set is full does not wait.
LEMMA OldestDoesNotWait ==
    ASSUME OneStream, NEW q \in Seq(Buffered), Len(q) <= MaxSize,
           NEW set, NEW before, Strict(before), InOrder(q, set, before),
           NEW i \in 1 .. Len(q), q[i].message \in Oldest(set, before)
    PROVE  Cardinality(set) \in Nat /\ Cardinality(set) <= MaxElements
<1> DEFINE late == From(q, i)
           f == [j \in i .. Len(q) |-> q[j].message]
<1>1. Len(q) \in Nat
  BY LenProperties
<1>2. set \subseteq late
  <2> SUFFICES ASSUME NEW n \in set, n \notin late PROVE FALSE
    OBVIOUS
  <2>1. q[i].message \in late
    BY <1>1 DEF From
  <2>2. n # q[i].message /\ q[i].message \in set
    BY <2>1 DEF Oldest
  <2>3. <<n, q[i].message>> \in before
    BY <2>2 DEF InOrder
  <2>4. <<q[i].message, n>> \in before
    BY <2>2 DEF Oldest
  <2>5. QED
    BY <2>3, <2>4 DEF Strict
<1>3. IsFiniteSet(i .. Len(q)) /\ Cardinality(i .. Len(q)) = Len(q) - i + 1
  BY <1>1, FS_Interval
<1>4. f \in Surjection(i .. Len(q), late)
  BY DEF Surjection, From
<1>5. IsFiniteSet(late) /\ Cardinality(late) <= Len(q) - i + 1
  <2> HIDE DEF f, late
  <2>1. QED
    BY <1>3, <1>4, FS_Surjection
<1>6. /\ Cardinality(set) <= Cardinality(late)
      /\ Cardinality(set) \in Nat /\ Cardinality(late) \in Nat
  BY <1>2, <1>5, FS_Subset, FS_CardinalityType
<1>7. QED
  BY <1>1, <1>5, <1>6, MaxSizeAssumption, PropagationAssumption DEF OneStream

\* No message is put back; what goes from the set does not wait, or need not go out any more.
LEMMA PartSound ==
    ASSUME NEW q \in Seq(Buffered), NEW set, NEW before, NEW due,
           WaitsSound(q, set, before, due), NEW rest, Part(rest, q),
           NEW fewer \in SUBSET set, NEW after, Among(before, fewer) \subseteq after,
           after \subseteq before,
           NEW dueNow, \A i \in 1 .. Len(q) : q[i].message \in dueNow =>
                           /\ q[i].message \in due
                           /\ q[i].message \in set => q[i].message \in fewer
    PROVE  WaitsSound(rest, fewer, after, dueNow)
<1>1. Strict(after)
  BY DEF WaitsSound, Strict
<1>2. Len(rest) <= MaxSize
  BY PartElements, LenProperties, MaxSizeAssumption DEF WaitsSound
<1>3. InOrder(rest, fewer, after)
  BY PartInOrder DEF WaitsSound
<1>4. ASSUME NEW i \in 1 .. Len(rest), rest[i].message \in dueNow
      PROVE  rest[i].message \in fewer
  <2>1. PICK j \in 1 .. Len(q) : rest[i] = q[j]
    BY PartElements
  <2>2. QED
    BY <1>4, <2>1 DEF WaitsSound
<1>5. QED
  BY <1>1, <1>2, <1>3, <1>4 DEF WaitsSound

\* kept and order are the set and its order when m is added to them.
Added(set, before, m, kept, order) ==
    LET all == set \cup {m}
    IN  /\ order = Among(before, set \ {m}) \cup ((set \ {m}) \X {m})
        /\ kept = IF Cardinality(all) > MaxElements THEN all \ Oldest(all, order) ELSE all
OnlyAlsoDue(q, due, m, dueNow) ==
    \A i \in 1 .. Len(q) : q[i].message \in dueNow => q[i].message \in due \cup {m}

\* A message is put back.
LEMMA PutBackSound ==
    ASSUME OneStream,
           NEW q \in Seq(Buffered), NEW set, NEW before, NEW due,
           WaitsSound(q, set, before, due), NEW rest, Part(rest, q),
           NEW e \in Buffered, NEW m, e.message = m, Len(Append(rest, e)) <= MaxSize,
           NEW order, NEW kept, Added(set, before, m, kept, order),
           NEW dueNow, OnlyAlsoDue(q, due, m, dueNow)
    PROVE  WaitsSound(Append(rest, e), kept, Among(order, kept), dueNow)
<1> DEFINE q2 == Append(rest, e)
           all == set \cup {m}
<1>0. /\ order = Among(before, set \ {m}) \cup ((set \ {m}) \X {m})
      /\ kept = IF Cardinality(all) > MaxElements THEN all \ Oldest(all, order) ELSE all
  BY DEF Added
<1>1. rest \in Seq(Buffered) /\ InOrder(rest, set, before)
  <2>1. rest \in Seq(Buffered)
    BY PartElements
  <2>2. InOrder(q, set, before) /\ Among(before, set) \subseteq before
    BY DEF WaitsSound, Among
  <2>3. InOrder(rest, set, before)
    BY <2>2, PartInOrder
  <2>4. QED
    BY <2>1, <2>3
<1>2. /\ q2 \in Seq(Buffered) /\ Len(q2) = Len(rest) + 1 /\ Len(rest) \in Nat
      /\ \A i \in 1 .. Len(rest) : q2[i] = rest[i]
      /\ q2[Len(rest) + 1] = e
  BY <1>1, AppendProperties, LenProperties
<1>3. Strict(order)
  BY <1>0, StrictWithNewest DEF WaitsSound
<1>4. InOrder(q2, all, order)
  BY <1>0, <1>1, AppendInOrder
<1> HIDE DEF q2
<1>5. kept \in SUBSET all /\ Among(order, kept) \subseteq order
  BY <1>0 DEF Among
<1>6. Strict(Among(order, kept))
  BY <1>3, <1>5 DEF Strict
<1>7. InOrder(q2, kept, Among(order, kept))
  <2>1. Part(q2, q2)
    BY DEF Part
  <2>2. QED
    BY <1>2, <1>4, <1>5, <2>1, PartInOrder
<1>8. ASSUME NEW i \in 1 .. Len(q2), q2[i].message \in dueNow
      PROVE  q2[i].message \in kept
  <2>1. q2[i].message \in all
    <3>1. CASE i = Len(rest) + 1
      BY <1>2, <3>1
    <3>2. CASE i # Len(rest) + 1
      <4>1. i \in 1 .. Len(rest) /\ q2[i] = rest[i]
        BY <1>2, <3>2
      <4>2. PICK j \in 1 .. Len(q) : rest[i] = q[j]
        BY <4>1, PartElements
      <4>3. QED
        BY <1>8, <4>1, <4>2 DEF WaitsSound, OnlyAlsoDue
    <3>3. QED
      BY <3>1, <3>2
  <2>2. CASE Cardinality(all) > MaxElements
    <3>1. Len(q2) <= MaxSize
      BY DEF q2
    <3>2. q2[i].message \in Oldest(all, order) =>
            Cardinality(all) \in Nat /\ Cardinality(all) <= MaxElements
      BY <1>2, <1>3, <1>4, <3>1, OldestDoesNotWait
    <3>3. ~(Cardinality(all) \in Nat /\ Cardinality(all) <= MaxElements)
      <4> DEFINE c == Cardinality(all)
      <4>1. c > MaxElements
        BY <2>2
      <4> HIDE DEF c
      <4>2. ~(c \in Nat /\ c <= MaxElements)
        BY <4>1, PropagationAssumption
      <4>3. QED
        BY <4>2 DEF c
    <3>4. q2[i].message \notin Oldest(all, order)
      BY <3>2, <3>3
    <3>5. QED
      BY <1>0, <2>1, <2>2, <3>4
  <2>3. QED
    BY <1>0, <2>1, <2>2
<1>9. QED
  BY <1>6, <1>7, <1>8 DEF WaitsSound, q2

-----------------------------------------------------------------------------
(* The steps.                                                              *)

\* One turn of the loop, or a message from elsewhere when the loop is over.
Turns ==
    \/ handling = <<>> /\ handling' = <<>>
    \/ handling # <<>> /\ handling' = Tail(handling)

LEMMA ConcatTail ==
    ASSUME NEW h \in Seq(Buffered), NEW b \in Seq(Buffered), h # <<>>
    PROVE  h \o b # <<>> /\ Tail(h) \o b = Tail(h \o b)
<1>1. /\ h \o b \in Seq(Buffered) /\ Len(h \o b) = Len(h) + Len(b)
      /\ Len(h) \in Nat \ {0} /\ Len(b) \in Nat
  BY ConcatProperties, EmptySeq, LenProperties
<1>2. h \o b # <<>>
  BY <1>1, EmptySeq
<1>3. Tail(h) \in Seq(Buffered) /\ Len(Tail(h)) = Len(h) - 1
      /\ \A i \in 1 .. Len(Tail(h)) : Tail(h)[i] = h[i + 1]
  BY HeadTailProperties
<1>4. Tail(h \o b) \in Seq(Buffered) /\ Len(Tail(h \o b)) = Len(h) + Len(b) - 1
      /\ \A i \in 1 .. Len(Tail(h \o b)) : Tail(h \o b)[i] = (h \o b)[i + 1]
  BY <1>1, <1>2, HeadTailProperties
<1>5. /\ Tail(h) \o b \in Seq(Buffered) /\ Len(Tail(h) \o b) = Len(h) - 1 + Len(b)
      /\ \A i \in 1 .. Len(h) - 1 + Len(b) :
            (Tail(h) \o b)[i] = IF i <= Len(h) - 1 THEN Tail(h)[i] ELSE b[i - (Len(h) - 1)]
  BY <1>3, ConcatProperties
<1>6. \A i \in 1 .. Len(h) + Len(b) :
        (h \o b)[i] = IF i <= Len(h) THEN h[i] ELSE b[i - Len(h)]
  BY ConcatProperties
<1>7. ASSUME NEW i \in 1 .. Len(h) + Len(b) - 1
      PROVE  (Tail(h) \o b)[i] = Tail(h \o b)[i]
  <2>1. i + 1 \in 1 .. Len(h) + Len(b) /\ i \in 1 .. Len(h) - 1 + Len(b)
    BY <1>1
  <2>2. Tail(h \o b)[i] = IF i + 1 <= Len(h) THEN h[i + 1] ELSE b[i + 1 - Len(h)]
    BY <1>4, <1>6, <2>1
  <2>3. CASE i <= Len(h) - 1
    <3>1. i \in 1 .. Len(Tail(h)) /\ i + 1 <= Len(h)
      BY <1>1, <1>3, <2>3
    <3>2. QED
      BY <1>3, <1>5, <2>1, <2>2, <2>3, <3>1
  <2>4. CASE ~ i <= Len(h) - 1
    <3>1. i - (Len(h) - 1) = i + 1 - Len(h) /\ ~ i + 1 <= Len(h)
      BY <1>1, <2>4
    <3>2. (Tail(h) \o b)[i] = b[i - (Len(h) - 1)]
      BY <1>5, <2>1, <2>4
    <3>3. QED
      BY <2>2, <3>1, <3>2
  <2>5. QED
    BY <2>3, <2>4
<1>8. Len(Tail(h) \o b) = Len(Tail(h \o b))
  BY <1>1, <1>4, <1>5
<1>9. \A i \in 1 .. Len(Tail(h) \o b) : (Tail(h) \o b)[i] = Tail(h \o b)[i]
  BY <1>1, <1>5, <1>7
<1>10. Tail(h) \o b = Tail(h \o b)
  BY <1>4, <1>5, <1>8, <1>9, SeqEqual
<1>11. QED
  BY <1>2, <1>10

\* The queue after a turn that puts nothing back.
LEMMA TurnPart ==
    ASSUME Typed, NEW s \in Stream, Turns, UNCHANGED buffer
    PROVE  Part(Waits(s)', Waits(s))
<1>1. handling \in Seq(Buffered) /\ buffer[s] \in Seq(Buffered)
  BY DEF Typed
<1>2. CASE handling = <<>> /\ handling' = <<>>
  BY <1>2 DEF Part, Waits
<1>3. CASE handling # <<>> /\ handling' = Tail(handling)
  BY <1>1, <1>3, ConcatTail DEF Part, Waits
<1>4. QED
  BY <1>2, <1>3 DEF Turns

\* The queue after a turn that puts its message back: put makes room only for a message that
\* comes from elsewhere, as the buffer had room for all that was taken from it.
LEMMA TurnPutsBack ==
    ASSUME Typed, NEW s \in Stream, Turns, Len(Waits(s)) <= MaxSize,
           NEW e \in Buffered, Put(s, e)
    PROVE  \E rest : /\ Part(rest, Waits(s))
                     /\ Waits(s)' = Append(rest, e)
                     /\ Len(Append(rest, e)) <= MaxSize
<1> DEFINE b == buffer[s]
           q == IF MakesRoom(s) THEN RestOf(b) ELSE b
<1>1. /\ handling \in Seq(Buffered) /\ b \in Seq(Buffered)
      /\ Len(handling) \in Nat /\ Len(b) \in Nat
      /\ Len(handling) + Len(b) <= MaxSize /\ MaxSize \in Nat /\ MaxSize >= 2
  BY LenProperties, ConcatProperties, MaxSizeAssumption DEF Typed, Waits
<1>2. buffer'[s] = Append(q, e)
  BY DEF Put, Typed
<1>3. CASE handling = <<>> /\ handling' = <<>>
  <2>1. Waits(s) = b
    BY <1>1, <1>3, ConcatEmptySeq DEF Waits
  <2>2. /\ Part(q, b) /\ q \in Seq(Buffered)
        /\ Len(q) + 1 <= MaxSize
    <3>1. CASE MakesRoom(s)
      <4>1. Len(b) >= MaxSize /\ b # <<>>
        BY <1>1, <3>1, EmptySeq DEF MakesRoom
      <4>2. q = Tail(b) /\ q \in Seq(Buffered) /\ Len(q) = Len(b) - 1
        BY <1>1, <3>1, <4>1, HeadTailProperties DEF RestOf
      <4>3. QED
        BY <1>1, <4>1, <4>2 DEF Part
    <3>2. CASE ~ MakesRoom(s)
      BY <1>1, <3>2 DEF MakesRoom, Part
    <3>3. QED
      BY <3>1, <3>2
  <2> HIDE DEF q
  <2>3. Append(q, e) \in Seq(Buffered) /\ Len(Append(q, e)) = Len(q) + 1
    BY <2>2, AppendProperties
  <2>4. Waits(s)' = Append(q, e)
    <3>1. <<>> \o Append(q, e) = Append(q, e)
      BY <2>3, ConcatEmptySeq
    <3>2. QED
      BY <1>2, <1>3, <3>1 DEF Waits
  <2>5. QED
    BY <2>1, <2>2, <2>3, <2>4
<1>4. CASE handling # <<>> /\ handling' = Tail(handling)
  <2>1. Len(handling) >= 1
    BY <1>1, <1>4, EmptySeq
  <2>2. q = b
    BY <1>1, <2>1 DEF MakesRoom
  <2>3. Tail(handling) \in Seq(Buffered)
    BY <1>1, <1>4, HeadTailProperties
  <2>4. Waits(s)' = Append(Tail(handling) \o b, e)
    <3>1. /\ Append(b, e) = b \o <<e>> /\ <<e>> \in Seq(Buffered)
          /\ Tail(handling) \o b \in Seq(Buffered)
      BY <1>1, <2>3, AppendIsConcat, ConcatProperties
    <3> DEFINE t == Tail(handling)
               one == <<e>>
    <3>2. t \in Seq(Buffered) /\ b \in Seq(Buffered) /\ one \in Seq(Buffered)
      BY <1>1, <2>3, <3>1
    <3> HIDE DEF t, b, one
    <3>6. t \o (b \o one) = (t \o b) \o one
      BY <3>2, ConcatAssociative
    <3> USE DEF t, b, one
    <3>3. (Tail(handling) \o b) \o <<e>> = Append(Tail(handling) \o b, e)
      BY <3>1, AppendIsConcat
    <3>4. Waits(s)' = Tail(handling) \o Append(b, e)
      BY <1>2, <1>4, <2>2 DEF Waits
    <3>5. QED
      BY <3>1, <3>3, <3>4, <3>6
  <2>5. Waits(s) # <<>> /\ Tail(handling) \o b = Tail(Waits(s))
    BY <1>1, <1>4, ConcatTail DEF Waits
  <2>6. /\ Tail(handling) \o b \in Seq(Buffered)
        /\ Len(Tail(handling) \o b) = Len(handling) - 1 + Len(b)
    BY <1>1, <1>4, HeadTailProperties, ConcatProperties
  <2>7. Len(Append(Tail(handling) \o b, e)) = Len(handling) - 1 + Len(b) + 1
    BY <2>6, AppendProperties
  <2> DEFINE rest == Tail(handling) \o b
  <2>8. Part(rest, Waits(s))
    BY <2>5 DEF Part
  <2>9. Len(Append(rest, e)) <= MaxSize
    <3> DEFINE x == Len(handling)
               y == Len(b)
               z == Len(Append(rest, e))
    <3>1. z = x - 1 + y + 1 /\ x \in Nat /\ y \in Nat /\ x + y <= MaxSize /\ MaxSize \in Nat
      BY <1>1, <2>7
    <3> HIDE DEF x, y, z
    <3>2. z <= MaxSize
      BY <3>1
    <3>3. QED
      BY <3>2 DEF z
  <2>10. Waits(s)' = Append(rest, e)
    BY <2>4
  <2> HIDE DEF rest
  <2>11. QED
    BY <2>8, <2>9, <2>10
<1>5. QED
  BY <1>3, <1>4 DEF Turns

\* A message is received, in the loop or from elsewhere.
LEMMA ReceivingRemembers ==
    ASSUME OneStream, IInv, WaitsInv, NEW m \in Message, NEW source \in Source, Turns,
           OnDataReceived(m, source)
    PROVE  WaitsInv'
<1> SUFFICES ASSUME NEW s \in Stream
             PROVE  WaitsSound(Waits(s)', waiting', setBefore', Due')
  BY DEF WaitsInv, WaitsSound, InOrder, Strict, From
<1> DEFINE q == Waits(s)
           e == [message |-> m, source |-> source]
<1>1. /\ Typed /\ q \in Seq(Buffered) /\ WaitsSound(q, waiting, setBefore, Due)
      /\ StreamOf[m] = s /\ e \in Buffered /\ e.message = m
  BY PropagationAssumption, BufferedFields, ConcatProperties DEF OneStream, IInv, Typed, WaitsInv, Waits
<1>2. \/ PutBack(m, source) /\ Due' \subseteq Due \cup {m}
      \/ (\E subscribers : SendTo(m, subscribers)) /\ Due' \subseteq Due \cup {m}
      \/ Ignore /\ Due' \subseteq Due
  <2>1. CASE /\ answer[m] = "none"
             /\ answer' = [answer EXCEPT ![m] = "new"]
             /\ PropagateMessage(m, source)
    BY <1>1, <2>1 DEF Typed, PropagateMessage, PutBack, SendTo, Due
  <2>2. CASE /\ answer' = [answer EXCEPT ![m] = IF answer[m] = "none" THEN "duplicate" ELSE answer[m]]
             /\ IF m \in waiting THEN PropagateMessage(m, source) ELSE Ignore
    BY <1>1, <2>2 DEF Typed, PropagateMessage, PutBack, SendTo, Ignore, Due
  <2>3. CASE UNCHANGED answer /\ Ignore
    BY <2>3 DEF Ignore, Due
  <2>4. QED
    BY <2>1, <2>2, <2>3 DEF OnDataReceived
<1>3. CASE PutBack(m, source) /\ Due' \subseteq Due \cup {m}
  <2> DEFINE order == Among(setBefore, waiting \ {m}) \cup ((waiting \ {m}) \X {m})
             all == waiting \cup {m}
             kept == IF Cardinality(all) > MaxElements THEN all \ Oldest(all, order) ELSE all
  <2>1. waiting' = kept /\ setBefore' = Among(order, kept) /\ Put(s, e)
    BY <1>1, <1>3 DEF PutBack, Add
  <2>2. Len(q) <= MaxSize
    BY <1>1 DEF WaitsSound
  <2> HIDE DEF e
  <2>3. PICK rest : Part(rest, q) /\ Waits(s)' = Append(rest, e) /\ Len(Append(rest, e)) <= MaxSize
    BY <1>1, <2>1, <2>2, TurnPutsBack
  <2>4. \A i \in 1 .. Len(q) : q[i].message \in Due' => q[i].message \in Due \cup {m}
    BY <1>3
  <2>5. Added(waiting, setBefore, m, kept, order)
    BY DEF Added
  <2> HIDE DEF q, order, all, kept
  <2> DEFINE dueNow == Due'
  <2>6. /\ q \in Seq(Buffered) /\ WaitsSound(q, waiting, setBefore, Due)
        /\ e \in Buffered /\ e.message = m
    BY <1>1 DEF q, e
  <2>7. OnlyAlsoDue(q, Due, m, dueNow)
    BY <2>4 DEF OnlyAlsoDue
  <2> HIDE DEF dueNow
  <2>8. WaitsSound(Append(rest, e), kept, Among(order, kept), dueNow)
    <3>1. Part(rest, q) /\ Len(Append(rest, e)) <= MaxSize
      BY <2>3
    <3>2. QED
      BY <2>5, <2>6, <2>7, <3>1, PutBackSound
  <2>9. QED
    BY <2>1, <2>3, <2>8 DEF dueNow, order, all, kept
<1>4. CASE (\E subscribers : SendTo(m, subscribers)) /\ Due' \subseteq Due \cup {m}
  <2>1. /\ waiting' = waiting \ {m} /\ setBefore' = Among(setBefore, waiting \ {m})
        /\ propagated' = [propagated EXCEPT ![m] = propagated[m] + 1] /\ UNCHANGED buffer
    BY <1>4 DEF SendTo, Delete, bufferVars
  <2>2. m \notin Due'
    BY <1>1, <2>1 DEF Typed, Due
  <2>3. Part(Waits(s)', q)
    BY <1>1, <2>1, TurnPart
  <2>4. \A i \in 1 .. Len(q) : q[i].message \in Due' =>
            q[i].message \in Due /\ (q[i].message \in waiting => q[i].message \in waiting')
    BY <1>4, <2>1, <2>2
  <2>5. /\ waiting' \in SUBSET waiting /\ Among(setBefore, waiting') \subseteq setBefore'
        /\ setBefore' \subseteq setBefore
    BY <2>1 DEF Among
  <2> HIDE DEF q
  <2>6. QED
    BY <1>1, <2>3, <2>4, <2>5, PartSound
<1>5. CASE Ignore /\ Due' \subseteq Due
  <2>1. UNCHANGED <<waiting, setBefore, buffer>>
    BY <1>5 DEF Ignore, bufferVars
  <2>2. Part(Waits(s)', q)
    BY <1>1, <2>1, TurnPart
  <2>3. \A i \in 1 .. Len(q) : q[i].message \in Due' =>
            q[i].message \in Due /\ (q[i].message \in waiting => q[i].message \in waiting')
    BY <1>5, <2>1
  <2>4. /\ waiting' \in SUBSET waiting /\ Among(setBefore, waiting') \subseteq setBefore'
        /\ setBefore' \subseteq setBefore
    BY <2>1 DEF Among
  <2> HIDE DEF q
  <2>5. QED
    BY <1>1, <2>2, <2>3, <2>4, PartSound
<1>6. QED
  BY <1>2, <1>3, <1>4, <1>5

\* Messages only go from the queue and need not go out any more.
LEMMA ShorterRemembers ==
    ASSUME Typed, WaitsInv, UNCHANGED <<waiting, setBefore>>, Due' \subseteq Due,
           \A s \in Stream : Part(Waits(s)', Waits(s))
    PROVE  WaitsInv'
<1> SUFFICES ASSUME NEW s \in Stream
             PROVE  WaitsSound(Waits(s)', waiting', setBefore', Due')
  BY DEF WaitsInv, WaitsSound, InOrder, Strict, From
<1> DEFINE q == Waits(s)
<1>1. q \in Seq(Buffered) /\ WaitsSound(q, waiting, setBefore, Due) /\ Part(Waits(s)', q)
  BY ConcatProperties DEF Typed, WaitsInv, Waits
<1>2. \A i \in 1 .. Len(q) : q[i].message \in Due' =>
          q[i].message \in Due /\ (q[i].message \in waiting => q[i].message \in waiting')
  OBVIOUS
<1>3. /\ waiting' \in SUBSET waiting /\ Among(setBefore, waiting') \subseteq setBefore'
      /\ setBefore' \subseteq setBefore
  BY DEF Among
<1> HIDE DEF q
<1>4. QED
  BY <1>1, <1>2, <1>3, PartSound

LEMMA InitWaits == Init => WaitsInv
<1> SUFFICES ASSUME Init, NEW s \in Stream
             PROVE  WaitsSound(Waits(s), waiting, setBefore, Due)
  BY DEF WaitsInv
<1>1. handling = <<>> /\ buffer[s] = <<>> /\ waiting = {} /\ setBefore = {}
  BY DEF Init, BufferInit
<1>2. Waits(s) = <<>> /\ Len(Waits(s)) = 0
  <2>1. <<>> \in Seq(Buffered)
    BY EmptySeq
  <2>2. QED
    BY <1>1, <2>1, ConcatEmptySeq DEF Waits
<1>3. Strict(setBefore) /\ InOrder(Waits(s), waiting, setBefore)
  BY <1>1, <1>2 DEF Strict, InOrder
<1>4. QED
  BY <1>2, <1>3, MaxSizeAssumption DEF WaitsSound

LEMMA StepWaits == OneStream /\ IInv /\ WaitsInv /\ [Next]_vars => WaitsInv'
<1> SUFFICES ASSUME OneStream, IInv, WaitsInv, [Next]_vars
             PROVE  WaitsInv'
  OBVIOUS
<1>0. Typed /\ \A s \in Stream : buffer[s] \in Seq(Buffered)
  BY DEF IInv, Typed
<1>1. ASSUME UNCHANGED <<buffer, handling, waiting, setBefore>>, Due' \subseteq Due
      PROVE  WaitsInv'
  BY <1>0, <1>1, ShorterRemembers DEF Waits, Part
<1>2. ASSUME NEW m \in Message, NEW source \in Source, Receive(m, source)
      PROVE  WaitsInv'
  BY <1>2, ReceivingRemembers DEF Receive, Idle, Turns
<1>3. CASE HandleBuffered
  <2>1. Head(handling) \in Buffered
    BY <1>0, <1>3 DEF HandleBuffered, Typed
  <2>2. Head(handling).message \in Message /\ Head(handling).source \in Source
    BY <2>1, BufferedFields
  <2>3. QED
    BY <1>3, <2>2, ReceivingRemembers DEF HandleBuffered, Turns
<1>4. ASSUME NEW p \in Peer, NEW r \in Stream, AddNeighbor(p, r)
      PROVE  WaitsInv'
  <2>1. /\ handling = <<>> /\ handling' = buffer[r] /\ buffer' = [buffer EXCEPT ![r] = <<>>]
        /\ UNCHANGED <<waiting, setBefore, answer, propagated>>
    BY <1>4 DEF AddNeighbor, Idle, TakeBuffered, PopAll
  <2>2. ASSUME NEW s \in Stream PROVE Part(Waits(s)', Waits(s))
    <3>1. s = r /\ buffer'[s] = <<>>
      BY <1>0, <2>1 DEF OneStream, Typed
    <3>2. Waits(s)' = buffer[s] \o <<>> /\ Waits(s) = <<>> \o buffer[s]
      BY <2>1, <3>1 DEF Waits
    <3>3. buffer[s] \o <<>> = <<>> \o buffer[s]
      BY <1>0, ConcatEmptySeq
    <3>4. QED
      BY <3>2, <3>3 DEF Part
  <2>3. QED
    BY <1>0, <2>1, <2>2, ShorterRemembers DEF Due
<1>5. ASSUME UNCHANGED <<handling, waiting, setBefore, answer, propagated>>, handling = <<>>,
             \A s \in Stream : Part(buffer'[s], buffer[s])
      PROVE  WaitsInv'
  <2>1. ASSUME NEW s \in Stream PROVE Part(Waits(s)', Waits(s))
    <3>1. Part(buffer'[s], buffer[s]) /\ buffer'[s] \in Seq(Buffered)
      BY <1>0, <1>5, PartElements
    <3>2. Waits(s) = buffer[s] /\ <<>> \o buffer'[s] = buffer'[s]
      BY <1>0, <1>5, <3>1, ConcatEmptySeq DEF Waits
    <3>3. Waits(s)' = buffer'[s]
      BY <1>5, <3>2 DEF Waits
    <3>4. QED
      BY <3>1, <3>2, <3>3
  <2>2. QED
    BY <1>0, <1>5, <2>1, ShorterRemembers DEF Due
<1>6. CASE BufferTimeout
  <2>1. PICK r : buffer' = [buffer EXCEPT ![r] = RestOf(buffer[r])]
    BY <1>6 DEF BufferTimeout, TimerFires
  <2>2. \A s \in Stream : Part(buffer'[s], buffer[s])
    BY <1>0, <2>1 DEF Typed, RestOf, Part
  <2>3. QED
    BY <1>5, <1>6, <2>2 DEF BufferTimeout, nodeVars, Idle
<1>7. CASE Stop
  <2>1. \A s \in Stream : Part(buffer'[s], buffer[s])
    BY <1>7 DEF Stop, Clear, Part
  <2>2. QED
    BY <1>5, <1>7, <2>1 DEF Stop, nodeVars, Idle
<1>8. ASSUME NEW m \in Message, Expire(m)
      PROVE  WaitsInv'
  <2> SUFFICES ASSUME NEW s \in Stream
               PROVE  WaitsSound(Waits(s)', waiting', setBefore', Due')
    BY DEF WaitsInv, WaitsSound, InOrder, Strict, From
  <2> DEFINE q == Waits(s)
  <2>1. /\ UNCHANGED <<buffer, handling, answer, propagated>> /\ handling = <<>>
        /\ waiting' = waiting \ {m} /\ setBefore' = Among(setBefore, waiting \ {m})
        /\ StreamOf[m] = s
    BY <1>8, PropagationAssumption DEF Expire, Delete, bufferVars, Idle, OneStream
  <2>2. /\ Waits(s)' = q /\ q = buffer[s] /\ q \in Seq(Buffered) /\ Part(Waits(s)', q)
        /\ WaitsSound(q, waiting, setBefore, Due) /\ Due' = Due
    BY <1>0, <2>1, ConcatEmptySeq DEF Waits, Part, WaitsInv, Due
  <2>3. \A i \in 1 .. Len(q) : q[i].message # m
    <3>1. \A d \in Range(q) : d.message # m
      BY <1>8, <2>1, <2>2 DEF Expire
    <3>2. QED
      BY <2>2, <3>1, RangeEquality
  <2>4. /\ waiting' \in SUBSET waiting /\ Among(setBefore, waiting') \subseteq setBefore'
        /\ setBefore' \subseteq setBefore
    BY <2>1 DEF Among
  <2>5. \A i \in 1 .. Len(q) : q[i].message \in Due' =>
            q[i].message \in Due /\ (q[i].message \in waiting => q[i].message \in waiting')
    BY <2>1, <2>2, <2>3
  <2> HIDE DEF q
  <2>6. QED
    BY <2>2, <2>4, <2>5, PartSound
<1>9. ASSUME NEW r \in Stream, Unsubscribe(r)
      PROVE  WaitsInv'
  <2>1. UNCHANGED <<buffer, handling, waiting, setBefore>>
    BY <1>9 DEF Unsubscribe, bufferVars
  <2>2. Due' \subseteq Due
    BY <1>9 DEF Unsubscribe, Due
  <2>3. QED
    BY <1>1, <2>1, <2>2
<1>10. ASSUME NEW p \in Peer, NEW r \in Stream, RemoveNeighbor(p, r)
       PROVE  WaitsInv'
  BY <1>1, <1>10 DEF RemoveNeighbor, bufferVars, Due
<1>11. ASSUME NEW p \in Peer, NodeDisconnected(p) \/ SendSucceeds(p) \/ SendFails(p)
       PROVE  WaitsInv'
  BY <1>1, <1>11 DEF NodeDisconnected, SendSucceeds, SendFails, bufferVars, Due
<1>12. ASSUME NEW r \in Stream, Subscribe(r)
       PROVE  WaitsInv'
  BY <1>1, <1>12 DEF Subscribe, bufferVars, Due
<1>13. CASE UNCHANGED vars
  BY <1>1, <1>13 DEF vars, bufferVars, nodeVars, Due
<1>14. QED
  BY <1>2, <1>3, <1>4, <1>6, <1>7, <1>8, <1>9, <1>10, <1>11, <1>12, <1>13 DEF Next

LEMMA WaitsAreRemembered == Typed /\ WaitsInv => WaitingIsRemembered
<1> SUFFICES ASSUME Typed, WaitsInv, NEW s \in Stream,
                    NEW e \in Range(buffer[s]) \cup Range(handling),
                    answer[e.message] = "new", propagated[e.message] = 0
             PROVE  e.message \in waiting
  BY DEF WaitingIsRemembered
<1>1. /\ handling \in Seq(Buffered) /\ buffer[s] \in Seq(Buffered) /\ Waits(s) \in Seq(Buffered)
  BY ConcatProperties DEF Typed, Waits
<1>2. e \in Range(Waits(s))
  BY <1>1, RangeConcatenation DEF Waits
<1>3. PICK i \in 1 .. Len(Waits(s)) : e = Waits(s)[i]
  BY <1>1, <1>2, RangeEquality
<1>4. e.message \in Due
  BY <1>1, <1>3, BufferedFields, ElementOfSeq DEF Due
<1>5. QED
  BY <1>3, <1>4 DEF WaitsInv, WaitsSound

\* A message that was seen and could not be sent is known to wait as long as it is in the buffer
\* and has its timer, whatever copies come, go, expire and make room for each other: of a node
\* with one stream whose set of seen messages holds what its buffer holds, as the defaults do.
THEOREM WaitingStaysKept == ASSUME OneStream PROVE Spec => []WaitingIsKept
<1>1. Spec => []IInv
  BY InitInv, StepInv, PTL DEF Spec
<1>2. IInv /\ WaitsInv /\ [Next]_vars => WaitsInv'
  BY StepWaits
<1>3. Spec => []WaitsInv
  BY <1>1, <1>2, InitWaits, PTL DEF Spec
<1>4. IInv /\ WaitsInv => WaitingIsRemembered
  BY WaitsAreRemembered DEF IInv
<1>5. QED
  BY <1>1, <1>3, <1>4, WaitsForANeighbor, TimersGoWithMessages, PTL DEF WaitingIsKept

=============================================================================
