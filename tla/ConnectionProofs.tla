--------------------------- MODULE ConnectionProofs --------------------------
(***************************************************************************)
(* Proofs about the client's connection and the session of a subscription  *)
(* on it, for any subscriptions, publishers, retries and failures; and     *)
(* about the connections of two nodes over WebRTC, for any trackers, calls *)
(* and lost signals.                                                       *)
(***************************************************************************)
EXTENDS MCEndpoints, SubscriptionSession, SequenceTheorems, FiniteSetTheorems, TLAPS

-----------------------------------------------------------------------------
(* The client's connection and the session on it.                          *)

Events == {"connected", "disconnecting", "disconnected", "done"}
Places == {"down", "backoff", "opening", "up", "delay", "closing"}
Handles == Subs \union Holders \union {Key}

\* Some event that the session hears as the loss of its connection.
Lost == emitted \notin {{}, {"connected"}}

\* The scaffold of the connection: whoever wants it has been seen when it rests at the bottom,
\* and a socket that was closed is not taken for an open one.
ConnectionTyped ==
    /\ wantsState \in {"auto", "connected", "disconnected"}
    /\ connectionHandles \subseteq Handles
    /\ at \in Places
    /\ socket \in {"none", "open", "closing", "closed"}
    /\ retryCount \in 0 .. MaxRetries
    /\ didCloseUnexpectedly \in BOOLEAN /\ forced \in BOOLEAN
    /\ emitted \subseteq Events
NotLeftDown == at = "down" => ~(IsConnectionValid /\ HasRetries)
OnItsWay == at # "down" => HasRetries
SocketFits ==
    /\ at \in {"down", "backoff", "opening"} => socket = "none"
    /\ at = "up" => socket \in {"open", "closing"}
    /\ at = "delay" => socket # "none"
    /\ at = "delay" /\ socket = "closed" => didCloseUnexpectedly
    /\ at = "closing" => socket = "closing"
ConnInv == ConnectionTyped /\ NotLeftDown /\ OnItsWay /\ SocketFits

\* What is called by those who use the connection leaves its socket alone.
Gently ==
    /\ socket' = socket
    /\ (emitted' \notin {{}, {"connected"}}) \/ (emitted' = emitted /\ (at = "delay" => at' = "delay"))

LEMMA RetriesAreNumbers ==
    /\ MaxRetries \in Nat /\ MaxRetries > 0
    /\ \A k \in 0 .. MaxRetries : k < MaxRetries => k + 1 \in 0 .. MaxRetries
    /\ 0 \in 0 .. MaxRetries /\ 0 < MaxRetries
BY ConnectionAssumption

LEMMA BottomingIsSound ==
    ASSUME NEW events, events \subseteq Events, NEW retries \in 0 .. MaxRetries, retries < MaxRetries,
           wantsState' \in {"auto", "connected", "disconnected"}, connectionHandles' \subseteq Handles,
           Bottoms(events, retries)
    PROVE  ConnInv' /\ socket' = "none" /\ events \subseteq emitted'
<1>1. retryCount' \in 0 .. MaxRetries  BY RetriesAreNumbers DEF Bottoms
<1>2. CASE (IsConnectionValid /\ HasRetries)'
  <2>1. at' = "backoff" /\ emitted' = events  BY <1>2 DEF Bottoms
  <2> QED BY <1>1, <1>2, <2>1
      DEF Bottoms, ConnInv, ConnectionTyped, NotLeftDown, OnItsWay, SocketFits, Places
<1>3. CASE ~(IsConnectionValid /\ HasRetries)'
  <2>1. at' = "down" /\ emitted' = events \union {"done"}  BY <1>3 DEF Bottoms
  <2>2. emitted' \subseteq Events  BY <2>1 DEF Events
  <2> QED BY <1>1, <1>3, <2>1, <2>2
      DEF Bottoms, ConnInv, ConnectionTyped, NotLeftDown, OnItsWay, SocketFits, Places
<1> QED BY <1>2, <1>3

\* Down from the top.
LEMMA GoingDownIsSound ==
    ASSUME ConnInv, at = "up", NEW retries \in 0 .. MaxRetries, retries < MaxRetries,
           NEW state \in {"open", "closing", "closed"}, NEW brk \in BOOLEAN,
           wantsState' \in {"auto", "connected", "disconnected"}, connectionHandles' \subseteq Handles,
           GoesDown(retries, state, brk)
    PROVE  ConnInv' /\ Lost' /\ (state = "closed" \/ socket' = state)
<1>1. CASE state = "closed"
  <2>1. Bottoms({"disconnecting", "disconnected"}, retries)  BY <1>1 DEF GoesDown
  <2>2. {"disconnecting", "disconnected"} \subseteq Events  BY DEF Events
  <2>3. ConnInv' /\ {"disconnecting", "disconnected"} \subseteq emitted'
    BY <2>1, <2>2, BottomingIsSound
  <2> QED BY <1>1, <2>3 DEF Lost
<1>2. CASE state # "closed"
  <2>1. /\ at' = "delay" /\ emitted' = {"disconnecting"}
        /\ retryCount' = retries /\ socket' = state /\ didCloseUnexpectedly' = brk
        /\ forced' = forced
    BY <1>2 DEF GoesDown
  <2>2. emitted' \subseteq Events /\ Lost'  BY <2>1 DEF Events, Lost
  <2> QED BY <1>2, <2>1, <2>2
      DEF ConnInv, ConnectionTyped, NotLeftDown, OnItsWay, SocketFits, Places, HasRetries
<1> QED BY <1>1, <1>2

\* stepConnection
LEMMA SteppingIsSound ==
    ASSUME ConnInv, NEW retries \in {0, retryCount},
           wantsState' \in {"auto", "connected", "disconnected"}, connectionHandles' \subseteq Handles,
           Steps(retries)
    PROVE  ConnInv' /\ Gently
<1> DEFINE brk == IsDisconnecting /\ IsConnectionValid'
           shouldUp == IsConnectionValid' /\ retries < MaxRetries /\ ~brk
<1>1. retries \in 0 .. MaxRetries /\ (at # "down" => retries < MaxRetries)
  BY RetriesAreNumbers DEF ConnInv, ConnectionTyped, OnItsWay, HasRetries
<1>2. CASE at = "up" /\ ~shouldUp
  <2>1. GoesDown(retries, socket, brk)  BY <1>2 DEF Steps, StepsWhen
  <2>2. socket \in {"open", "closing"} /\ brk \in BOOLEAN
    BY <1>2 DEF ConnInv, SocketFits
  <2> HIDE DEF brk
  <2>3. ConnInv' /\ Lost' /\ socket' = socket
    BY <1>1, <1>2, <2>1, <2>2, GoingDownIsSound
  <2> QED BY <2>3 DEF Gently, Lost
<1>3. CASE ~(at = "up" /\ ~shouldUp)
  <2>1. /\ at' = IF at = "down" /\ shouldUp
                 THEN IF retries > 0 THEN "backoff" ELSE "opening"
                 ELSE at
        /\ retryCount' = retries
        /\ socket' = socket /\ didCloseUnexpectedly' = didCloseUnexpectedly
        /\ forced' = forced /\ emitted' = emitted
    BY <1>3 DEF Steps, StepsWhen
  <2>2. Gently  BY <2>1 DEF Gently
  <2>3. CASE at = "down"
    <3>1. ~brk  BY <2>3 DEF IsDisconnecting
    <3>2. shouldUp <=> (IsConnectionValid /\ HasRetries)'
      BY <3>1, <2>1 DEF HasRetries
    <3>3. CASE shouldUp
      <4>1. at' \in {"backoff", "opening"} /\ HasRetries'  BY <2>1, <2>3, <3>2, <3>3
      <4> QED BY <4>1, <1>1, <2>1, <2>2
          DEF ConnInv, ConnectionTyped, NotLeftDown, OnItsWay, SocketFits, Places
    <3>4. CASE ~shouldUp
      <4>1. at' = "down"  BY <2>1, <2>3, <3>4
      <4> QED BY <4>1, <1>1, <2>1, <2>2, <3>2, <3>4
          DEF ConnInv, ConnectionTyped, NotLeftDown, OnItsWay, SocketFits, Places
    <3> QED BY <3>3, <3>4
  <2>4. CASE at # "down"
    <3>1. at' = at  BY <2>1, <2>4
    <3> HIDE DEF shouldUp, brk
    <3> QED BY <3>1, <1>1, <2>1, <2>2, <2>4
        DEF ConnInv, ConnectionTyped, NotLeftDown, OnItsWay, SocketFits, HasRetries
  <2> QED BY <2>3, <2>4
<1> QED BY <1>2, <1>3

LEMMA ConnectingIsSound ==
    ASSUME ConnInv, Connect \/ Disconnect
    PROVE  ConnInv' /\ Gently /\ reopened' = reopened /\ faults' = faults
<1>1. /\ wantsState' \in {"auto", "connected", "disconnected"} /\ connectionHandles' \subseteq Handles
      /\ reopened' = reopened /\ faults' = faults
      /\ \E retries \in {0, retryCount} : Steps(retries)
  BY DEF Connect, Disconnect, ConnInv, ConnectionTyped
<1> QED BY <1>1, SteppingIsSound

LEMMA AddingIsSound ==
    ASSUME ConnInv, NEW ids, ids \subseteq Handles, AddHandle(ids)
    PROVE  ConnInv' /\ Gently /\ reopened' = reopened /\ faults' = faults
           /\ wantsState' = wantsState /\ connectionHandles' = connectionHandles \union ids
<1>1. /\ wantsState' \in {"auto", "connected", "disconnected"} /\ connectionHandles' \subseteq Handles
      /\ reopened' = reopened /\ faults' = faults /\ wantsState' = wantsState
      /\ connectionHandles' = connectionHandles \union ids
      /\ Steps(retryCount)
  BY DEF AddHandle, ConnInv, ConnectionTyped
<1> QED BY <1>1, SteppingIsSound

LEMMA RemovingIsSound ==
    ASSUME ConnInv, NEW ids, RemoveHandle(ids)
    PROVE  ConnInv' /\ Gently /\ reopened' = reopened /\ faults' = faults
           /\ wantsState' = wantsState /\ connectionHandles' \subseteq connectionHandles
<1>1. /\ wantsState' \in {"auto", "connected", "disconnected"} /\ connectionHandles' \subseteq Handles
      /\ reopened' = reopened /\ faults' = faults /\ wantsState' = wantsState
      /\ connectionHandles' \subseteq connectionHandles
      /\ Steps(retryCount) \/ Stays
  BY DEF RemoveHandle, ConnInv, ConnectionTyped
<1>2. CASE Steps(retryCount)  BY <1>1, <1>2, SteppingIsSound
<1>3. CASE Stays
  <2>0. connectionHandles' # {} => connectionHandles # {}  BY <1>1
  <2>1. IsConnectionValid' => IsConnectionValid  BY <2>0, <1>1 DEF IsConnectionValid, Automatic
  <2> QED BY <1>1, <1>3, <2>1
      DEF Stays, Gently, ConnInv, ConnectionTyped, NotLeftDown, OnItsWay, SocketFits, HasRetries
<1> QED BY <1>1, <1>2, <1>3

(* What the scaffold does by itself. *)

ClosedBelow == at = "delay" /\ socket = "closed"

\* A socket is not exchanged for another one in silence, unless that is noted: it stays, its loss
\* is told or will be told when the delay is over, or there was none.
Tells ==
    /\ reopened => reopened'
    /\ \/ Lost' \/ reopened' \/ ClosedBelow'
       \/ socket \in {"open", "closing"} /\ socket' \in {"open", "closing"}
       \/ socket \notin {"open", "closing"} /\ ~ClosedBelow

LEMMA OpeningIsSound ==
    ASSUME ConnInv, UNCHANGED <<wantsState, connectionHandles, faults>>, IsConnectionValid, HasRetries,
           Opens({})
    PROVE  ConnInv' /\ socket' = "none"
<1>1. {} \subseteq Events  OBVIOUS
<1> QED BY <1>1 DEF Opens, ConnInv, ConnectionTyped, NotLeftDown, OnItsWay, SocketFits, Places, HasRetries

LEMMA TwoEvents ==
    /\ {"disconnecting", "disconnected"} \subseteq Events /\ {"disconnecting"} \subseteq Events
    /\ {"disconnected"} \subseteq Events /\ {"connected"} \subseteq Events
    /\ \A E : {"disconnecting", "disconnected"} \subseteq E \/ "disconnecting" \in E \/ "disconnected" \in E =>
          E \notin {{}, {"connected"}}
BY DEF Events

LEMMA BackedOffIsSound == ASSUME ConnInv, BackedOff PROVE ConnInv' /\ Tells
<1>1. /\ at = "backoff" /\ UNCHANGED <<wantsState, connectionHandles, reopened, faults>>
      /\ socket = "none"
      /\ retryCount \in 0 .. MaxRetries /\ retryCount < MaxRetries
      /\ wantsState' \in {"auto", "connected", "disconnected"} /\ connectionHandles' \subseteq Handles
  BY DEF BackedOff, Wants, ConnInv, ConnectionTyped, SocketFits, OnItsWay, HasRetries
<1>2. Tells  BY <1>1 DEF Tells, ClosedBelow
<1>3. CASE IsConnectionValid /\ HasRetries
  BY <1>1, <1>2, <1>3, OpeningIsSound DEF BackedOff
<1>4. CASE ~(IsConnectionValid /\ HasRetries)
  <2>1. Bottoms({"disconnecting"}, retryCount)  BY <1>4 DEF BackedOff
  <2> QED BY <1>1, <1>2, <2>1, BottomingIsSound, TwoEvents
<1> QED BY <1>3, <1>4

LEMMA OpenedIsSound == ASSUME ConnInv, Opened PROVE ConnInv' /\ Tells
<1>1. /\ at = "opening" /\ socket = "none"
      /\ UNCHANGED <<wantsState, connectionHandles, didCloseUnexpectedly, forced, reopened>>
  BY DEF Opened, Wants, ConnInv, SocketFits
<1>2. Tells  BY <1>1 DEF Tells, ClosedBelow
<1>3. CASE IsConnectionValid /\ HasRetries /\ ~didCloseUnexpectedly
  <2>1. at' = "up" /\ retryCount' = 0 /\ emitted' = {"connected"} /\ socket' = "open"
    BY <1>3 DEF Opened
  <2> QED BY <1>1, <1>2, <2>1, TwoEvents, RetriesAreNumbers
      DEF ConnInv, ConnectionTyped, NotLeftDown, OnItsWay, SocketFits, Places, HasRetries
<1>4. CASE ~(IsConnectionValid /\ HasRetries /\ ~didCloseUnexpectedly)
  <2>1. /\ at' = "closing" /\ emitted' = {"disconnecting"} /\ retryCount' = retryCount
        /\ socket' = "closing"
    BY <1>4 DEF Opened
  <2> QED BY <1>1, <1>2, <2>1, TwoEvents
      DEF ConnInv, ConnectionTyped, NotLeftDown, OnItsWay, SocketFits, Places, HasRetries
<1> QED BY <1>3, <1>4

LEMMA OpenFailsIsSound == ASSUME ConnInv, OpenFails PROVE ConnInv' /\ Tells
<1>1. /\ at = "opening" /\ UNCHANGED <<wantsState, connectionHandles, reopened>>
      /\ socket = "none"
      /\ retryCount \in 0 .. MaxRetries /\ retryCount < MaxRetries
      /\ wantsState' \in {"auto", "connected", "disconnected"} /\ connectionHandles' \subseteq Handles
      /\ Bottoms({"disconnecting", "disconnected"}, retryCount)
  BY DEF OpenFails, Wants, ConnInv, ConnectionTyped, SocketFits, OnItsWay, HasRetries
<1>2. Tells  BY <1>1 DEF Tells, ClosedBelow
<1> QED BY <1>1, <1>2, BottomingIsSound, TwoEvents

LEMMA DelayOverIsSound == ASSUME ConnInv, DelayOver PROVE ConnInv' /\ Tells
<1> DEFINE brk == didCloseUnexpectedly \/ (IsDisconnecting /\ IsConnectionValid)
<1>1. /\ at = "delay" /\ UNCHANGED <<wantsState, connectionHandles, reopened>>
      /\ socket \in {"open", "closing", "closed"} /\ (socket = "closed" => brk)
      /\ retryCount \in 0 .. MaxRetries /\ retryCount < MaxRetries
      /\ wantsState' \in {"auto", "connected", "disconnected"} /\ connectionHandles' \subseteq Handles
      /\ brk \in BOOLEAN
  BY DEF DelayOver, Wants, ConnInv, ConnectionTyped, SocketFits, OnItsWay, HasRetries
<1>2. CASE IsConnectionValid /\ HasRetries /\ ~brk
  <2>1. /\ at' = "up" /\ retryCount' = 0 /\ emitted' = {"connected"}
        /\ UNCHANGED <<socket, didCloseUnexpectedly, forced>>
    BY <1>2 DEF DelayOver
  <2> HIDE DEF brk
  <2>2. socket \in {"open", "closing"}  BY <1>1, <1>2
  <2>3. Tells  BY <1>1, <2>1, <2>2 DEF Tells
  <2> QED BY <1>1, <2>1, <2>2, <2>3, TwoEvents, RetriesAreNumbers
      DEF ConnInv, ConnectionTyped, NotLeftDown, OnItsWay, SocketFits, Places, HasRetries
<1>3. CASE ~(IsConnectionValid /\ HasRetries /\ ~brk) /\ socket = "closed"
  <2>1. Bottoms({"disconnected"}, retryCount)  BY <1>3 DEF DelayOver
  <2> HIDE DEF brk
  <2>2. ConnInv' /\ {"disconnected"} \subseteq emitted'  BY <1>1, <2>1, BottomingIsSound, TwoEvents
  <2>3. Lost'  BY <2>2, TwoEvents DEF Lost
  <2> QED BY <1>1, <2>2, <2>3 DEF Tells
<1>4. CASE ~(IsConnectionValid /\ HasRetries /\ ~brk) /\ socket # "closed"
  <2>1. /\ at' = "closing" /\ socket' = "closing" /\ didCloseUnexpectedly' = brk
        /\ UNCHANGED <<retryCount, forced, emitted>>
    BY <1>4 DEF DelayOver
  <2> HIDE DEF brk
  <2>2. Tells  BY <1>1, <1>4, <2>1 DEF Tells
  <2> QED BY <1>1, <2>1, <2>2
      DEF ConnInv, ConnectionTyped, NotLeftDown, OnItsWay, SocketFits, Places, HasRetries
<1> QED BY <1>2, <1>3, <1>4

LEMMA ClosedIsSound == ASSUME ConnInv, reopened \in BOOLEAN, Closed PROVE ConnInv' /\ Tells
<1>1. /\ at = "closing" /\ UNCHANGED connectionHandles
      /\ retryCount \in 0 .. MaxRetries /\ retryCount < MaxRetries
      /\ wantsState' \in {"auto", "connected", "disconnected"} /\ connectionHandles' \subseteq Handles
  BY DEF Closed, ConnInv, ConnectionTyped, OnItsWay, HasRetries
<1>2. CASE IsConnectionValid' /\ HasRetries /\ ~didCloseUnexpectedly
  <2>1. Opens({}) /\ reopened' = TRUE  BY <1>2 DEF Closed
  <2>2. Tells  BY <2>1 DEF Tells
  <2>3. {} \subseteq Events  OBVIOUS
  <2>4. ConnInv'
    BY <1>1, <1>2, <2>1, <2>3
    DEF Opens, ConnInv, ConnectionTyped, NotLeftDown, OnItsWay, SocketFits, Places, HasRetries
  <2> QED BY <2>2, <2>4
<1>3. CASE ~(IsConnectionValid' /\ HasRetries /\ ~didCloseUnexpectedly)
  <2>1. Bottoms({"disconnected"}, retryCount) /\ reopened' = reopened  BY <1>3 DEF Closed
  <2>2. ConnInv' /\ {"disconnected"} \subseteq emitted'  BY <1>1, <2>1, BottomingIsSound, TwoEvents
  <2>3. Lost'  BY <2>2, TwoEvents DEF Lost
  <2> QED BY <2>1, <2>2, <2>3 DEF Tells
<1> QED BY <1>2, <1>3

LEMMA ClosingIsSound == ASSUME ConnInv, SocketCloses \/ CloseOpen PROVE ConnInv' /\ Tells
<1>1. /\ UNCHANGED <<wantsState, connectionHandles, at, retryCount, didCloseUnexpectedly, emitted, reopened>>
      /\ socket \in {"open", "closing"} /\ socket' = "closing" /\ forced' \in BOOLEAN
  BY DEF SocketCloses, CloseOpen, ConnInv, ConnectionTyped
<1>2. Tells  BY <1>1 DEF Tells
<1> QED BY <1>1, <1>2 DEF ConnInv, ConnectionTyped, NotLeftDown, OnItsWay, SocketFits, HasRetries

LEMMA OnCloseIsSound == ASSUME ConnInv, OnClose PROVE ConnInv' /\ Tells
<1>1. /\ at \in {"up", "delay"} /\ socket = "closing" /\ UNCHANGED <<connectionHandles, reopened>>
      /\ retryCount \in 0 .. MaxRetries /\ retryCount < MaxRetries
      /\ wantsState' \in {"auto", "connected", "disconnected"} /\ connectionHandles' \subseteq Handles
  BY DEF OnClose, ConnInv, ConnectionTyped, OnItsWay, HasRetries
<1>2. CASE at = "up"
  <2>1. GoesDown(retryCount, "closed", TRUE)  BY <1>2 DEF OnClose
  <2>2. ConnInv' /\ Lost'
    <3>1. "closed" \in {"open", "closing", "closed"} /\ TRUE \in BOOLEAN  OBVIOUS
    <3> QED BY <1>1, <1>2, <2>1, <3>1, GoingDownIsSound
  <2> QED BY <1>1, <2>2 DEF Tells
<1>3. CASE at = "delay"
  <2>1. /\ socket' = "closed" /\ didCloseUnexpectedly' = TRUE
        /\ UNCHANGED <<at, retryCount, forced, emitted>>
    BY <1>3 DEF OnClose
  <2>2. Tells  BY <1>1, <1>3, <2>1 DEF Tells, ClosedBelow
  <2> QED BY <1>1, <1>3, <2>1, <2>2
      DEF ConnInv, ConnectionTyped, NotLeftDown, OnItsWay, SocketFits, HasRetries
<1> QED BY <1>1, <1>2, <1>3

-----------------------------------------------------------------------------
(* The session.                                                            *)

SessionTyped ==
    /\ subscriptions \subseteq Subs
    /\ phase \in [Subs -> {"out", "connecting", "updating", "in", "cancelling", "leaving"}]
    /\ session \in {"down", "connecting", "token", "sending", "subscribing", "up", "unsubscribing",
                    "refused", "falling", "releasing"}
    /\ needsReset \in BOOLEAN /\ resetting \in BOOLEAN /\ due \in BOOLEAN
    /\ request \in {"none", "subscribe", "unsubscribe", "lost"}
    /\ served \in BOOLEAN /\ reopened \in BOOLEAN
    /\ faults \in 0 .. MaxFaults

\* What was sent over a socket, and is answered over it, is gone with it.
ServedFits == served => socket \in {"open", "closing"}
RequestFits ==
    /\ request = "subscribe" => session = "subscribing"
    /\ request = "unsubscribe" => session = "unsubscribing"
    /\ request = "lost" => session \in {"subscribing", "unsubscribing"}

\* A session that is up, or about to be, is served; or it has heard, or will hear, that it is not.
UpIsServed == session = "up" => served \/ reopened \/ Lost \/ (due /\ ~Check) \/ ClosedBelow
AnsweredIsServed == session = "subscribing" /\ request = "none" => served \/ reopened \/ ~Check

SessionInv == SessionTyped /\ ServedFits /\ RequestFits /\ UpIsServed /\ AnsweredIsServed
Inv == ConnInv /\ SessionInv

LEMMA KeyIsAHandle ==
    /\ {Key} \subseteq Handles /\ {} \subseteq Handles
    /\ \A s \in Subs : {s} \subseteq Handles
    /\ \A h \in Holders : {h} \subseteq Handles
BY DEF Handles

\* What a call that leaves the socket alone carries over.
LEMMA CarriedGently ==
    ASSUME Inv, Carried \/ UNCHANGED serverVars, socket' = socket
    PROVE  /\ served' = served
           /\ request' \in {"none", "subscribe", "unsubscribe", "lost"}
           /\ request' = "none" <=> request = "none"
           /\ request' \in {request, "lost"}
<1>1. served \in BOOLEAN /\ ServedFits /\ request \in {"none", "subscribe", "unsubscribe", "lost"}
  BY DEF Inv, SessionInv, SessionTyped
<1>2. CASE Carried
  <2>1. served' = (served /\ socket' \in {"open", "closing"})  BY <1>2 DEF Carried
  <2>2. CASE served
    <3>1. socket' \in {"open", "closing"}  BY <1>1, <2>2 DEF ServedFits
    <3>2. served' = TRUE /\ served = TRUE  BY <1>1, <2>1, <2>2, <3>1
    <3> QED BY <1>1, <1>2, <3>2 DEF Carried
  <2>3. CASE ~served
    <3>1. served' = FALSE /\ served = FALSE  BY <1>1, <2>1, <2>3
    <3> QED BY <1>1, <1>2, <3>1 DEF Carried
  <2> QED BY <2>2, <2>3
<1>3. CASE UNCHANGED serverVars
  BY <1>1, <1>3 DEF serverVars
<1> QED BY <1>2, <1>3

\* A turn in which the session stays where it is.
LEMMA StayingIsSound ==
    ASSUME Inv, emitted = {}, ConnInv', Gently, reopened' = reopened, SessionTyped',
           Carried \/ UNCHANGED serverVars, session' = session, Check' => Check, due => due'
    PROVE  Inv'
<1>1. socket' = socket  BY DEF Gently
<1>2. /\ served' = served
      /\ request' = "none" <=> request = "none"
      /\ request' \in {request, "lost"}
  BY <1>1, CarriedGently
<1>3. ServedFits' /\ RequestFits'
  BY <1>1, <1>2 DEF Inv, SessionInv, ServedFits, RequestFits, SessionTyped
<1>4. AnsweredIsServed'
  BY <1>2 DEF Inv, SessionInv, AnsweredIsServed
<1>5. ClosedBelow => ClosedBelow' \/ Lost'
  BY <1>1 DEF Gently, ClosedBelow, Lost
<1>6. ~Lost  BY DEF Lost
<1>7. UpIsServed'
  BY <1>2, <1>5, <1>6 DEF Inv, SessionInv, UpIsServed
<1> QED BY <1>3, <1>4, <1>7 DEF Inv, SessionInv

\* A step that takes the session elsewhere than up or to the wait for what makes it so.
LEMMA MovingIsSound ==
    ASSUME Inv, ConnInv', socket' = socket, SessionTyped',
           session' \notin {"up", "subscribing"}, served' => served,
           request' = "none" \/ (request' = "unsubscribe" /\ session' = "unsubscribing")
    PROVE  Inv'
<1>1. ServedFits'  BY DEF Inv, SessionInv, ServedFits
<1>2. RequestFits'  BY DEF RequestFits
<1>3. UpIsServed' /\ AnsweredIsServed'  BY DEF UpIsServed, AnsweredIsServed
<1> QED BY <1>1, <1>2, <1>3 DEF Inv, SessionInv

\* A task, which no turn precedes, and which leaves the session's scaffold alone.
LEMMA TaskIsSound ==
    ASSUME Inv, ~TurnIsDue, ConnInv', Tells, Carried, SessionTyped', session' = session
    PROVE  Inv'
<1>1. /\ emitted = {} /\ (session = "up" => ~due)
      /\ ~(session = "subscribing" /\ request = "none")
  BY DEF TurnIsDue
<1>2. /\ served' <=> served /\ socket' \in {"open", "closing"}
      /\ request' = "none" => request = "none"
      /\ request' \in {request, "lost"} /\ (request = "none" => request' = "none")
  <2>1. served' = (served /\ socket' \in {"open", "closing"})  BY DEF Carried
  <2> QED BY <2>1 DEF Carried
<1>3. ServedFits' /\ RequestFits'
  BY <1>2 DEF Inv, SessionInv, ServedFits, RequestFits, SessionTyped
<1>4. AnsweredIsServed'  BY <1>1, <1>2 DEF AnsweredIsServed
<1>5. UpIsServed'
  <2> SUFFICES ASSUME session = "up", ~reopened', ~Lost', ~ClosedBelow' PROVE served'
    BY DEF UpIsServed
  <2>1. ~Lost  BY <1>1 DEF Lost
  <2>2. served \/ ClosedBelow
    BY <1>1, <2>1 DEF Inv, SessionInv, UpIsServed, Tells
  <2>3. ~(socket \notin {"open", "closing"} /\ ~ClosedBelow)
    BY <2>2 DEF Inv, SessionInv, ServedFits
  <2>4. socket \in {"open", "closing"} /\ socket' \in {"open", "closing"}
    BY <2>3 DEF Tells
  <2>5. served  BY <2>2, <2>4 DEF ClosedBelow
  <2> QED BY <1>2, <2>4, <2>5
<1> QED BY <1>3, <1>4, <1>5 DEF Inv, SessionInv

LEMMA GentlyTells ==
    ASSUME Gently, reopened' = reopened PROVE Tells
BY DEF Gently, Tells, Lost, ClosedBelow

(* The turns.                                                              *)

LEMMA ConnectionStays ==
    ASSUME ConnInv, UNCHANGED connectionVars
    PROVE  /\ ConnInv' /\ Gently /\ socket' = socket /\ reopened' = reopened /\ faults' = faults
           /\ IsConnectionValid' <=> IsConnectionValid
BY DEF connectionVars, ConnInv, ConnectionTyped, NotLeftDown, OnItsWay, SocketFits, HasRetries,
       IsConnectionValid, Automatic, Gently

LEMMA FallingIsSound ==
    ASSUME Inv, request = "none", NEW resets \in BOOLEAN, Falls(resets)
    PROVE  Inv'
<1>1. /\ ConnInv' /\ Gently /\ reopened' = reopened /\ faults' = faults
      /\ session' \in {"falling", "releasing"}
  <2>1. CASE resets
    <3>1. session' = "falling" /\ UNCHANGED connectionVars  BY <2>1 DEF Falls
    <3> QED BY <3>1, ConnectionStays DEF Inv
  <2>2. CASE ~resets
    <3>1. RemoveHandle({Key}) /\ session' \in {"falling", "releasing"}  BY <2>2 DEF Falls
    <3> QED BY <3>1, RemovingIsSound DEF Inv
  <2> QED BY <2>1, <2>2
<1>2. socket' = socket  BY <1>1 DEF Gently
<1>3. /\ Carried /\ needsReset' = resets
      /\ UNCHANGED <<subscriptions, phase, resetting, due>>
  BY DEF Falls, subVars
<1>4. served' = served /\ request' = "none"  BY <1>2, <1>3, CarriedGently
<1>5. SessionTyped'
  BY <1>1, <1>3, <1>4 DEF Inv, SessionInv, SessionTyped
<1>6. session' \notin {"up", "subscribing"}  BY <1>1
<1> QED BY <1>1, <1>2, <1>4, <1>5, <1>6, MovingIsSound

\* Steps of the session to a place where it asks for nothing.
LEMMA GoingIsSound ==
    ASSUME Inv, request = "none", NEW to \in {"down", "token"}, due' \in BOOLEAN,
           Goes(to), UNCHANGED request
    PROVE  Inv'
<1>1. /\ UNCHANGED <<connectionVars, subscriptions, phase, needsReset, resetting, served>>
      /\ session' = to /\ request' = "none"
  BY DEF Goes, subVars
<1>2. ConnInv' /\ socket' = socket /\ reopened' = reopened /\ faults' = faults
  BY <1>1, ConnectionStays DEF Inv
<1>3. SessionTyped'  BY <1>1, <1>2 DEF Inv, SessionInv, SessionTyped
<1>4. session' \notin {"up", "subscribing"}  BY <1>1
<1> QED BY <1>1, <1>2, <1>3, <1>4, MovingIsSound

LEMMA ClimbingIsSound ==
    ASSUME Inv, request = "none", Climbs PROVE Inv'
<1>1. /\ AddHandle({Key}) /\ Carried /\ session' = "connecting" /\ due' = FALSE
      /\ UNCHANGED <<subscriptions, phase, needsReset, resetting>>
  BY DEF Climbs, subVars
<1>2. ConnInv' /\ Gently /\ reopened' = reopened /\ faults' = faults
  BY <1>1, AddingIsSound, KeyIsAHandle DEF Inv
<1>3. socket' = socket  BY <1>2 DEF Gently
<1>4. served' = served /\ request' = "none"  BY <1>1, <1>3, CarriedGently
<1>5. SessionTyped'  BY <1>1, <1>2, <1>4 DEF Inv, SessionInv, SessionTyped
<1>6. session' \notin {"up", "subscribing"}  BY <1>1
<1> QED BY <1>1, <1>2, <1>3, <1>4, <1>5, <1>6, MovingIsSound

\* needsConnection, in a turn: the connection is made to step.
LEMMA SteppingConnection ==
    ASSUME Inv, emitted = {}, AddHandle({}), UNCHANGED sessionVars
    PROVE  Inv'
<1>1. /\ ConnInv' /\ Gently /\ reopened' = reopened /\ faults' = faults
      /\ wantsState' = wantsState /\ connectionHandles' = connectionHandles \union {}
  BY AddingIsSound, KeyIsAHandle DEF Inv
<1>2. /\ UNCHANGED <<subscriptions, phase, session, needsReset, resetting, due, request, served>>
      /\ UNCHANGED serverVars
  BY DEF sessionVars, subVars, scaffoldVars, serverVars
<1>3. Check' => Check
  BY <1>1, <1>2 DEF Check, IsConnectionValid, Automatic
<1>4. SessionTyped'  BY <1>1, <1>2 DEF Inv, SessionInv, SessionTyped
<1>5. session' = session /\ (due => due')  BY <1>2
<1> QED BY <1>1, <1>2, <1>3, <1>4, <1>5, StayingIsSound

LEMMA NothingIsAsked ==
    ASSUME Inv, session \notin {"subscribing", "unsubscribing"}
    PROVE  request = "none"
BY DEF Inv, SessionInv, SessionTyped, RequestFits

LEMMA StartSessionIsSound == ASSUME Inv, StartSession PROVE Inv'
<1>1. request = "none"  BY NothingIsAsked DEF StartSession
<1>2. CASE Check  BY <1>1, <1>2, ClimbingIsSound DEF StartSession
<1>3. CASE ~Check
  <2>1. Goes("down") /\ due' = FALSE /\ UNCHANGED request  BY <1>3 DEF StartSession
  <2>2. "down" \in {"down", "token"} /\ due' \in BOOLEAN  BY <2>1
  <2> QED BY <1>1, <2>1, <2>2, GoingIsSound
<1> QED BY <1>2, <1>3

LEMMA HasHandleIsSound == ASSUME Inv, emitted = {}, HasHandle PROVE Inv'
<1>1. request = "none"  BY NothingIsAsked DEF HasHandle
<1>2. needsReset \in BOOLEAN /\ due \in BOOLEAN  BY DEF Inv, SessionInv, SessionTyped
<1>3. CASE Check /\ IsConnected
  <2>1. Goes("token") /\ UNCHANGED <<due, request>>  BY <1>3 DEF HasHandle, NeedsConnection
  <2>2. "token" \in {"down", "token"} /\ due' \in BOOLEAN  BY <1>2, <2>1
  <2> QED BY <1>1, <2>1, <2>2, GoingIsSound
<1>4. CASE Check /\ ~IsConnected /\ at = "up"
  BY <1>4, SteppingConnection DEF HasHandle, NeedsConnection
<1>5. CASE Check /\ ~IsConnected /\ at # "up"
  <2>1. Falls(needsReset \/ ~Check)  BY <1>5 DEF HasHandle, NeedsConnection
  <2>2. (needsReset \/ ~Check) \in BOOLEAN  OBVIOUS
  <2> QED BY <1>1, <2>1, <2>2, FallingIsSound
<1>6. CASE ~Check
  BY <1>1, <1>2, <1>6, FallingIsSound DEF HasHandle
<1> QED BY <1>3, <1>4, <1>5, <1>6

LEMMA SendsIsSound == ASSUME Inv, emitted = {}, Sends PROVE Inv'
<1>1. request = "none"  BY NothingIsAsked DEF Sends
<1>2. CASE IsConnected
  <2>1. /\ UNCHANGED <<connectionVars, subscriptions, phase, needsReset, resetting, served, due>>
        /\ session' = "subscribing" /\ request' = "subscribe"
    BY <1>2 DEF Sends, NeedsConnection, Goes, subVars
  <2>2. ConnInv' /\ socket' = socket /\ reopened' = reopened /\ faults' = faults
    BY <2>1, ConnectionStays DEF Inv
  <2>3. SessionTyped'  BY <2>1, <2>2 DEF Inv, SessionInv, SessionTyped
  <2>4. ServedFits'  BY <2>1, <2>2 DEF Inv, SessionInv, ServedFits
  <2>5. RequestFits' /\ UpIsServed' /\ AnsweredIsServed'
    BY <2>1 DEF RequestFits, UpIsServed, AnsweredIsServed
  <2> QED BY <2>2, <2>3, <2>4, <2>5 DEF Inv, SessionInv
<1>3. CASE ~IsConnected /\ at = "up"
  BY <1>3, SteppingConnection DEF Sends, NeedsConnection
<1>4. CASE ~IsConnected /\ at # "up"
  <2>1. Falls(needsReset \/ ~Check)  BY <1>4 DEF Sends, NeedsConnection
  <2>2. (needsReset \/ ~Check) \in BOOLEAN  OBVIOUS
  <2> QED BY <1>1, <2>1, <2>2, FallingIsSound
<1> QED BY <1>2, <1>3, <1>4

\* Down from the top, with or without a word to the server.
LEMMA LeavingIsSound == ASSUME Inv, request = "none", Leaves PROVE Inv'
<1>1. CASE ~needsReset /\ IsConnectionValid /\ IsConnected
  <2>1. /\ session' = "unsubscribing" /\ request' = "unsubscribe"
        /\ UNCHANGED <<connectionVars, subscriptions, phase, needsReset, resetting, due, served>>
    BY <1>1 DEF Leaves, subVars
  <2>2. ConnInv' /\ socket' = socket /\ reopened' = reopened /\ faults' = faults
    BY <2>1, ConnectionStays DEF Inv
  <2>3. SessionTyped'  BY <2>1, <2>2 DEF Inv, SessionInv, SessionTyped
  <2>4. session' \notin {"up", "subscribing"}  BY <2>1
  <2> QED BY <2>1, <2>2, <2>3, <2>4, MovingIsSound
<1>2. CASE ~(~needsReset /\ IsConnectionValid /\ IsConnected)
  <2>1. Falls(needsReset)  BY <1>2 DEF Leaves
  <2>2. needsReset \in BOOLEAN  BY DEF Inv, SessionInv, SessionTyped
  <2> QED BY <2>1, <2>2, FallingIsSound
<1> QED BY <1>1, <1>2

\* The session stays up, or gets there: whoever is not served fails the check.
LEMMA SubscribedIsSound == ASSUME Inv, emitted = {}, Subscribed PROVE Inv'
<1>1. session = "subscribing" /\ request = "none"  BY DEF Subscribed
<1>2. CASE Check
  <2>1. /\ UNCHANGED <<connectionVars, subscriptions, phase, needsReset, resetting, served, due, request>>
        /\ session' = "up"
    BY <1>2 DEF Subscribed, Goes, subVars
  <2>2. ConnInv' /\ socket' = socket /\ reopened' = reopened /\ faults' = faults
    BY <2>1, ConnectionStays DEF Inv
  <2>3. SessionTyped'  BY <2>1, <2>2 DEF Inv, SessionInv, SessionTyped
  <2>4. ServedFits'  BY <2>1, <2>2 DEF Inv, SessionInv, ServedFits
  <2>5. served \/ reopened  BY <1>1, <1>2 DEF Inv, SessionInv, AnsweredIsServed
  <2>6. RequestFits' /\ UpIsServed' /\ AnsweredIsServed'
    BY <1>1, <2>1, <2>2, <2>5 DEF RequestFits, UpIsServed, AnsweredIsServed
  <2> QED BY <2>2, <2>3, <2>4, <2>6 DEF Inv, SessionInv
<1>3. CASE ~Check
  BY <1>1, <1>3, LeavingIsSound DEF Subscribed
<1> QED BY <1>2, <1>3

LEMMA UpdatesIsSound == ASSUME Inv, emitted = {}, Updates PROVE Inv'
<1>1. session = "up" /\ request = "none"  BY NothingIsAsked DEF Updates
<1>2. CASE Check
  <2>1. /\ UNCHANGED <<connectionVars, subscriptions, phase, needsReset, resetting, served, request>>
        /\ session' = "up" /\ due' = FALSE
    BY <1>2 DEF Updates, Goes, subVars
  <2>2. ConnInv' /\ socket' = socket /\ reopened' = reopened /\ faults' = faults /\ at' = at
    BY <2>1, ConnectionStays DEF Inv, connectionVars
  <2>3. SessionTyped'  BY <2>1, <2>2 DEF Inv, SessionInv, SessionTyped
  <2>4. ServedFits'  BY <2>1, <2>2 DEF Inv, SessionInv, ServedFits
  <2>5. served \/ reopened \/ ClosedBelow
    BY <1>1, <1>2 DEF Inv, SessionInv, UpIsServed, Lost
  <2>6. RequestFits' /\ UpIsServed' /\ AnsweredIsServed'
    BY <1>1, <2>1, <2>2, <2>5 DEF RequestFits, UpIsServed, AnsweredIsServed, ClosedBelow
  <2> QED BY <2>2, <2>3, <2>4, <2>6 DEF Inv, SessionInv
<1>3. CASE ~Check
  BY <1>1, <1>3, LeavingIsSound DEF Updates
<1> QED BY <1>2, <1>3

LEMMA UnsubscribedIsSound == ASSUME Inv, Unsubscribed PROVE Inv'
<1>1. request = "none"  BY DEF Unsubscribed
<1>2. needsReset \in BOOLEAN /\ due \in BOOLEAN  BY DEF Inv, SessionInv, SessionTyped
<1>3. CASE Check
  <2>1. Goes("token") /\ UNCHANGED <<due, request>>  BY <1>3 DEF Unsubscribed
  <2>2. "token" \in {"down", "token"} /\ due' \in BOOLEAN  BY <1>2, <2>1
  <2> QED BY <1>1, <2>1, <2>2, GoingIsSound
<1>4. CASE ~Check
  BY <1>1, <1>2, <1>4, FallingIsSound DEF Unsubscribed
<1> QED BY <1>3, <1>4

LEMMA RefusedIsSound == ASSUME Inv, Refused PROVE Inv'
<1>1. request = "none"  BY NothingIsAsked DEF Refused
<1>2. needsReset \in BOOLEAN  BY DEF Inv, SessionInv, SessionTyped
<1> QED BY <1>1, <1>2, FallingIsSound DEF Refused

\* Subscriptions that stop counting.
LEMMA RemovalIsTyped ==
    ASSUME SessionTyped, NEW S, Remove(S)
    PROVE  /\ subscriptions' \subseteq subscriptions
           /\ phase' \in [Subs -> {"out", "connecting", "updating", "in", "cancelling", "leaving"}]
BY DEF Remove, SessionTyped

LEMMA FallenIsSound == ASSUME Inv, Falling PROVE Inv'
<1>1. request = "none"  BY NothingIsAsked DEF Falling
<1>2. CASE Check  BY <1>1, <1>2, ClimbingIsSound DEF Falling
<1>3. CASE ~Check
  <2>1. /\ session' = "down" /\ due' \in BOOLEAN
        /\ UNCHANGED <<connectionVars, needsReset, resetting, request, served>>
        /\ Remove(Subs) \/ UNCHANGED <<subscriptions, phase>>
    BY <1>3 DEF Falling, serverVars, subVars
  <2>2. ConnInv' /\ socket' = socket /\ reopened' = reopened /\ faults' = faults
    BY <2>1, ConnectionStays DEF Inv
  <2>3. SessionTyped'
    <3>1. /\ subscriptions' \subseteq Subs
          /\ phase' \in [Subs -> {"out", "connecting", "updating", "in", "cancelling", "leaving"}]
      BY <2>1, RemovalIsTyped DEF Inv, SessionInv, SessionTyped
    <3> QED BY <3>1, <2>1, <2>2 DEF Inv, SessionInv, SessionTyped
  <2>4. session' \notin {"up", "subscribing"}  BY <2>1
  <2> QED BY <1>1, <2>1, <2>2, <2>3, <2>4, MovingIsSound
<1> QED BY <1>2, <1>3

LEMMA ResetsIsSound == ASSUME Inv, Resets PROVE Inv'
<1>1. session = "down" /\ request = "none"  BY NothingIsAsked DEF Resets
<1>2. /\ UNCHANGED <<connectionVars, subscriptions, phase, session, request, served>>
      /\ resetting' = FALSE
      /\ needsReset' \in {FALSE, needsReset} /\ due' \in {TRUE, due}
  BY DEF Resets, StartsAgain, subVars, serverVars
<1>3. ConnInv' /\ socket' = socket /\ reopened' = reopened /\ faults' = faults
  BY <1>2, ConnectionStays DEF Inv
<1>4. SessionTyped'  BY <1>2, <1>3 DEF Inv, SessionInv, SessionTyped
<1>5. session' \notin {"up", "subscribing"}  BY <1>1, <1>2
<1> QED BY <1>1, <1>2, <1>3, <1>4, <1>5, MovingIsSound

\* The listeners: from now on a session that was lost fails the check, until it is reset.
LEMMA HearIsSound == ASSUME Inv, Hear PROVE Inv'
<1> DEFINE loses == emitted # {"connected"} /\ session # "down"
<1>1. /\ emitted # {} /\ emitted' = {}
      /\ UNCHANGED <<wantsState, at, socket, retryCount, didCloseUnexpectedly, forced, reopened, faults,
                     session, served>>
      /\ connectionHandles' \subseteq connectionHandles
      /\ request' = IF emitted \intersect {"disconnected", "done"} # {} THEN "none" ELSE request
      /\ IF loses THEN OnDisconnected ELSE UNCHANGED <<due, needsReset, resetting>>
      /\ Remove(Subs) \/ UNCHANGED <<subscriptions, phase>>
  BY DEF Hear, WaitForMatchingMessage, subVars
<1>2. /\ subscriptions' \subseteq subscriptions
      /\ phase' \in [Subs -> {"out", "connecting", "updating", "in", "cancelling", "leaving"}]
  BY <1>1, RemovalIsTyped DEF Inv, SessionInv, SessionTyped
<1>3. IsConnectionValid' => IsConnectionValid
  <2>1. connectionHandles' # {} => connectionHandles # {}  BY <1>1
  <2> QED BY <1>1, <2>1 DEF IsConnectionValid, Automatic
<1>4. ConnInv'
  BY <1>1, <1>3 DEF Inv, ConnInv, ConnectionTyped, NotLeftDown, OnItsWay, SocketFits, HasRetries, Events
<1>5. /\ loses => due' = TRUE /\ (needsReset' = TRUE \/ ~IsConnectionValid)
      /\ needsReset' \in BOOLEAN /\ resetting' \in BOOLEAN /\ due' \in BOOLEAN
      /\ ~loses => UNCHANGED <<due, needsReset>>
  BY <1>1 DEF OnDisconnected, Inv, SessionInv, SessionTyped
<1>6. SessionTyped'
  BY <1>1, <1>2, <1>5 DEF Inv, SessionInv, SessionTyped
<1>7. ServedFits' /\ RequestFits'
  BY <1>1 DEF Inv, SessionInv, ServedFits, RequestFits
<1>8. loses => ~Check'
  BY <1>3, <1>5 DEF Check
<1>9. ~loses => (Check' => Check)
  <2>1. subscriptions' # {} => subscriptions # {}  BY <1>2
  <2> QED BY <1>3, <1>5, <2>1 DEF Check
<1>10. UpIsServed'
  <2> SUFFICES ASSUME session' = "up", ~loses
               PROVE  served' \/ reopened' \/ (due' /\ ~Check') \/ ClosedBelow'
    BY <1>5, <1>8 DEF UpIsServed
  <2>1. session = "up"  BY <1>1
  <2>2. ~Lost  BY <1>1, <2>1 DEF Lost
  <2>3. served \/ reopened \/ (due /\ ~Check) \/ ClosedBelow
    BY <2>1, <2>2 DEF Inv, SessionInv, UpIsServed
  <2> HIDE DEF loses
  <2> QED BY <1>1, <1>5, <1>9, <2>3 DEF ClosedBelow
<1>11. AnsweredIsServed'
  <2> SUFFICES ASSUME session' = "subscribing", request' = "none", ~loses
               PROVE  served' \/ reopened' \/ ~Check'
    BY <1>8 DEF AnsweredIsServed
  <2>1. session = "subscribing"  BY <1>1
  <2>2. emitted = {"connected"}  BY <2>1
  <2>3. request = "none"  BY <1>1, <2>2
  <2>4. served \/ reopened \/ ~Check  BY <2>1, <2>3 DEF Inv, SessionInv, AnsweredIsServed
  <2> HIDE DEF loses
  <2> QED BY <1>1, <1>9, <2>4
<1> QED BY <1>4, <1>6, <1>7, <1>10, <1>11 DEF Inv, SessionInv

\* The turns of add() and remove(): none of them makes a check hold that does not.
LEMMA AddConnectedIsSound ==
    ASSUME Inv, emitted = {}, NEW s \in Subs, AddConnected(s) PROVE Inv'
<1>1. CASE IsConnected
  <2>1. /\ Phase(s, "updating") /\ due' = TRUE
        /\ UNCHANGED <<connectionVars, subscriptions, session, needsReset, resetting, request, served>>
        /\ UNCHANGED serverVars
    BY <1>1 DEF AddConnected, serverVars
  <2>2. /\ ConnInv' /\ Gently /\ reopened' = reopened /\ faults' = faults
        /\ IsConnectionValid' <=> IsConnectionValid
    BY <2>1, ConnectionStays DEF Inv
  <2>3. Check' => Check  BY <2>1, <2>2 DEF Check
  <2>4. SessionTyped'  BY <2>1, <2>2 DEF Inv, SessionInv, SessionTyped, Phase
  <2>5. session' = session /\ (due => due')  BY <2>1
  <2> QED BY <2>1, <2>2, <2>3, <2>4, <2>5, StayingIsSound
<1>2. CASE ~IsConnected /\ at = "up"
  BY <1>2, SteppingConnection DEF AddConnected
<1>3. CASE ~IsConnected /\ at # "up"
  <2>1. /\ Phase(s, "leaving") /\ due' = TRUE /\ subscriptions' = subscriptions \ {s}
        /\ RemoveHandle({s}) /\ Carried
        /\ UNCHANGED <<session, needsReset, resetting>>
    BY <1>3 DEF AddConnected
  <2>2. /\ ConnInv' /\ Gently /\ reopened' = reopened /\ faults' = faults
        /\ wantsState' = wantsState /\ connectionHandles' \subseteq connectionHandles
    BY <2>1, RemovingIsSound DEF Inv
  <2>3. socket' = socket  BY <2>2 DEF Gently
  <2>4. served' = served /\ request' \in {"none", "subscribe", "unsubscribe", "lost"}
    BY <2>1, <2>3, CarriedGently
  <2>5. SessionTyped'  BY <2>1, <2>2, <2>4 DEF Inv, SessionInv, SessionTyped, Phase
  <2>6. Check' => Check
    <3>1. /\ connectionHandles' # {} => connectionHandles # {}
          /\ subscriptions' # {} => subscriptions # {}
      BY <2>1, <2>2
    <3> QED BY <2>1, <2>2, <3>1 DEF Check, IsConnectionValid, Automatic
  <2>7. session' = session /\ (due => due')  BY <2>1
  <2> QED BY <2>1, <2>2, <2>5, <2>6, <2>7, StayingIsSound
<1> QED BY <1>1, <1>2, <1>3

\* A session that rests up has no call due, and is served unless it was closed below.
LEMMA RestingIsSound ==
    ASSUME Inv, emitted = {}, SessionRests, ConnInv', Gently, reopened' = reopened, SessionTyped',
           Carried \/ UNCHANGED serverVars, session' = session
    PROVE  Inv'
<1>1. socket' = socket /\ session \in {"down", "up"} /\ ~due  BY DEF Gently, SessionRests
<1>2. /\ served' = served
      /\ request' = "none" <=> request = "none"
      /\ request' \in {request, "lost"}
  BY <1>1, CarriedGently
<1>3. ServedFits' /\ RequestFits'
  BY <1>1, <1>2 DEF Inv, SessionInv, ServedFits, RequestFits, SessionTyped
<1>4. AnsweredIsServed'  BY <1>1 DEF AnsweredIsServed
<1>5. ClosedBelow => ClosedBelow' \/ Lost'
  BY <1>1 DEF Gently, ClosedBelow, Lost
<1>6. ~Lost  BY DEF Lost
<1>7. UpIsServed'
  BY <1>1, <1>2, <1>5, <1>6 DEF Inv, SessionInv, UpIsServed
<1> QED BY <1>3, <1>4, <1>7 DEF Inv, SessionInv

LEMMA AddedIsSound ==
    ASSUME Inv, emitted = {}, NEW s \in Subs, Added(s) PROVE Inv'
<1>1. /\ SessionRests /\ Phase(s, IF s \in subscriptions THEN "in" ELSE "out")
      /\ needsReset' = (needsReset /\ subscriptions # {})
      /\ RemoveHandle({s}) /\ Carried
      /\ UNCHANGED <<subscriptions, session, resetting, due>>
  BY DEF Added, SessionIsForgotten
<1>2. ConnInv' /\ Gently /\ reopened' = reopened /\ faults' = faults
  BY <1>1, RemovingIsSound DEF Inv
<1>3. socket' = socket  BY <1>2 DEF Gently
<1>4. served' = served /\ request' \in {"none", "subscribe", "unsubscribe", "lost"}
  BY <1>1, <1>3, CarriedGently
<1>5. needsReset' \in BOOLEAN  BY <1>1
<1>6. SessionTyped'  BY <1>1, <1>2, <1>4, <1>5 DEF Inv, SessionInv, SessionTyped, Phase
<1> QED BY <1>1, <1>2, <1>6, RestingIsSound

LEMMA RemovedIsSound ==
    ASSUME Inv, emitted = {}, NEW s \in Subs, Removed(s) PROVE Inv'
<1>1. /\ SessionRests /\ Phase(s, "out")
      /\ needsReset' = (needsReset /\ subscriptions # {})
      /\ UNCHANGED <<connectionVars, subscriptions, session, resetting, due, request, served>>
      /\ UNCHANGED serverVars
  BY DEF Removed, SessionIsForgotten, serverVars
<1>2. ConnInv' /\ Gently /\ reopened' = reopened /\ faults' = faults
  BY <1>1, ConnectionStays DEF Inv
<1>3. needsReset' \in BOOLEAN  BY <1>1
<1>4. SessionTyped'  BY <1>1, <1>2, <1>3 DEF Inv, SessionInv, SessionTyped, Phase
<1> QED BY <1>1, <1>2, <1>4, RestingIsSound

LEMMA TurnIsSound == Inv /\ Turn => Inv'
<1> SUFFICES ASSUME Inv, Turn PROVE Inv'  OBVIOUS
<1>1. CASE Hear  BY <1>1, HearIsSound
<1>2. CASE emitted = {} /\ (StartSession \/ HasHandle \/ Sends \/ Subscribed)
  BY <1>2, StartSessionIsSound, HasHandleIsSound, SendsIsSound, SubscribedIsSound
<1>3. CASE emitted = {} /\ (Updates \/ Unsubscribed \/ Refused \/ Falling \/ Resets)
  BY <1>3, UpdatesIsSound, UnsubscribedIsSound, RefusedIsSound, FallenIsSound, ResetsIsSound
<1>4. CASE emitted = {} /\ SubscriptionTurn
  BY <1>4, AddConnectedIsSound, AddedIsSound, RemovedIsSound DEF SubscriptionTurn
<1> QED BY <1>1, <1>2, <1>3, <1>4 DEF Turn

(* The tasks.                                                              *)

LEMMA CarriedIsTyped ==
    ASSUME SessionTyped, Carried
    PROVE  served' \in BOOLEAN /\ request' \in {"none", "subscribe", "unsubscribe", "lost"}
BY DEF SessionTyped, Carried

LEMMA FaultsAreCounted ==
    ASSUME SessionTyped, faults < MaxFaults, faults' = faults + 1
    PROVE  faults' \in 0 .. MaxFaults
BY ConnectionAssumption DEF SessionTyped

LEMMA AloneIsSound ==
    ASSUME Inv, ~TurnIsDue, ConnInv', Tells, Alone, faults' \in 0 .. MaxFaults, reopened' \in BOOLEAN
    PROVE  Inv'
<1>1. Carried /\ UNCHANGED <<subscriptions, phase, session, needsReset, resetting, due>>
  BY DEF Alone, subVars, scaffoldVars
<1>2. served' \in BOOLEAN /\ request' \in {"none", "subscribe", "unsubscribe", "lost"}
  BY <1>1, CarriedIsTyped DEF Inv, SessionInv
<1>3. SessionTyped'  BY <1>1, <1>2 DEF Inv, SessionInv, SessionTyped
<1> QED BY <1>1, <1>3, TaskIsSound

LEMMA CountsOfWays ==
    ASSUME Inv
    PROVE  /\ BackedOff \/ Opened \/ DelayOver \/ Closed \/ OnClose =>
                faults' \in 0 .. MaxFaults /\ reopened' \in BOOLEAN
           /\ OpenFails \/ SocketCloses \/ CloseOpen =>
                faults' \in 0 .. MaxFaults /\ reopened' \in BOOLEAN
           /\ faults \in 0 .. MaxFaults /\ reopened \in BOOLEAN
<1>1. faults \in 0 .. MaxFaults /\ reopened \in BOOLEAN /\ SessionTyped
  BY DEF Inv, SessionInv, SessionTyped
<1>2. ASSUME BackedOff \/ Opened \/ DelayOver \/ OnClose
      PROVE  faults' = faults /\ reopened' = reopened
  BY <1>2 DEF BackedOff, Opened, DelayOver, OnClose, connectionVars, Wants, Stays, Opens, Bottoms, GoesDown
<1>3. ASSUME Closed PROVE faults' = faults /\ reopened' \in {TRUE, reopened}
  BY <1>3 DEF Closed
<1>4. ASSUME OpenFails \/ SocketCloses \/ CloseOpen
      PROVE  faults < MaxFaults /\ faults' = faults + 1 /\ reopened' = reopened
  BY <1>4 DEF OpenFails, SocketCloses, CloseOpen
<1> QED BY <1>1, <1>2, <1>3, <1>4, FaultsAreCounted

LEMMA WaysAreSound ==
    ASSUME Inv, ~TurnIsDue, Waits \/ ((OpenFails \/ SocketCloses \/ CloseOpen) /\ Alone)
    PROVE  Inv'
<1>0. ConnInv /\ reopened \in BOOLEAN  BY DEF Inv, SessionInv, SessionTyped
<1>1. CASE Waits
  <2>1. (BackedOff \/ Opened \/ DelayOver \/ Closed \/ OnClose) /\ Alone  BY <1>1 DEF Waits
  <2>2. ConnInv' /\ Tells
    BY <2>1, <1>0, BackedOffIsSound, OpenedIsSound, DelayOverIsSound, ClosedIsSound, OnCloseIsSound
  <2> QED BY <2>1, <2>2, CountsOfWays, AloneIsSound
<1>2. CASE (OpenFails \/ SocketCloses \/ CloseOpen) /\ Alone
  <2>1. ConnInv' /\ Tells  BY <1>0, <1>2, OpenFailsIsSound, ClosingIsSound
  <2> QED BY <1>2, <2>1, CountsOfWays, AloneIsSound
<1> QED BY <1>1, <1>2

\* Calls of the client and of publishers.
LEMMA CallsAreSound ==
    ASSUME Inv, ~TurnIsDue, Connect \/ Disconnect \/ (\E h \in Holders : AddHandle({h}) \/ RemoveHandle({h})),
           Alone
    PROVE  Inv'
<1>1. ConnInv' /\ Gently /\ reopened' = reopened /\ faults' = faults
  BY ConnectingIsSound, AddingIsSound, RemovingIsSound, KeyIsAHandle DEF Inv
<1>2. Tells  BY <1>1, GentlyTells
<1>3. faults' \in 0 .. MaxFaults /\ reopened' \in BOOLEAN  BY <1>1, CountsOfWays
<1> QED BY <1>1, <1>2, <1>3, AloneIsSound

\* disconnect() when there is no connection.
LEMMA StoppingIsSound ==
    ASSUME Inv, ~TurnIsDue, at = "down", ClientDisconnects
    PROVE  Inv'
<1>1. /\ wantsState' = "disconnected" /\ connectionHandles' = connectionHandles \ Holders
      /\ Remove(Subs)
      /\ UNCHANGED <<at, socket, retryCount, didCloseUnexpectedly, forced, emitted, reopened, faults,
                     session, needsReset, resetting, due, request, served>>
  BY DEF ClientDisconnects, Stays, scaffoldVars, serverVars
<1>2. ~IsConnectionValid'  BY <1>1 DEF IsConnectionValid, Automatic
<1>3. ConnInv'
  BY <1>1, <1>2 DEF Inv, ConnInv, ConnectionTyped, NotLeftDown, OnItsWay, SocketFits, HasRetries
<1>4. /\ subscriptions' \subseteq Subs
      /\ phase' \in [Subs -> {"out", "connecting", "updating", "in", "cancelling", "leaving"}]
  BY <1>1, RemovalIsTyped DEF Inv, SessionInv, SessionTyped
<1>5. SessionTyped'  BY <1>1, <1>4 DEF Inv, SessionInv, SessionTyped
<1>6. ServedFits' /\ RequestFits'  BY <1>1 DEF Inv, SessionInv, ServedFits, RequestFits
<1>7. ~(session = "subscribing" /\ request = "none") /\ ~Lost /\ ~(session = "up" /\ due)
  BY DEF TurnIsDue, Lost
<1>8. UpIsServed' /\ AnsweredIsServed'
  BY <1>1, <1>7 DEF Inv, SessionInv, UpIsServed, AnsweredIsServed, ClosedBelow
<1> QED BY <1>3, <1>5, <1>6, <1>8 DEF Inv, SessionInv

\* subscribe(), unsubscribe() and the end of a pipeline.
LEMMA AddIsSound ==
    ASSUME Inv, ~TurnIsDue, NEW s \in Subs, Add(s) PROVE Inv'
<1>1. /\ Phase(s, "connecting") /\ subscriptions' = subscriptions \union {s}
      /\ AddHandle({s}) /\ Carried
      /\ UNCHANGED <<session, needsReset, resetting, due>>
  BY DEF Add, scaffoldVars
<1>2. ConnInv' /\ Gently /\ reopened' = reopened /\ faults' = faults
  BY <1>1, AddingIsSound, KeyIsAHandle DEF Inv
<1>3. served' \in BOOLEAN /\ request' \in {"none", "subscribe", "unsubscribe", "lost"}
  BY <1>1, CarriedIsTyped DEF Inv, SessionInv
<1>4. SessionTyped'  BY <1>1, <1>2, <1>3 DEF Inv, SessionInv, SessionTyped, Phase
<1> QED BY <1>1, <1>2, <1>4, GentlyTells, TaskIsSound

\* Tasks that leave the connection and what was sent over it alone.
LEMMA UntoldIsSound ==
    ASSUME Inv, ~TurnIsDue, UNCHANGED <<connectionVars, serverVars, session>>, SessionTyped'
    PROVE  Inv'
<1>1. /\ ConnInv' /\ Gently /\ socket' = socket /\ reopened' = reopened
      /\ UNCHANGED <<at, socket, emitted, served, request, session>>
  BY ConnectionStays DEF Inv, connectionVars, serverVars
<1>2. ServedFits' /\ RequestFits'  BY <1>1 DEF Inv, SessionInv, ServedFits, RequestFits
<1>3. ~(session = "subscribing" /\ request = "none") /\ ~Lost /\ ~(session = "up" /\ due)
  BY DEF TurnIsDue, Lost
<1>4. UpIsServed' /\ AnsweredIsServed'
  BY <1>1, <1>3 DEF Inv, SessionInv, UpIsServed, AnsweredIsServed, ClosedBelow
<1> QED BY <1>1, <1>2, <1>4 DEF Inv, SessionInv

LEMMA EndingIsSound ==
    ASSUME Inv, ~TurnIsDue, NEW s \in Subs, Unsubscribe(s) \/ Cancelled(s) PROVE Inv'
<1>1. /\ UNCHANGED <<connectionVars, serverVars, session>>
      /\ UNCHANGED <<reopened, faults, needsReset, resetting, request, served>>
  BY DEF Unsubscribe, Cancelled, connectionVars, scaffoldVars, serverVars
<1>2. /\ subscriptions' \subseteq Subs /\ due' \in BOOLEAN
      /\ phase' \in [Subs -> {"out", "connecting", "updating", "in", "cancelling", "leaving"}]
  <2>1. CASE Unsubscribe(s)
    <3>1. Remove({s}) /\ due' = due  BY <2>1 DEF Unsubscribe, scaffoldVars
    <3> QED BY <3>1, RemovalIsTyped DEF Inv, SessionInv, SessionTyped
  <2>2. CASE Cancelled(s)
    BY <2>2 DEF Cancelled, Phase, Inv, SessionInv, SessionTyped
  <2> QED BY <2>1, <2>2
<1>3. SessionTyped'  BY <1>1, <1>2 DEF Inv, SessionInv, SessionTyped
<1> QED BY <1>1, <1>3, UntoldIsSound

\* What arrives.
LEMMA TokenIsSound == ASSUME Inv, ~TurnIsDue, TokenArrives PROVE Inv'
<1>1. /\ session = "token" /\ session' = "sending" /\ AddHandle({}) /\ Carried
      /\ UNCHANGED <<subscriptions, phase, needsReset, resetting, due>>
      /\ request = "none"
  BY NothingIsAsked DEF TokenArrives, subVars
<1>2. ConnInv' /\ Gently /\ reopened' = reopened /\ faults' = faults
  BY <1>1, AddingIsSound, KeyIsAHandle DEF Inv
<1>3. socket' = socket  BY <1>2 DEF Gently
<1>4. served' = served /\ request' = "none"  BY <1>1, <1>3, CarriedGently
<1>5. SessionTyped'  BY <1>1, <1>2, <1>4 DEF Inv, SessionInv, SessionTyped
<1>6. session' \notin {"up", "subscribing"}  BY <1>1
<1> QED BY <1>1, <1>2, <1>3, <1>4, <1>5, <1>6, MovingIsSound

LEMMA RespondsIsSound == ASSUME Inv, ~TurnIsDue, Responds PROVE Inv'
<1>1. /\ request \in {"subscribe", "unsubscribe"} /\ socket = "open"
      /\ request' = "none" /\ served' = (request = "subscribe")
      /\ UNCHANGED <<connectionVars, subscriptions, phase, session, needsReset, resetting, due>>
  BY DEF Responds, subVars, scaffoldVars
<1>2. ConnInv' /\ socket' = socket /\ reopened' = reopened /\ faults' = faults
  BY <1>1, ConnectionStays DEF Inv
<1>3. served' \in BOOLEAN  BY <1>1
<1>4. SessionTyped'  BY <1>1, <1>2, <1>3 DEF Inv, SessionInv, SessionTyped
<1>5. ServedFits' /\ RequestFits'  BY <1>1, <1>2 DEF ServedFits, RequestFits
<1>6. session \in {"subscribing", "unsubscribing"} /\ (session = "subscribing" => request = "subscribe")
  BY <1>1 DEF Inv, SessionInv, RequestFits
<1>7. UpIsServed' /\ AnsweredIsServed'
  BY <1>1, <1>6 DEF UpIsServed, AnsweredIsServed
<1> QED BY <1>2, <1>4, <1>5, <1>7 DEF Inv, SessionInv

LEMMA RefusesIsSound == ASSUME Inv, ~TurnIsDue, Refuses PROVE Inv'
<1>1. /\ faults < MaxFaults /\ faults' = faults + 1 /\ request' = "none" /\ session' = "refused"
      /\ UNCHANGED <<wantsState, connectionHandles, at, socket, retryCount, didCloseUnexpectedly,
                     forced, emitted, reopened, needsReset, resetting, due, served>>
  BY DEF Refuses
<1>2. ConnInv'
  BY <1>1 DEF Inv, ConnInv, ConnectionTyped, NotLeftDown, OnItsWay, SocketFits, HasRetries,
              IsConnectionValid, Automatic
<1>3. /\ subscriptions' \subseteq Subs
      /\ phase' \in [Subs -> {"out", "connecting", "updating", "in", "cancelling", "leaving"}]
  <2>1. \/ Remove(Subs)
        \/ subscriptions' \subseteq subscriptions /\ phase' = phase
    BY DEF Refuses, subVars
  <2> QED BY <2>1, RemovalIsTyped DEF Inv, SessionInv, SessionTyped
<1>4. faults' \in 0 .. MaxFaults  BY <1>1, FaultsAreCounted DEF Inv, SessionInv
<1>5. SessionTyped'  BY <1>1, <1>3, <1>4 DEF Inv, SessionInv, SessionTyped
<1>6. session' \notin {"up", "subscribing"}  BY <1>1
<1> QED BY <1>1, <1>2, <1>5, <1>6, MovingIsSound

LEMMA TaskKeepsInv == Inv /\ Task => Inv'
<1> SUFFICES ASSUME Inv, Task PROVE Inv'  OBVIOUS
<1>0. ~TurnIsDue  BY DEF Task
<1>1. CASE Connect /\ Alone  BY <1>0, <1>1, CallsAreSound
<1>2. CASE ClientDisconnects
  <2>1. CASE at = "down"  BY <1>0, <1>2, <2>1, StoppingIsSound
  <2>2. CASE at # "down"
    <3>1. Disconnect /\ Alone  BY <1>2, <2>2 DEF ClientDisconnects
    <3> QED BY <1>0, <3>1, CallsAreSound
  <2> QED BY <2>1, <2>2
<1>3. CASE Waits \/ Breaks
  BY <1>0, <1>3, WaysAreSound, RefusesIsSound DEF Breaks
<1>4. CASE TokenArrives \/ Responds
  BY <1>0, <1>4, TokenIsSound, RespondsIsSound
<1>5. ASSUME NEW s \in Subs, Add(s) \/ Unsubscribe(s) \/ Cancelled(s) PROVE Inv'
  BY <1>0, <1>5, AddIsSound, EndingIsSound
<1>6. ASSUME NEW h \in Holders, Hold(h) \/ Release(h) PROVE Inv'
  BY <1>0, <1>6, CallsAreSound DEF Hold, Release
<1> QED BY <1>1, <1>2, <1>3, <1>4, <1>5, <1>6 DEF Task

LEMMA InitKeepsInv == Init => Inv
<1> SUFFICES ASSUME Init PROVE Inv  OBVIOUS
<1>1. ConnInv
  BY RetriesAreNumbers
  DEF Init, ConnectionInit, ConnInv, ConnectionTyped, NotLeftDown, OnItsWay, SocketFits, HasRetries,
      IsConnectionValid, Automatic, Places
<1>2. 0 \in 0 .. MaxFaults  BY ConnectionAssumption
<1>3. SessionInv
  BY <1>2
  DEF Init, ConnectionInit, SessionInv, SessionTyped, ServedFits, RequestFits, UpIsServed, AnsweredIsServed
<1> QED BY <1>1, <1>3 DEF Inv

LEMMA UnchangedKeepsInv == Inv /\ UNCHANGED vars => Inv'
<1> SUFFICES ASSUME Inv, UNCHANGED vars PROVE Inv'  OBVIOUS
<1>1. /\ UNCHANGED connectionVars
      /\ UNCHANGED <<wantsState, connectionHandles, at, socket, emitted, reopened, faults>>
      /\ UNCHANGED <<subscriptions, phase, session, needsReset, resetting, due, request, served>>
  BY DEF vars, connectionVars, sessionVars, subVars, scaffoldVars, serverVars
<1>2. ConnInv'  BY <1>1, ConnectionStays DEF Inv
<1>3. SessionTyped' /\ ServedFits' /\ RequestFits'
  BY <1>1 DEF Inv, SessionInv, SessionTyped, ServedFits, RequestFits
<1>4. UpIsServed' /\ AnsweredIsServed'
  BY <1>1 DEF Inv, SessionInv, UpIsServed, AnsweredIsServed, Lost, ClosedBelow, Check,
              IsConnectionValid, Automatic
<1> QED BY <1>2, <1>3, <1>4 DEF Inv, SessionInv

LEMMA InvHolds == Spec => []Inv
<1>1. Inv /\ [Next]_vars => Inv'
  BY TurnIsSound, TaskKeepsInv, UnchangedKeepsInv DEF Next
<1> QED BY <1>1, InitKeepsInv, PTL DEF Spec

\* Every variable of the connection and of its session keeps its type: no count of retries passes
\* the limit, however often the connection is lost.
THEOREM SessionTypeCorrect == Spec => []TypeOK
<1>1. Inv => TypeOK
  BY DEF Inv, ConnInv, ConnectionTyped, SessionInv, SessionTyped, TypeOK, Handles, Places, Events
<1> QED BY <1>1, InvHolds, PTL

\* A connection that is wanted and has retries left does not rest without a socket: who came to
\* want it while the scaffold was on its way down was seen.
THEOREM ConnectionComesBack == Spec => []NeverLeftDown
<1>1. Inv => NeverLeftDown  BY DEF Inv, ConnInv, NotLeftDown, NeverLeftDown
<1> QED BY <1>1, InvHolds, PTL

\* A session that takes itself for subscribed is so on the socket of now, however sockets are
\* closed and replaced while it climbs, asks and waits.
THEOREM SubscribedNow == Spec => []SubscribedOnThisSocket
<1>1. ASSUME Inv PROVE SubscribedOnThisSocket
  <2>1. Quiet /\ session = "up" => ~Lost /\ ~due  BY DEF Quiet, TurnIsDue, Lost
  <2>2. socket = "open" => ~ClosedBelow  BY DEF ClosedBelow
  <2> QED BY <1>1, <2>1, <2>2 DEF Inv, SessionInv, UpIsServed, SubscribedOnThisSocket
<1> QED BY <1>1, InvHolds, PTL

-----------------------------------------------------------------------------
(* The ends of a WebRTC connection.                                        *)

SetUps == Rtc!Connection \union {None}

LEMMA TwoNodes ==
    /\ Rtc!Nodes = {Offerer, Answerer} /\ Offerer # Answerer
    /\ Rtc!Other(Offerer) = Answerer /\ Rtc!Other(Answerer) = Offerer
    /\ Rtc!IsOffering(Offerer) /\ ~Rtc!IsOffering(Answerer)
    /\ None \notin Rtc!Connection /\ None \notin Nat
    /\ MaxPingPongAttempts \in Nat
<1>1. Rtc!Nodes = {Offerer, Answerer} /\ Offerer # Answerer  BY EndpointsAssumption DEF Rtc!Nodes
<1>2. Rtc!Other(Offerer) = Answerer
  <2>1. \A o : o \in Rtc!Nodes /\ o # Offerer <=> o = Answerer  BY <1>1
  <2> QED BY <2>1 DEF Rtc!Other
<1>3. Rtc!Other(Answerer) = Offerer
  <2>1. \A o : o \in Rtc!Nodes /\ o # Answerer <=> o = Offerer  BY <1>1
  <2> QED BY <2>1 DEF Rtc!Other
<1> QED BY <1>1, <1>2, <1>3, EndpointsAssumption DEF Rtc!IsOffering

(* The signals on the way to a node over one tracker.                      *)

NoOffers(q) == \A i \in 1 .. Len(q) : q[i].type # "offer"
NoRequests(q) == \A i \in 1 .. Len(q) : q[i].type # "connect"
Ascends(q) ==
    \A i, j \in 1 .. Len(q) : i < j /\ q[i].type = "offer" /\ q[j].type = "offer" => q[i].id < q[j].id
UpTo(q, k) == \A i \in 1 .. Len(q) : q[i].type = "offer" => q[i].id <= k
Below(q, k) == \A i \in 1 .. Len(q) : q[i].type = "offer" => q[i].id < k
OfferOf(k) == [type |-> "offer", id |-> k]
Offers(q, k) == \E i \in 1 .. Len(q) : q[i] = OfferOf(k)

LEMMA SignalKinds ==
    /\ \A k \in Nat : OfferOf(k) \in Rtc!Signal /\ OfferOf(k).type = "offer" /\ OfferOf(k).id = k
    /\ \A k \in Nat : [type |-> "answer", id |-> k] \in Rtc!Signal
    /\ [type |-> "connect"] \in Rtc!Signal /\ [type |-> "error"] \in Rtc!Signal
    /\ \A s \in Rtc!Signal : s.type = "offer" => s.id \in Nat /\ s = OfferOf(s.id)
<1>1. \A k \in Nat : OfferOf(k) \in Rtc!Signal /\ OfferOf(k).type = "offer" /\ OfferOf(k).id = k
  BY DEF Rtc!Signal, OfferOf
<1>2. /\ \A k \in Nat : [type |-> "answer", id |-> k] \in Rtc!Signal
      /\ [type |-> "connect"] \in Rtc!Signal /\ [type |-> "error"] \in Rtc!Signal
  BY DEF Rtc!Signal
<1>3. ASSUME NEW s \in Rtc!Signal, s.type = "offer" PROVE s.id \in Nat /\ s = OfferOf(s.id)
  <2>1. s \in [type : {"offer", "answer"}, id : Nat]  BY <1>3 DEF Rtc!Signal
  <2> QED BY <1>3, <2>1 DEF OfferOf
<1> QED BY <1>1, <1>2, <1>3

\* The first signal is taken.
LEMMA TakenFirst ==
    ASSUME NEW q \in Seq(Rtc!Signal), q # <<>>
    PROVE  /\ Head(q) \in Rtc!Signal /\ Head(q) = q[1] /\ 1 \in 1 .. Len(q)
           /\ Tail(q) \in Seq(Rtc!Signal)
           /\ NoOffers(q) => NoOffers(Tail(q))
           /\ NoRequests(q) => NoRequests(Tail(q))
           /\ Ascends(q) => Ascends(Tail(q))
           /\ \A k : UpTo(q, k) => UpTo(Tail(q), k)
           /\ \A k : Below(q, k) => Below(Tail(q), k)
           /\ \A k : Offers(q, k) => Head(q) = OfferOf(k) \/ Offers(Tail(q), k)
           /\ \A k \in Nat : Ascends(q) /\ UpTo(q, k) /\ Head(q) = OfferOf(k) => NoOffers(Tail(q))
<1>1. /\ Head(q) \in Rtc!Signal /\ Tail(q) \in Seq(Rtc!Signal)
      /\ Len(Tail(q)) = Len(q) - 1
      /\ \A i \in 1 .. Len(Tail(q)) : Tail(q)[i] = q[i + 1]
  BY HeadTailProperties
<1>2. Len(q) \in Nat \ {0} /\ Head(q) = q[1]  BY EmptySeq
<1>3. 1 \in 1 .. Len(q) /\ \A i \in 1 .. Len(Tail(q)) : i + 1 \in 1 .. Len(q)
  BY <1>1, <1>2
<1> DEFINE t == Tail(q)
<1>4. /\ \A i \in 1 .. Len(t) : i \in Nat /\ i + 1 \in 1 .. Len(q) /\ t[i] = q[i + 1]
      /\ \A i \in 1 .. Len(q) : i = 1 \/ (i - 1 \in 1 .. Len(t) /\ t[i - 1] = q[i])
  BY <1>1, <1>2, <1>3
<1> HIDE DEF t
<1>5. /\ NoOffers(q) => NoOffers(t)
      /\ NoRequests(q) => NoRequests(t)
      /\ \A k : UpTo(q, k) => UpTo(t, k)
      /\ \A k : Below(q, k) => Below(t, k)
  <2>1. (NoOffers(q) => NoOffers(t)) /\ (NoRequests(q) => NoRequests(t))
    BY <1>4 DEF NoOffers, NoRequests
  <2>2. ASSUME NEW k, UpTo(q, k)  PROVE UpTo(t, k)
    BY <1>4, <2>2 DEF UpTo
  <2>3. ASSUME NEW k, Below(q, k)  PROVE Below(t, k)
    BY <1>4, <2>3 DEF Below
  <2>4. QED
    BY <2>1, <2>2, <2>3
<1>6. Ascends(q) => Ascends(t)
  <2> SUFFICES ASSUME Ascends(q), NEW i \in 1 .. Len(t), NEW j \in 1 .. Len(t), i < j,
                      t[i].type = "offer", t[j].type = "offer"
               PROVE  t[i].id < t[j].id
    BY DEF Ascends
  <2>1. i + 1 < j + 1  BY <1>4
  <2> QED BY <1>4, <2>1 DEF Ascends
<1>7. \A k : Offers(q, k) => Head(q) = OfferOf(k) \/ Offers(t, k)
  BY <1>2, <1>4 DEF Offers
<1>8. ASSUME NEW k \in Nat, Ascends(q), UpTo(q, k), Head(q) = OfferOf(k) PROVE NoOffers(t)
  <2>1. q[1].type = "offer" /\ q[1].id = k  BY <1>2, <1>8, SignalKinds
  <2> SUFFICES ASSUME NEW i \in 1 .. Len(t), t[i].type = "offer" PROVE FALSE  BY DEF NoOffers
  <2>2. i + 1 \in 1 .. Len(q) /\ q[i + 1].type = "offer" /\ 1 < i + 1  BY <1>4
  <2>3. q[i + 1] \in Rtc!Signal  BY <2>2, ElementOfSeq
  <2>4. q[i + 1].id \in Nat  BY <2>2, <2>3, SignalKinds
  <2>5. q[1].id < q[i + 1].id  BY <1>3, <1>8, <2>1, <2>2 DEF Ascends
  <2>6. q[i + 1].id <= k  BY <1>8, <2>2 DEF UpTo
  <2> QED BY <2>1, <2>4, <2>5, <2>6
<1> QED BY <1>1, <1>2, <1>3, <1>5, <1>6, <1>7, <1>8 DEF t

\* Another signal is sent.
LEMMA SentLast ==
    ASSUME NEW q \in Seq(Rtc!Signal), NEW s \in Rtc!Signal
    PROVE  /\ Append(q, s) \in Seq(Rtc!Signal) /\ Append(q, s) # <<>>
           /\ s.type # "offer" /\ NoOffers(q) => NoOffers(Append(q, s))
           /\ s.type # "connect" /\ NoRequests(q) => NoRequests(Append(q, s))
           /\ s.type # "offer" /\ Ascends(q) => Ascends(Append(q, s))
           /\ \A k : s.type # "offer" /\ UpTo(q, k) => UpTo(Append(q, s), k)
           /\ \A k : s.type # "offer" /\ Below(q, k) => Below(Append(q, s), k)
           /\ \A k \in Nat : s = OfferOf(k) /\ Below(q, k) /\ Ascends(q) =>
                 Ascends(Append(q, s)) /\ UpTo(Append(q, s), k) /\ Offers(Append(q, s), k)
<1> DEFINE t == Append(q, s)
<1>1. /\ t \in Seq(Rtc!Signal) /\ t # <<>>
      /\ Len(t) = Len(q) + 1 /\ Len(q) \in Nat
      /\ \A i \in 1 .. Len(q) : t[i] = q[i]
      /\ t[Len(q) + 1] = s
  BY AppendProperties, LenProperties
<1> HIDE DEF t
<1>2. /\ \A i \in 1 .. Len(t) : (i \in 1 .. Len(q) /\ t[i] = q[i]) \/ (i = Len(q) + 1 /\ t[i] = s)
      /\ Len(q) + 1 \in 1 .. Len(t)
  BY <1>1
<1>3. /\ s.type # "offer" /\ NoOffers(q) => NoOffers(t)
      /\ s.type # "connect" /\ NoRequests(q) => NoRequests(t)
      /\ \A k : s.type # "offer" /\ UpTo(q, k) => UpTo(t, k)
      /\ \A k : s.type # "offer" /\ Below(q, k) => Below(t, k)
  BY <1>2 DEF NoOffers, NoRequests, UpTo, Below
<1>4. ASSUME s.type # "offer", Ascends(q) PROVE Ascends(t)
  BY <1>2, <1>4 DEF Ascends
<1>5. ASSUME NEW k \in Nat, s = OfferOf(k), Below(q, k), Ascends(q)
      PROVE  Ascends(t) /\ UpTo(t, k) /\ Offers(t, k)
  <2>1. s.type = "offer" /\ s.id = k  BY <1>5, SignalKinds
  <2>2. \A i \in 1 .. Len(q) : q[i].type = "offer" => q[i].id \in Nat /\ q[i].id < k
    BY <1>5, ElementOfSeq, SignalKinds DEF Below
  <2>3. UpTo(t, k)  BY <1>2, <2>1, <2>2 DEF UpTo
  <2>4. Offers(t, k)  BY <1>1, <1>2, <1>5 DEF Offers
  <2>5. Ascends(t)
    <3> SUFFICES ASSUME NEW i \in 1 .. Len(t), NEW j \in 1 .. Len(t), i < j,
                        t[i].type = "offer", t[j].type = "offer"
                 PROVE  t[i].id < t[j].id
      BY DEF Ascends
    <3>1. i \in 1 .. Len(q) /\ t[i] = q[i]  BY <1>1
    <3>2. CASE j \in 1 .. Len(q)
      <4>1. t[j] = q[j]  BY <1>1, <3>2
      <4> QED BY <1>5, <3>1, <3>2, <4>1 DEF Ascends
    <3>3. CASE j = Len(q) + 1
      <4>1. t[j].id = k  BY <1>1, <2>1, <3>3
      <4> QED BY <2>2, <3>1, <4>1
    <3> QED BY <1>2, <3>2, <3>3
  <2> QED BY <2>3, <2>4, <2>5
<1> QED BY <1>1, <1>3, <1>4, <1>5 DEF t

(* The tables of the two ends.                                             *)

Tables ==
    /\ connections \in [Rtc!Nodes -> SetUps]
    /\ pending \in [Rtc!Nodes -> SUBSET Nat] /\ \A n \in Rtc!Nodes : IsFiniteSet(pending[n])
    /\ peerEvents \in [Rtc!Nodes -> Nat]
    /\ Rtc!EventsMatchConnections
    /\ routers \subseteq Routers /\ IsFiniteSet(routers)

\* The place of one node in the table is all that changes there.
Placed(n, connection) ==
    /\ connections'[n] = connection
    /\ \A m \in Rtc!Nodes : m # n => connections'[m] = connections[m]

LEMMA AttemptIsNew ==
    ASSUME NEW n \in Rtc!Nodes, Tables
    PROVE  Rtc!NewAttempt(n) \in Nat
<1> DEFINE S == pending[n]
           size == Cardinality(S)
<1>1. IsFiniteSet(S)  BY DEF Tables
<1>2. size \in Nat  BY <1>1, FS_CardinalityType
<1>3. Rtc!Cardinality(S) = size  BY DEF Rtc!Cardinality, Cardinality
<1>4. \E k \in 1 .. size + 1 : k \notin S
  <2> HIDE DEF S
  <2> SUFFICES ASSUME 1 .. size + 1 \subseteq S PROVE FALSE  OBVIOUS
  <2>1. Cardinality(1 .. size + 1) <= Cardinality(S)  BY <1>1, FS_Subset
  <2> DEFINE k == size
  <2>2. k \in Nat  BY <1>2
  <2> HIDE DEF k
  <2>3. Cardinality(1 .. k + 1) = k + 1
    <3>1. 1 \in Int /\ k + 1 \in Int /\ ~(1 > k + 1) /\ (k + 1) - 1 + 1 = k + 1  BY <2>2
    <3> QED BY <3>1, FS_Interval
  <2>4. k + 1 <= k  BY <2>1, <2>3 DEF k
  <2> QED BY <2>2, <2>4
<1>5. Rtc!NewAttempt(n) \in 1 .. size + 1  BY <1>3, <1>4 DEF Rtc!NewAttempt
<1> QED BY <1>2, <1>5

LEMMA Fields ==
    \A c \in Rtc!Connection :
        /\ c # None /\ c.id \in Nat /\ c.router \in Routers /\ c.attempt \in Nat \union {None}
        /\ c.described \in BOOLEAN /\ c.open \in BOOLEAN /\ c.pings \in 0 .. MaxPingPongAttempts
BY TwoNodes DEF Rtc!Connection

LEMMA NewConnectionIsSound ==
    ASSUME NEW id \in Nat, NEW r \in Routers, NEW mine \in Nat
    PROVE  LET c == Rtc!NewConnection(id, r, mine)
           IN  /\ c \in Rtc!Connection
               /\ c.id = id /\ c.router = r /\ c.attempt = mine /\ ~c.described /\ ~c.open
BY TwoNodes DEF Rtc!NewConnection, Rtc!Connection

LEMMA WithOfferIsSound ==
    ASSUME NEW c \in Rtc!Connection, NEW id \in Nat
    PROVE  LET o == Rtc!WithOffer(c, id)
           IN  /\ o \in Rtc!Connection
               /\ o.id = id /\ o.router = c.router /\ o.attempt = c.attempt /\ o.open = c.open
BY DEF Rtc!WithOffer, Rtc!Connection

LEMMA PlacedAlone ==
    ASSUME Tables, NEW n \in Rtc!Nodes, NEW c \in SetUps, Rtc!Becomes(n, c)
    PROVE  connections' \in [Rtc!Nodes -> SetUps] /\ Placed(n, c)
BY DEF Tables, Rtc!Becomes, Placed

LEMMA PendingStays ==
    ASSUME Tables, NEW n \in Rtc!Nodes, NEW S \in SUBSET Nat, IsFiniteSet(S),
           pending' = [pending EXCEPT ![n] = S]
    PROVE  pending' \in [Rtc!Nodes -> SUBSET Nat] /\ \A m \in Rtc!Nodes : IsFiniteSet(pending'[m])
BY DEF Tables

\* The node has heard of the connection if that is open.
LEMMA HeardOf ==
    ASSUME Tables, NEW n \in Rtc!Nodes, NEW c \in SetUps, NEW k \in Nat, Placed(n, c),
           peerEvents' = [peerEvents EXCEPT ![n] = k],
           k = IF c # None /\ c.open THEN 1 ELSE 0
    PROVE  peerEvents' \in [Rtc!Nodes -> Nat] /\ Rtc!EventsMatchConnections'
<1>1. peerEvents' \in [Rtc!Nodes -> Nat] /\ peerEvents'[n] = k
      /\ \A m \in Rtc!Nodes : m # n => peerEvents'[m] = peerEvents[m]
  BY DEF Tables
<1>2. ASSUME NEW m \in Rtc!Nodes
      PROVE  peerEvents'[m] = IF connections'[m] # None /\ connections'[m].open THEN 1 ELSE 0
  <2>1. CASE m = n  BY <1>1, <2>1 DEF Placed
  <2>2. CASE m # n
    <3>1. peerEvents'[m] = peerEvents[m] /\ connections'[m] = connections[m]
      BY <1>1, <2>2 DEF Placed
    <3> QED BY <3>1 DEF Tables, Rtc!EventsMatchConnections, Rtc!IsOpen, Rtc!Has
  <2> QED BY <2>1, <2>2
<1> QED BY <1>1, <1>2 DEF Rtc!EventsMatchConnections, Rtc!IsOpen, Rtc!Has

LEMMA EndIsSound ==
    ASSUME Tables, NEW n \in Rtc!Nodes, Rtc!Has(n), Rtc!Closed(n), routers' = routers
    PROVE  Tables' /\ Placed(n, None)
<1>1. None \in SetUps  BY DEF SetUps
<1>2. connections' \in [Rtc!Nodes -> SetUps] /\ Placed(n, None)
  BY <1>1, PlacedAlone DEF Rtc!Closed
<1>3. peerEvents' \in [Rtc!Nodes -> Nat] /\ Rtc!EventsMatchConnections'
  BY <1>1, <1>2, HeardOf DEF Rtc!Closed
<1> DEFINE S == pending[n] \ {connections[n].attempt}
<1>4. S \in SUBSET Nat /\ IsFiniteSet(S)  BY FS_RemoveElement DEF Tables
<1>5. pending' = [pending EXCEPT ![n] = S]  BY DEF Rtc!Closed, Rtc!Rejected
<1> HIDE DEF S
<1>6. pending' \in [Rtc!Nodes -> SUBSET Nat] /\ \A m \in Rtc!Nodes : IsFiniteSet(pending'[m])
  BY <1>4, <1>5, PendingStays
<1> QED BY <1>2, <1>3, <1>6 DEF Tables

\* A new connection, in an empty place or instead of another.
LEMMA MadeIsSound ==
    ASSUME Tables, NEW n \in Rtc!Nodes, NEW c \in Rtc!Connection, c.attempt \in Nat, ~c.open,
           (~Rtc!Has(n) /\ Rtc!Created(n, c)) \/ Rtc!Replaced(n, c)
    PROVE  Tables' /\ Placed(n, c) /\ routers' = routers \union {c.router}
<1>1. c \in SetUps /\ c.router \in Routers  BY Fields DEF SetUps
<1>2. /\ Rtc!Becomes(n, c) /\ routers' = routers \union {c.router}
      /\ pending' = [pending EXCEPT ![n] = @ \union {c.attempt}]
  BY DEF Rtc!Created, Rtc!Replaced
<1>3. connections' \in [Rtc!Nodes -> SetUps] /\ Placed(n, c)  BY <1>1, <1>2, PlacedAlone
<1>4. peerEvents' = [peerEvents EXCEPT ![n] = 0]
  <2>1. CASE ~Rtc!Has(n) /\ Rtc!Created(n, c)
    <3>1. peerEvents' = peerEvents  BY <2>1 DEF Rtc!Created
    <3>2. peerEvents[n] = 0  BY <2>1 DEF Tables, Rtc!EventsMatchConnections, Rtc!IsOpen
    <3> QED BY <3>1, <3>2 DEF Tables
  <2>2. CASE Rtc!Replaced(n, c)  BY <2>2 DEF Rtc!Replaced
  <2> QED BY <2>1, <2>2
<1>5. peerEvents' \in [Rtc!Nodes -> Nat] /\ Rtc!EventsMatchConnections'
  BY <1>1, <1>3, <1>4, HeardOf
<1> DEFINE S == pending[n] \union {c.attempt}
<1>6. S \in SUBSET Nat /\ IsFiniteSet(S)  BY FS_AddElement DEF Tables
<1>7. pending' = [pending EXCEPT ![n] = S]  BY <1>2
<1> HIDE DEF S
<1>8. pending' \in [Rtc!Nodes -> SUBSET Nat] /\ \A m \in Rtc!Nodes : IsFiniteSet(pending'[m])
  BY <1>6, <1>7, PendingStays
<1>9. routers' \subseteq Routers /\ IsFiniteSet(routers')
  BY <1>1, <1>2, FS_AddElement DEF Tables
<1> QED BY <1>2, <1>3, <1>5, <1>8, <1>9 DEF Tables

\* The connection goes on with other fields.
LEMMA OtherwiseIsSound ==
    ASSUME Tables, NEW n \in Rtc!Nodes, Rtc!Has(n), NEW c \in Rtc!Connection,
           c.open = connections[n].open, Rtc!Becomes(n, c), UNCHANGED <<pending, routers, peerEvents>>
    PROVE  Tables' /\ Placed(n, c)
<1>1. c \in SetUps /\ c # None  BY Fields DEF SetUps
<1>2. connections' \in [Rtc!Nodes -> SetUps] /\ Placed(n, c)  BY <1>1, PlacedAlone
<1> DEFINE k == peerEvents[n]
<1>3. /\ k \in Nat /\ peerEvents' = [peerEvents EXCEPT ![n] = k]
      /\ k = IF c # None /\ c.open THEN 1 ELSE 0
  BY <1>1 DEF Tables, Rtc!EventsMatchConnections, Rtc!IsOpen, Rtc!Has
<1> HIDE DEF k
<1>4. peerEvents' \in [Rtc!Nodes -> Nat] /\ Rtc!EventsMatchConnections'
  BY <1>1, <1>2, <1>3, HeardOf
<1> QED BY <1>2, <1>4 DEF Tables

\* What is kept of the signals, whoever they are for.
Wires ==
    /\ signals \in [Rtc!Nodes -> [Routers -> Seq(Rtc!Signal)]]
    /\ links \subseteq Nat /\ stopped \subseteq Rtc!Nodes
    /\ lastId \in Nat /\ calls \in Nat /\ lost \in Nat
StoppedIsEmpty == \A n \in Rtc!Nodes : n \in stopped => ~Rtc!Has(n)
OnRouters ==
    /\ \A n \in Rtc!Nodes : Rtc!Has(n) => connections[n].router \in routers
    /\ \A n \in Rtc!Nodes, r \in Routers : signals[n][r] # <<>> => r \in routers
Addressed ==
    \A r \in Routers : NoOffers(signals[Offerer][r]) /\ NoRequests(signals[Answerer][r])
\* Offers are made with growing ids, and that of the present connection is the latest one.
OfferIds ==
    /\ Rtc!Has(Offerer) => connections[Offerer].id = lastId
    /\ \A r \in Routers :
          /\ Ascends(signals[Answerer][r]) /\ UpTo(signals[Answerer][r], lastId)
          /\ Rtc!Has(Offerer) /\ ~connections[Offerer].described => Below(signals[Answerer][r], lastId)
OneRouter == \A r, s \in routers : r = s
\* The offer of the present connection is on the way, or it was the last that the answerer got.
Arrived ==
    /\ \A r \in Routers : NoOffers(signals[Answerer][r])
    /\ Rtc!Has(Answerer) => connections[Answerer].id \in {Rtc!NoId, lastId}
OfferIsKnown ==
    lost = 0 /\ OneRouter /\ Rtc!Has(Offerer) /\ connections[Offerer].described =>
        Offers(signals[Answerer][connections[Offerer].router], lastId) \/ Arrived
Talk == Wires /\ StoppedIsEmpty /\ OnRouters /\ Addressed /\ OfferIds
RtcInv == Tables /\ Talk /\ OfferIsKnown

\* No new offer is on the way; one may have gone.
Calmer ==
    /\ signals' \in [Rtc!Nodes -> [Routers -> Seq(Rtc!Signal)]]
    /\ \A n \in Rtc!Nodes, r \in Routers : signals'[n][r] # <<>> => r \in routers'
    /\ \A r \in Routers :
          /\ NoOffers(signals'[Offerer][r]) /\ NoRequests(signals'[Answerer][r])
          /\ NoOffers(signals[Answerer][r]) => NoOffers(signals'[Answerer][r])
          /\ Ascends(signals'[Answerer][r])
          /\ \A k : UpTo(signals[Answerer][r], k) => UpTo(signals'[Answerer][r], k)
          /\ \A k : Below(signals[Answerer][r], k) => Below(signals'[Answerer][r], k)
OffersStay ==
    \A r \in Routers, k \in Nat : Offers(signals[Answerer][r], k) => Offers(signals'[Answerer][r], k)

\* The connection of a node after a step without an offer of its own: of the offerer's, what its
\* offer said stays; the answerer's may be without an id yet.
SameOffer(n, c) ==
    /\ Rtc!Has(n) /\ connections[n] \in Rtc!Connection
    /\ c.id = connections[n].id /\ c.router = connections[n].router
    /\ c.described = connections[n].described
Milder(n, c) ==
    c # None =>
        /\ c.router \in routers' /\ n \notin stopped'
        /\ n = Offerer => SameOffer(n, c)
        /\ n = Answerer => c.id = Rtc!NoId \/ (Rtc!Has(n) /\ c.id = connections[n].id)
Around(n) ==
    /\ stopped' = stopped \/ stopped' = stopped \union {n}
    /\ routers \subseteq routers' /\ routers' \subseteq Routers

LEMMA TalkStays ==
    ASSUME Tables, Talk, Calmer, NEW n \in Rtc!Nodes, NEW c \in SetUps, Placed(n, c), Around(n),
           Milder(n, c), lastId' = lastId, Wires'
    PROVE  Talk'
<1>1. \A m \in Rtc!Nodes : m # n /\ m \in stopped' => m \in stopped  BY DEF Around
<1>2. StoppedIsEmpty'
  BY <1>1 DEF StoppedIsEmpty, Talk, Placed, Milder, Rtc!Has
<1>3. OnRouters'
  BY DEF OnRouters, Talk, Placed, Milder, Rtc!Has, Calmer, Around
<1>4. Addressed'  BY DEF Addressed, Calmer
<1>5. OfferIds'
  <2>1. Rtc!Has(Offerer)' => /\ Rtc!Has(Offerer)
                             /\ connections'[Offerer].id = connections[Offerer].id
                             /\ connections'[Offerer].described = connections[Offerer].described
    BY TwoNodes DEF Placed, Milder, SameOffer, Rtc!Has
  <2> QED BY <2>1 DEF OfferIds, Talk, Calmer
<1> QED BY <1>2, <1>3, <1>4, <1>5 DEF Talk

LEMMA OfferStaysKnown ==
    ASSUME Tables, Talk, OfferIsKnown, Calmer, OffersStay, NEW n \in Rtc!Nodes, NEW c \in SetUps,
           Placed(n, c), Around(n), Milder(n, c), lastId' = lastId, lost' = lost
    PROVE  OfferIsKnown'
<1> SUFFICES ASSUME lost' = 0, OneRouter', Rtc!Has(Offerer)', connections'[Offerer].described
             PROVE  Offers(signals'[Answerer][connections'[Offerer].router], lastId') \/ Arrived'
  BY DEF OfferIsKnown
<1>1. /\ Rtc!Has(Offerer) /\ connections[Offerer] \in Rtc!Connection
      /\ connections'[Offerer].router = connections[Offerer].router
      /\ connections'[Offerer].described = connections[Offerer].described
  <2>1. connections[Offerer] \in SetUps  BY TwoNodes DEF Tables
  <2> QED BY <2>1, TwoNodes DEF Placed, Milder, SameOffer, Rtc!Has, SetUps
<1>2. OneRouter  BY DEF OneRouter, Around
<1> DEFINE r == connections[Offerer].router
<1>3. r \in Routers  BY <1>1, Fields
<1>4. CASE Offers(signals[Answerer][r], lastId)
  BY <1>1, <1>3, <1>4 DEF OffersStay, Talk, Wires
<1>5. CASE Arrived
  <2>1. \A s \in Routers : NoOffers(signals'[Answerer][s])  BY <1>5 DEF Arrived, Calmer
  <2>2. Rtc!Has(Answerer)' => connections'[Answerer].id \in {Rtc!NoId, lastId'}
    BY <1>5, TwoNodes DEF Arrived, Placed, Milder, Rtc!Has
  <2> QED BY <2>1, <2>2 DEF Arrived
<1>6. Offers(signals[Answerer][r], lastId) \/ Arrived  BY <1>1, <1>2 DEF OfferIsKnown
<1> QED BY <1>4, <1>5, <1>6

(* The signals of a step.                                                  *)

Lesser(q, t) ==
    /\ t \in Seq(Rtc!Signal)
    /\ NoOffers(q) => NoOffers(t)
    /\ Ascends(q) => Ascends(t)
    /\ \A k : UpTo(q, k) => UpTo(t, k)
    /\ \A k : Below(q, k) => Below(t, k)
Lessened ==
    /\ signals' \in [Rtc!Nodes -> [Routers -> Seq(Rtc!Signal)]]
    /\ \A m \in Rtc!Nodes, s \in Routers :
          /\ Lesser(signals[m][s], signals'[m][s])
          /\ m = Answerer /\ NoRequests(signals[m][s]) => NoRequests(signals'[m][s])
          /\ signals'[m][s] # <<>> => s \in routers'

LEMMA LessenedIsCalmer ==
    ASSUME Talk, Lessened
    PROVE  Calmer
BY TwoNodes DEF Talk, Addressed, OfferIds, Lessened, Lesser, Calmer

LEMMA UnchangedIsCalmer ==
    ASSUME Talk, UNCHANGED signals, routers \subseteq routers'
    PROVE  Calmer /\ OffersStay
<1>1. Lessened  BY DEF Talk, Wires, OnRouters, Lessened, Lesser
<1> QED BY <1>1, LessenedIsCalmer DEF OffersStay

LEMMA OneWire ==
    ASSUME NEW wires \in [Rtc!Nodes -> [Routers -> Seq(Rtc!Signal)]], NEW n \in Rtc!Nodes,
           NEW r \in Routers, NEW q \in Seq(Rtc!Signal)
    PROVE  LET after == [wires EXCEPT ![n][r] = q]
           IN  /\ after \in [Rtc!Nodes -> [Routers -> Seq(Rtc!Signal)]]
               /\ after[n][r] = q
               /\ \A m \in Rtc!Nodes, s \in Routers :
                     m # n \/ s # r => after[m][s] = wires[m][s]
OBVIOUS

LEMMA TakenIsCalmer ==
    ASSUME Talk, NEW n \in Rtc!Nodes, NEW r \in Routers, signals[n][r] # <<>>,
           signals' = [signals EXCEPT ![n][r] = Tail(@)], routers \subseteq routers'
    PROVE  /\ Calmer
           /\ Head(signals[n][r]) \in Rtc!Signal /\ r \in routers
           /\ Head(signals[n][r]).type # "offer" => OffersStay
<1> DEFINE q == signals[n][r]
           t == Tail(q)
<1>1. q \in Seq(Rtc!Signal) /\ q # <<>>  BY DEF Talk, Wires
<1>2. r \in routers  BY DEF Talk, OnRouters
<1>3. /\ Head(q) \in Rtc!Signal /\ t \in Seq(Rtc!Signal)
      /\ Lesser(q, t) /\ (NoRequests(q) => NoRequests(t))
      /\ \A k : Offers(q, k) => Head(q) = OfferOf(k) \/ Offers(t, k)
  <2> HIDE DEF q
  <2> QED BY <1>1, TakenFirst DEF Lesser
<1>4. /\ signals' \in [Rtc!Nodes -> [Routers -> Seq(Rtc!Signal)]]
      /\ signals'[n][r] = t
      /\ \A m \in Rtc!Nodes, s \in Routers : m # n \/ s # r => signals'[m][s] = signals[m][s]
  <2>1. signals' = [signals EXCEPT ![n][r] = t]  OBVIOUS
  <2> HIDE DEF t
  <2> QED BY <1>3, <2>1, OneWire DEF Talk, Wires
<1>5. Lessened
  <2> SUFFICES ASSUME NEW m \in Rtc!Nodes, NEW s \in Routers
               PROVE  /\ Lesser(signals[m][s], signals'[m][s])
                      /\ m = Answerer /\ NoRequests(signals[m][s]) => NoRequests(signals'[m][s])
                      /\ signals'[m][s] # <<>> => s \in routers'
    BY <1>4 DEF Lessened
  <2>1. CASE m = n /\ s = r
    <3> HIDE DEF t
    <3> QED BY <1>2, <1>3, <1>4, <2>1
  <2>2. CASE m # n \/ s # r
    <3>1. signals'[m][s] = signals[m][s]  BY <1>4, <2>2
    <3> QED BY <3>1 DEF Talk, Wires, OnRouters, Lesser
  <2> QED BY <2>1, <2>2
<1>6. ASSUME Head(q).type # "offer" PROVE OffersStay
  <2> SUFFICES ASSUME NEW s \in Routers, NEW k \in Nat, Offers(signals[Answerer][s], k)
               PROVE  Offers(signals'[Answerer][s], k)
    BY DEF OffersStay
  <2>1. Head(q) # OfferOf(k)  BY <1>6, SignalKinds
  <2> HIDE DEF t
  <2> QED BY <1>3, <1>4, <2>1, TwoNodes
<1> QED BY <1>2, <1>3, <1>5, <1>6, LessenedIsCalmer

LEMMA SentIsCalmer ==
    ASSUME Talk, NEW n \in Rtc!Nodes, NEW r \in Routers, NEW signal \in Rtc!Signal,
           signal.type # "offer", n = Answerer => signal.type # "connect",
           Rtc!Send(n, r, signal), routers \subseteq routers', r \in routers'
    PROVE  Calmer /\ OffersStay
<1> DEFINE q == signals[n][r]
           t == Append(q, signal)
<1>1. q \in Seq(Rtc!Signal)  BY DEF Talk, Wires
<1>2. /\ t \in Seq(Rtc!Signal) /\ Lesser(q, t)
      /\ signal.type # "connect" /\ NoRequests(q) => NoRequests(t)
      /\ \A k : Offers(q, k) => Offers(t, k)
  <2> HIDE DEF q
  <2>1. /\ t \in Seq(Rtc!Signal) /\ Lesser(q, t)
        /\ signal.type # "connect" /\ NoRequests(q) => NoRequests(t)
    BY <1>1, SentLast DEF Lesser
  <2>2. Len(t) = Len(q) + 1 /\ \A i \in 1 .. Len(q) : i \in 1 .. Len(t) /\ t[i] = q[i]
    BY <1>1, AppendProperties, LenProperties
  <2> HIDE DEF t
  <2> QED BY <2>1, <2>2 DEF Offers
<1>3. /\ signals' \in [Rtc!Nodes -> [Routers -> Seq(Rtc!Signal)]]
      /\ signals'[n][r] = t
      /\ \A m \in Rtc!Nodes, s \in Routers : m # n \/ s # r => signals'[m][s] = signals[m][s]
  <2>1. signals' = [signals EXCEPT ![n][r] = t]  BY DEF Rtc!Send
  <2> HIDE DEF t
  <2> QED BY <1>2, <2>1, OneWire DEF Talk, Wires
<1>4. Lessened
  <2> SUFFICES ASSUME NEW m \in Rtc!Nodes, NEW s \in Routers
               PROVE  /\ Lesser(signals[m][s], signals'[m][s])
                      /\ m = Answerer /\ NoRequests(signals[m][s]) => NoRequests(signals'[m][s])
                      /\ signals'[m][s] # <<>> => s \in routers'
    BY <1>3 DEF Lessened
  <2>1. CASE m = n /\ s = r
    <3> HIDE DEF t
    <3> QED BY <1>2, <1>3, <2>1
  <2>2. CASE m # n \/ s # r
    <3>1. signals'[m][s] = signals[m][s]  BY <1>3, <2>2
    <3> QED BY <3>1 DEF Talk, Wires, OnRouters, Lesser
  <2> QED BY <2>1, <2>2
<1>5. OffersStay
  <2> HIDE DEF t
  <2> QED BY <1>2, <1>3, TwoNodes DEF OffersStay
<1> QED BY <1>4, <1>5, LessenedIsCalmer

(* The steps that make no offer.                                           *)

LEMMA MildStep ==
    ASSUME RtcInv, Tables', NEW n \in Rtc!Nodes, NEW c \in SetUps, Placed(n, c), Milder(n, c), Around(n),
           Calmer, OffersStay, lastId' = lastId, lost' = lost, links' \subseteq Nat, calls' \in Nat
    PROVE  RtcInv'
<1>1. Wires'  BY DEF RtcInv, Talk, Wires, Calmer, Around
<1>2. Talk'  BY <1>1, TalkStays DEF RtcInv
<1>3. OfferIsKnown'  BY OfferStaysKnown DEF RtcInv
<1> QED BY <1>2, <1>3 DEF RtcInv

\* What holds of the connection that a node has.
LEMMA PresentConnection ==
    ASSUME RtcInv, NEW n \in Rtc!Nodes, Rtc!Has(n)
    PROVE  /\ connections[n] \in Rtc!Connection /\ connections[n] \in SetUps /\ n \notin stopped
           /\ connections[n].router \in routers /\ connections[n].router \in Routers
BY Fields DEF RtcInv, Tables, Talk, StoppedIsEmpty, OnRouters, SetUps, Rtc!Has

\* The connections stay as they are.
LEMMA PassedBy ==
    ASSUME RtcInv, NEW n \in Rtc!Nodes, Calmer, OffersStay,
           UNCHANGED <<connections, pending, peerEvents, routers, lastId, lost, stopped>>,
           links' \subseteq Nat, calls' \in Nat
    PROVE  RtcInv'
<1> DEFINE c == connections[n]
<1>1. c \in SetUps /\ Placed(n, c)  BY DEF RtcInv, Tables, Placed
<1>2. Tables'
  BY DEF RtcInv, Tables, Rtc!EventsMatchConnections, Rtc!IsOpen, Rtc!Has
<1>3. c # None => Rtc!Has(n)  BY DEF Rtc!Has
<1>4. Milder(n, c)
  <2> SUFFICES ASSUME c # None
               PROVE  /\ c.router \in routers' /\ n \notin stopped'
                      /\ SameOffer(n, c) /\ Rtc!Has(n) /\ c.id = connections[n].id
    BY DEF Milder
  <2> QED BY <1>3, PresentConnection DEF SameOffer
<1>5. Around(n)  BY DEF Around, RtcInv, Tables
<1> HIDE DEF c
<1> QED BY <1>1, <1>2, <1>4, <1>5, MildStep

\* A connection that its node has goes on, with the same offer.
LEMMA GoesOn ==
    ASSUME RtcInv, Tables', NEW n \in Rtc!Nodes, Rtc!Has(n), NEW c \in SetUps, Placed(n, c),
           SameOffer(n, c), UNCHANGED <<routers, lastId, lost, stopped, links, calls>>,
           Calmer, OffersStay
    PROVE  RtcInv'
<1>1. Milder(n, c) /\ Around(n)
  BY PresentConnection DEF Milder, SameOffer, Around, RtcInv, Tables
<1>2. links' \subseteq Nat /\ calls' \in Nat  BY DEF RtcInv, Talk, Wires
<1> QED BY <1>1, <1>2, MildStep

\* A connection goes.
LEMMA GoneIsSound ==
    ASSUME RtcInv, NEW n \in Rtc!Nodes, Rtc!Has(n), Rtc!Closed(n),
           UNCHANGED <<routers, lastId, lost, links>>, calls' \in Nat,
           stopped' = stopped \/ stopped' = stopped \union {n}, Calmer, OffersStay
    PROVE  RtcInv'
<1>1. Tables' /\ Placed(n, None)  BY EndIsSound DEF RtcInv
<1>2. None \in SetUps /\ Milder(n, None) /\ Around(n)
  BY DEF SetUps, Milder, Around, RtcInv, Tables
<1>3. links' \subseteq Nat  BY DEF RtcInv, Talk, Wires
<1> QED BY <1>1, <1>2, <1>3, MildStep

LEMMA SilentWires ==
    ASSUME RtcInv, UNCHANGED <<signals, routers>>
    PROVE  Calmer /\ OffersStay
BY UnchangedIsCalmer DEF RtcInv

LEMMA EndingPeerIsSound ==
    ASSUME RtcInv, NEW n \in Rtc!Nodes,
           \/ Rtc!Breaks(n) \/ Rtc!ConnectionTimeout(n) \/ Rtc!Close(n)
           \/ Rtc!Stop(n) /\ Rtc!Has(n)
           \/ Rtc!Ping(n) /\ Rtc!Closed(n)
    PROVE  RtcInv'
<1>1. /\ Rtc!Has(n) /\ Rtc!Closed(n) /\ UNCHANGED <<signals, routers, lastId, lost, links>>
      /\ stopped' = stopped \/ stopped' = stopped \union {n}
      /\ calls' = calls \/ calls' = calls + 1
  BY DEF Rtc!Breaks, Rtc!ConnectionTimeout, Rtc!Close, Rtc!Stop, Rtc!Ping, Rtc!IsOpen
<1>2. calls' \in Nat  BY <1>1 DEF RtcInv, Talk, Wires
<1> QED BY <1>1, <1>2, SilentWires, GoneIsSound

LEMMA StoppedPeerIsSound ==
    ASSUME RtcInv, NEW n \in Rtc!Nodes, Rtc!Stop(n)
    PROVE  RtcInv'
<1>1. CASE Rtc!Has(n)  BY <1>1, EndingPeerIsSound
<1>2. CASE ~Rtc!Has(n)
  <2>1. /\ UNCHANGED <<connections, pending, routers, peerEvents, signals, links, lastId, calls, lost>>
        /\ stopped' = stopped \union {n}
    BY <1>2 DEF Rtc!Stop, Rtc!Ignored
  <2>2. Calmer /\ OffersStay  BY <2>1, SilentWires
  <2>3. Tables'  BY <2>1 DEF RtcInv, Tables, Rtc!EventsMatchConnections, Rtc!IsOpen, Rtc!Has
  <2>4. None \in SetUps /\ Placed(n, None) /\ Milder(n, None) /\ Around(n)
    BY <1>2, <2>1 DEF SetUps, Placed, Milder, Around, RtcInv, Tables, Rtc!Has
  <2>5. links' \subseteq Nat /\ calls' \in Nat  BY <2>1 DEF RtcInv, Talk, Wires
  <2> QED BY <2>1, <2>2, <2>3, <2>4, <2>5, MildStep
<1> QED BY <1>1, <1>2

LEMMA ReportsAreSound ==
    ASSUME RtcInv, NEW n \in Rtc!Nodes,
           Rtc!StateConnected(n) \/ Rtc!Pong(n) \/ (Rtc!Ping(n) /\ ~Rtc!Closed(n))
    PROVE  RtcInv'
<1>1. Rtc!Has(n) /\ UNCHANGED <<pending, signals, links, peerEvents, stopped, lastId, routers, calls, lost>>
  BY DEF Rtc!StateConnected, Rtc!Pong, Rtc!Ping, Rtc!Linked, Rtc!IsOpen
<1>2. connections[n] \in Rtc!Connection  BY <1>1, PresentConnection
<1> DEFINE Alike(c) == /\ c \in Rtc!Connection /\ c.open = connections[n].open
                       /\ c.id = connections[n].id /\ c.router = connections[n].router
                       /\ c.described = connections[n].described
<1>3. \E c : Alike(c) /\ Rtc!Becomes(n, c)
  <2>1. CASE Rtc!StateConnected(n)
    <3>1. Alike([connections[n] EXCEPT !.connected = TRUE])  BY <1>2 DEF Rtc!Connection
    <3> QED BY <2>1, <3>1 DEF Rtc!StateConnected
  <2>2. CASE Rtc!Pong(n)
    <3>1. Alike([connections[n] EXCEPT !.pings = 0])  BY <1>2, TwoNodes DEF Rtc!Connection
    <3> QED BY <2>2, <3>1 DEF Rtc!Pong
  <2>3. CASE Rtc!Ping(n) /\ ~Rtc!Closed(n)
    <3>1. /\ ~(connections[n].pings >= MaxPingPongAttempts)
          /\ Rtc!Becomes(n, [connections[n] EXCEPT !.pings = @ + 1])
      BY <2>3 DEF Rtc!Ping
    <3>2. connections[n].pings + 1 \in 0 .. MaxPingPongAttempts  BY <1>2, <3>1, Fields, TwoNodes
    <3>3. Alike([connections[n] EXCEPT !.pings = @ + 1])  BY <1>2, <3>2 DEF Rtc!Connection
    <3> QED BY <3>1, <3>3
  <2> QED BY <2>1, <2>2, <2>3
<1>4. PICK c : Alike(c) /\ Rtc!Becomes(n, c)  BY <1>3
<1>5. Tables' /\ Placed(n, c)  BY <1>1, <1>4, OtherwiseIsSound DEF RtcInv
<1>6. c \in SetUps /\ SameOffer(n, c)  BY <1>1, <1>2, <1>4 DEF SetUps, SameOffer
<1> QED BY <1>1, <1>5, <1>6, SilentWires, GoesOn

\* The data channel opens; the node hears of it once.
LEMMA OpenPeerIsSound ==
    ASSUME RtcInv, NEW n \in Rtc!Nodes, Rtc!EmitOpen(n)
    PROVE  RtcInv'
<1> DEFINE c == [connections[n] EXCEPT !.open = TRUE, !.attempt = None, !.timer = FALSE]
           S == pending[n] \ {connections[n].attempt}
           k == Rtc!EventsAfterOpen(n)
<1>1. /\ Rtc!Has(n) /\ Rtc!Becomes(n, c) /\ UNCHANGED <<signals, links, stopped, lastId, routers, calls, lost>>
      /\ pending' = [pending EXCEPT ![n] = S] /\ peerEvents' = [peerEvents EXCEPT ![n] = k]
  BY DEF Rtc!EmitOpen, Rtc!Linked, Rtc!Resolved
<1>2. connections[n] \in Rtc!Connection  BY <1>1, PresentConnection
<1>3. c \in Rtc!Connection /\ c.open
  BY <1>2 DEF Rtc!Connection
<1>4. c.id = connections[n].id /\ c.router = connections[n].router /\ c.described = connections[n].described
  BY <1>2 DEF Rtc!Connection
<1>5. S \in SUBSET Nat /\ IsFiniteSet(S)  BY FS_RemoveElement DEF RtcInv, Tables
<1>6. k = 1
  <2>1. peerEvents[n] = IF connections[n].open THEN 1 ELSE 0
    BY <1>1 DEF RtcInv, Tables, Rtc!EventsMatchConnections, Rtc!IsOpen
  <2> QED BY <2>1 DEF Rtc!EventsAfterOpen
<1> HIDE DEF c, S, k
<1>7. c \in SetUps /\ c # None  BY <1>3, Fields DEF SetUps
<1>8. connections' \in [Rtc!Nodes -> SetUps] /\ Placed(n, c)
  BY <1>1, <1>7, PlacedAlone DEF RtcInv
<1>9. peerEvents' \in [Rtc!Nodes -> Nat] /\ Rtc!EventsMatchConnections'
  <2>1. k \in Nat /\ k = IF c # None /\ c.open THEN 1 ELSE 0  BY <1>3, <1>6, <1>7
  <2> QED BY <1>1, <1>7, <1>8, <2>1, HeardOf DEF RtcInv
<1>10. pending' \in [Rtc!Nodes -> SUBSET Nat] /\ \A m \in Rtc!Nodes : IsFiniteSet(pending'[m])
  BY <1>1, <1>5, PendingStays DEF RtcInv
<1>11. Tables'  BY <1>1, <1>8, <1>9, <1>10 DEF RtcInv, Tables
<1>12. SameOffer(n, c)  BY <1>1, <1>2, <1>4 DEF SameOffer
<1> QED BY <1>1, <1>7, <1>8, <1>11, <1>12, SilentWires, GoesOn

LEMMA LinkIsSound == RtcInv /\ Rtc!LinkUp => RtcInv'
<1> SUFFICES ASSUME RtcInv, Rtc!LinkUp PROVE RtcInv'  OBVIOUS
<1>1. /\ Rtc!Has(Offerer) /\ links' = links \union {connections[Offerer].id}
      /\ UNCHANGED <<connections, pending, signals, peerEvents, stopped, lastId, routers, calls, lost>>
  BY TwoNodes DEF Rtc!LinkUp
<1>2. connections[Offerer].id \in Nat  BY <1>1, TwoNodes, PresentConnection, Fields
<1>3. links' \subseteq Nat /\ calls' \in Nat  BY <1>1, <1>2 DEF RtcInv, Talk, Wires
<1>4. Offerer \in Rtc!Nodes  BY TwoNodes
<1> QED BY <1>1, <1>3, <1>4, SilentWires, PassedBy

(* The signals that are no offers, and those that do not arrive.           *)

LEMMA UnmovedIsMild ==
    ASSUME RtcInv, NEW n \in Rtc!Nodes, UNCHANGED <<connections, stopped>>,
           routers \subseteq routers', routers' \subseteq Routers
    PROVE  /\ connections[n] \in SetUps /\ Placed(n, connections[n])
           /\ Milder(n, connections[n]) /\ Around(n)
<1> DEFINE c == connections[n]
<1>1. c \in SetUps /\ Placed(n, c) /\ Around(n)  BY DEF RtcInv, Tables, Placed, Around
<1>2. Milder(n, c)
  <2> SUFFICES ASSUME c # None
               PROVE  /\ c.router \in routers' /\ n \notin stopped'
                      /\ SameOffer(n, c) /\ Rtc!Has(n) /\ c.id = connections[n].id
    BY DEF Milder
  <2>1. Rtc!Has(n)  BY DEF Rtc!Has
  <2> QED BY <2>1, PresentConnection DEF SameOffer
<1> QED BY <1>1, <1>2

LEMMA LosingIsSound ==
    ASSUME RtcInv, NEW n \in Rtc!Nodes, NEW r \in Routers, Rtc!LoseSignal(n, r)
    PROVE  RtcInv'
<1> DEFINE q == signals[n][r]
           rest == [signals EXCEPT ![n][r] = Tail(@)]
           o == Rtc!Other(n)
           error == [type |-> "error"]
<1>1. /\ q # <<>> /\ lost' = lost + 1
      /\ UNCHANGED <<connections, pending, links, peerEvents, stopped, lastId, routers, calls>>
      /\ signals' = rest \/ signals' = [rest EXCEPT ![o][r] = Append(@, error)]
  BY DEF Rtc!LoseSignal
<1>2. o \in Rtc!Nodes /\ o # n  BY TwoNodes
<1>3. Calmer
  <2>1. CASE signals' = rest  BY <1>1, <2>1, TakenIsCalmer DEF RtcInv
  <2>2. CASE signals' = [rest EXCEPT ![o][r] = Append(@, error)]
    <3>1. q \in Seq(Rtc!Signal) /\ r \in routers  BY <1>1 DEF RtcInv, Talk, Wires, OnRouters
    <3> DEFINE t == Tail(q)
    <3>2. Lesser(q, t) /\ (NoRequests(q) => NoRequests(t))
      <4> HIDE DEF q
      <4> QED BY <1>1, <3>1, TakenFirst DEF Lesser
    <3>3. /\ rest \in [Rtc!Nodes -> [Routers -> Seq(Rtc!Signal)]] /\ rest[n][r] = t
          /\ \A m \in Rtc!Nodes, s \in Routers : m # n \/ s # r => rest[m][s] = signals[m][s]
      <4>1. rest = [signals EXCEPT ![n][r] = t]  OBVIOUS
      <4>2. t \in Seq(Rtc!Signal)  BY <3>2 DEF Lesser
      <4> HIDE DEF t, rest
      <4> QED BY <4>1, <4>2, OneWire DEF RtcInv, Talk, Wires
    <3> DEFINE p == rest[o][r]
               u == Append(p, error)
    <3>4. p = signals[o][r] /\ p \in Seq(Rtc!Signal)  BY <1>2, <3>3
    <3>5. error \in Rtc!Signal /\ error.type # "offer" /\ error.type # "connect"  BY SignalKinds
    <3>6. Lesser(p, u) /\ (NoRequests(p) => NoRequests(u))
      <4> HIDE DEF p, error
      <4> QED BY <3>4, <3>5, SentLast DEF Lesser
    <3>7. /\ signals' \in [Rtc!Nodes -> [Routers -> Seq(Rtc!Signal)]] /\ signals'[o][r] = u
          /\ \A m \in Rtc!Nodes, s \in Routers : m # o \/ s # r => signals'[m][s] = rest[m][s]
      <4>1. signals' = [rest EXCEPT ![o][r] = u]  BY <2>2
      <4>2. u \in Seq(Rtc!Signal)  BY <3>6 DEF Lesser
      <4> HIDE DEF u, rest
      <4> QED BY <1>2, <3>3, <4>1, <4>2, OneWire
    <3> HIDE DEF q, t, rest, p, u
    <3>8. Lessened
      <4> SUFFICES ASSUME NEW m \in Rtc!Nodes, NEW s \in Routers
                   PROVE  /\ Lesser(signals[m][s], signals'[m][s])
                          /\ m = Answerer /\ NoRequests(signals[m][s]) => NoRequests(signals'[m][s])
                          /\ signals'[m][s] # <<>> => s \in routers'
        BY <3>7 DEF Lessened
      <4>1. CASE m = n /\ s = r
        <5>1. signals'[m][s] = t /\ signals[m][s] = q  BY <1>2, <3>3, <3>7, <4>1 DEF q
        <5> QED BY <1>1, <3>1, <3>2, <4>1, <5>1
      <4>2. CASE m = o /\ s = r
        <5>1. signals'[m][s] = u /\ signals[m][s] = p  BY <3>4, <3>7, <4>2
        <5> QED BY <1>1, <3>1, <3>6, <4>2, <5>1
      <4>3. CASE ~(m = n /\ s = r) /\ ~(m = o /\ s = r)
        <5>1. signals'[m][s] = signals[m][s]  BY <3>3, <3>7, <4>3
        <5> QED BY <1>1, <5>1 DEF RtcInv, Talk, Wires, OnRouters, Lesser
      <4> QED BY <4>1, <4>2, <4>3
    <3> QED BY <3>8, LessenedIsCalmer DEF RtcInv
  <2> QED BY <1>1, <2>1, <2>2
<1>4. /\ connections[n] \in SetUps /\ Placed(n, connections[n])
      /\ Milder(n, connections[n]) /\ Around(n)
  BY <1>1, UnmovedIsMild DEF RtcInv, Tables
<1>5. Wires' /\ ~(lost' = 0)  BY <1>1, <1>3 DEF RtcInv, Talk, Wires, Calmer
<1>6. Talk'
  <2> DEFINE c == connections[n]
  <2>1. c \in SetUps /\ Placed(n, c) /\ Milder(n, c)  BY <1>4
  <2> HIDE DEF c
  <2> QED BY <1>1, <1>3, <1>4, <1>5, <2>1, TalkStays DEF RtcInv
<1>7. Tables'
  BY <1>1 DEF RtcInv, Tables, Rtc!EventsMatchConnections, Rtc!IsOpen, Rtc!Has
<1> QED BY <1>5, <1>6, <1>7 DEF RtcInv, OfferIsKnown

LEMMA AnswerIsSound ==
    ASSUME RtcInv, NEW n \in Rtc!Nodes, NEW r \in Routers, Rtc!OnRtcAnswer(n, r)
    PROVE  RtcInv'
<1> DEFINE c == [connections[n] EXCEPT !.remote = TRUE]
<1>1. /\ signals[n][r] # <<>> /\ Head(signals[n][r]).type # "offer"
      /\ signals' = [signals EXCEPT ![n][r] = Tail(@)]
      /\ UNCHANGED <<links, stopped, calls, lost, lastId, pending, routers, peerEvents>>
      /\ connections' = connections \/ (Rtc!Has(n) /\ Rtc!Becomes(n, c))
  BY DEF Rtc!OnRtcAnswer, Rtc!Receives, Rtc!Ignored
<1>2. Calmer /\ OffersStay  BY <1>1, TakenIsCalmer DEF RtcInv
<1>3. CASE connections' = connections
  <2>1. links' \subseteq Nat /\ calls' \in Nat  BY <1>1 DEF RtcInv, Talk, Wires
  <2> QED BY <1>1, <1>2, <1>3, <2>1, PassedBy
<1>4. CASE Rtc!Has(n) /\ Rtc!Becomes(n, c)
  <2>1. connections[n] \in Rtc!Connection  BY <1>4, PresentConnection
  <2>2. c \in Rtc!Connection /\ c.open = connections[n].open
    BY <2>1 DEF Rtc!Connection
  <2>3. SameOffer(n, c)  BY <1>4, <2>1 DEF Rtc!Connection, SameOffer
  <2> HIDE DEF c
  <2>4. Tables' /\ Placed(n, c)  BY <1>1, <1>4, <2>2, OtherwiseIsSound DEF RtcInv
  <2>5. c \in SetUps  BY <2>2 DEF SetUps
  <2> QED BY <1>1, <1>2, <1>4, <2>3, <2>4, <2>5, GoesOn
<1> QED BY <1>1, <1>3, <1>4

LEMMA ErrorIsSound ==
    ASSUME RtcInv, NEW n \in Rtc!Nodes, NEW r \in Routers, Rtc!OnError(n, r)
    PROVE  RtcInv'
<1>1. /\ signals[n][r] # <<>> /\ Head(signals[n][r]).type # "offer"
      /\ signals' = [signals EXCEPT ![n][r] = Tail(@)]
      /\ UNCHANGED <<links, stopped, calls, lost, lastId, routers>>
      /\ \/ Rtc!Has(n) /\ Rtc!Closed(n)
         \/ UNCHANGED <<connections, pending, peerEvents>>
  BY DEF Rtc!OnError, Rtc!Receives, Rtc!Ignored
<1>2. Calmer /\ OffersStay  BY <1>1, TakenIsCalmer DEF RtcInv
<1>3. links' \subseteq Nat /\ calls' \in Nat  BY <1>1 DEF RtcInv, Talk, Wires
<1> QED BY <1>1, <1>2, <1>3, PassedBy, GoneIsSound

(* The answerer asks for an offer, or answers one.                         *)

LEMMA AskingIsSound ==
    ASSUME RtcInv, NEW r \in Routers, NEW trackerInstructed \in BOOLEAN,
           Rtc!Connect(Answerer, r, trackerInstructed)
    PROVE  RtcInv'
<1> DEFINE c == Rtc!NewConnection(Rtc!NoId, r, Rtc!NewAttempt(Answerer))
           connect == [type |-> "connect"]
<1>1. /\ Answerer \in Rtc!Nodes /\ Rtc!NewId(Answerer) = Rtc!NoId /\ Answerer # Offerer
      /\ Rtc!Other(Answerer) = Offerer /\ Offerer \in Rtc!Nodes
  BY TwoNodes DEF Rtc!NewId
<1>2. /\ Answerer \notin stopped /\ ~Rtc!Has(Answerer) /\ Rtc!Created(Answerer, c)
      /\ lastId' = lastId /\ calls' = calls + 1 /\ UNCHANGED <<links, stopped, lost>>
      /\ signals' = signals \/ Rtc!Send(Offerer, r, connect)
  BY <1>1, TwoNodes DEF Rtc!Connect
<1>3. c \in Rtc!Connection /\ c.attempt \in Nat /\ ~c.open /\ c.id = Rtc!NoId /\ c.router = r
  <2>1. Rtc!NewAttempt(Answerer) \in Nat  BY <1>1, AttemptIsNew DEF RtcInv
  <2>2. Rtc!NoId \in Nat  BY DEF Rtc!NoId
  <2> QED BY <2>1, <2>2, NewConnectionIsSound
<1> HIDE DEF c
<1>4. Tables' /\ Placed(Answerer, c) /\ routers' = routers \union {r}
  BY <1>1, <1>2, <1>3, MadeIsSound DEF RtcInv
<1>5. Calmer /\ OffersStay
  <2>1. routers \subseteq routers' /\ r \in routers'  BY <1>4
  <2>2. CASE signals' = signals  BY <2>1, <2>2, UnchangedIsCalmer DEF RtcInv
  <2>3. CASE Rtc!Send(Offerer, r, connect)
    <3>1. connect \in Rtc!Signal /\ connect.type # "offer"  BY SignalKinds
    <3> HIDE DEF connect
    <3> QED BY <1>1, <2>1, <2>3, <3>1, SentIsCalmer DEF RtcInv
  <2> QED BY <1>2, <2>2, <2>3
<1>6. c \in SetUps /\ Milder(Answerer, c) /\ Around(Answerer)
  BY <1>1, <1>2, <1>3, <1>4 DEF SetUps, Milder, Around, RtcInv, Tables
<1>7. links' \subseteq Nat /\ calls' \in Nat  BY <1>2 DEF RtcInv, Talk, Wires
<1> QED BY <1>1, <1>2, <1>4, <1>5, <1>6, <1>7, MildStep

\* The local description is there.
LEMMA DescribedIsSound ==
    ASSUME RtcInv, NEW n \in Rtc!Nodes, Rtc!Describe(n)
    PROVE  /\ Tables' /\ Placed(n, [connections[n] EXCEPT !.described = TRUE])
           /\ [connections[n] EXCEPT !.described = TRUE] \in Rtc!Connection
           /\ Rtc!Has(n)
<1> DEFINE c == [connections[n] EXCEPT !.described = TRUE]
<1>1. Rtc!Has(n) /\ Rtc!Becomes(n, c) /\ UNCHANGED <<pending, routers, peerEvents>>
  BY DEF Rtc!Describe
<1>2. connections[n] \in Rtc!Connection  BY <1>1, PresentConnection
<1>3. c \in Rtc!Connection /\ c.open = connections[n].open  BY <1>2 DEF Rtc!Connection
<1> HIDE DEF c
<1>4. Tables' /\ Placed(n, c)  BY <1>1, <1>3, OtherwiseIsSound DEF RtcInv
<1> QED BY <1>1, <1>3, <1>4 DEF c

LEMMA AnsweringIsSound ==
    ASSUME RtcInv, Rtc!Describe(Answerer)
    PROVE  RtcInv'
<1> DEFINE old == connections[Answerer]
           c == [old EXCEPT !.described = TRUE]
           answer == [type |-> "answer", id |-> old.id]
<1>1. Answerer \in Rtc!Nodes /\ Offerer \in Rtc!Nodes /\ Offerer # Answerer /\ Rtc!Other(Answerer) = Offerer
  BY TwoNodes
<1>2. /\ UNCHANGED <<pending, links, peerEvents, stopped, lastId, routers, calls, lost>>
      /\ Rtc!Send(Offerer, old.router, answer)
  BY <1>1, TwoNodes DEF Rtc!Describe
<1>3. Rtc!Has(Answerer) /\ Tables' /\ Placed(Answerer, c) /\ c \in Rtc!Connection
  BY <1>1, DescribedIsSound
<1>4. old \in Rtc!Connection /\ old.router \in routers /\ old.router \in Routers /\ Answerer \notin stopped
  BY <1>1, <1>3, PresentConnection
<1>5. answer \in Rtc!Signal /\ answer.type # "offer"  BY <1>4, Fields, SignalKinds
<1>6. Calmer /\ OffersStay
  <2> DEFINE r == old.router
  <2>1. r \in Routers /\ r \in routers'  BY <1>2, <1>4
  <2>2. Rtc!Send(Offerer, r, answer)  BY <1>2
  <2> HIDE DEF r, answer
  <2> QED BY <1>1, <1>2, <1>5, <2>1, <2>2, SentIsCalmer DEF RtcInv
<1>7. c.id = old.id /\ c.router = old.router  BY <1>4 DEF Rtc!Connection
<1>8. Milder(Answerer, c) /\ Around(Answerer) /\ c \in SetUps
  <2> HIDE DEF c
  <2> QED BY <1>1, <1>2, <1>3, <1>4, <1>7 DEF Milder, Around, SetUps, RtcInv, Tables
<1>9. links' \subseteq Nat /\ calls' \in Nat  BY <1>2 DEF RtcInv, Talk, Wires
<1> HIDE DEF c
<1> QED BY <1>1, <1>2, <1>3, <1>6, <1>8, <1>9, MildStep

(* The offers.                                                             *)

LEMMA LaterIdsAreFree ==
    ASSUME NEW q \in Seq(Rtc!Signal), NEW k \in Nat, UpTo(q, k)
    PROVE  UpTo(q, k + 1) /\ Below(q, k + 1)
<1>1. \A i \in 1 .. Len(q) : q[i].type = "offer" => q[i].id \in Nat /\ q[i].id <= k
  BY ElementOfSeq, SignalKinds DEF UpTo
<1> QED BY <1>1 DEF UpTo, Below

\* The offerer makes a connection, whose offer is to come.
LEMMA FreshOffer ==
    ASSUME RtcInv, Tables', NEW c \in Rtc!Connection, Placed(Offerer, c), c.id = lastId + 1,
           ~c.described, c.router \in routers', routers \subseteq routers', lastId' = lastId + 1, Calmer,
           Offerer \notin stopped, UNCHANGED <<stopped, links, lost>>, calls' \in Nat
    PROVE  RtcInv'
<1>1. Offerer \in Rtc!Nodes /\ c # None  BY TwoNodes, Fields
<1>2. Wires'  BY DEF RtcInv, Talk, Wires, Calmer
<1>3. StoppedIsEmpty'  BY DEF RtcInv, Talk, StoppedIsEmpty, Placed, Rtc!Has
<1>4. OnRouters'  BY DEF RtcInv, Talk, OnRouters, Placed, Rtc!Has, Calmer
<1>5. Addressed'  BY DEF Addressed, Calmer
<1>6. OfferIds'
  <2>1. Rtc!Has(Offerer)' => connections'[Offerer].id = lastId'  BY <1>1 DEF Placed
  <2>2. ASSUME NEW r \in Routers
        PROVE  /\ Ascends(signals'[Answerer][r])
               /\ UpTo(signals'[Answerer][r], lastId') /\ Below(signals'[Answerer][r], lastId')
    <3>1. UpTo(signals[Answerer][r], lastId)  BY DEF RtcInv, Talk, OfferIds
    <3>2. Ascends(signals'[Answerer][r]) /\ UpTo(signals'[Answerer][r], lastId)
      BY <3>1 DEF Calmer
    <3>3. signals'[Answerer][r] \in Seq(Rtc!Signal) /\ lastId \in Nat
      BY TwoNodes DEF Calmer, RtcInv, Talk, Wires
    <3> QED BY <3>2, <3>3, LaterIdsAreFree
  <2> QED BY <2>1, <2>2 DEF OfferIds
<1>7. OfferIsKnown'
  <2>1. connections'[Offerer] = c  BY DEF Placed
  <2> QED BY <2>1 DEF OfferIsKnown
<1> QED BY <1>2, <1>3, <1>4, <1>5, <1>6, <1>7 DEF RtcInv, Talk

LEMMA MakingIsSound ==
    ASSUME RtcInv, NEW r \in Routers,
           \/ \E trackerInstructed \in BOOLEAN : Rtc!Connect(Offerer, r, trackerInstructed)
           \/ \E n \in Rtc!Nodes : Rtc!OnConnect(n, r) /\ n \notin stopped
    PROVE  RtcInv'
<1> DEFINE Fresh(mine) == Rtc!NewConnection(lastId + 1, r, mine)
           Makes(c) == (~Rtc!Has(Offerer) /\ Rtc!Created(Offerer, c)) \/ Rtc!Replaced(Offerer, c)
<1>1. Offerer \in Rtc!Nodes /\ Rtc!NewAttempt(Offerer) \in Nat  BY TwoNodes, AttemptIsNew DEF RtcInv
<1>2. calls \in Nat /\ lastId \in Nat  BY DEF RtcInv, Talk, Wires
<1>3. /\ \E mine \in Nat : Makes(Fresh(mine))
      /\ Offerer \notin stopped /\ lastId' = lastId + 1 /\ calls' \in Nat
      /\ UNCHANGED <<stopped, links, lost>>
      /\ \/ signals' = signals
         \/ /\ signals[Offerer][r] # <<>>
            /\ signals' = [signals EXCEPT ![Offerer][r] = Tail(@)]
  <2>1. CASE \E trackerInstructed \in BOOLEAN : Rtc!Connect(Offerer, r, trackerInstructed)
    <3>1. PICK trackerInstructed \in BOOLEAN : Rtc!Connect(Offerer, r, trackerInstructed)  BY <2>1
    <3>2. Rtc!IsOffering(Offerer)  BY TwoNodes
    <3>3. Makes(Fresh(Rtc!NewAttempt(Offerer)))
      BY <3>1, <3>2 DEF Rtc!Connect, Rtc!NewId
    <3> QED BY <1>1, <1>2, <3>1, <3>2, <3>3 DEF Rtc!Connect
  <2>2. CASE \E n \in Rtc!Nodes : Rtc!OnConnect(n, r) /\ n \notin stopped
    <3>1. PICK n \in Rtc!Nodes : Rtc!OnConnect(n, r) /\ n \notin stopped  BY <2>2
    <3>2. signals[n][r] # <<>> /\ Head(signals[n][r]).type = "connect"
      BY <3>1 DEF Rtc!OnConnect, Rtc!Receives
    <3>3. n = Offerer
      <4> DEFINE q == signals[Answerer][r]
      <4>1. q \in Seq(Rtc!Signal) /\ NoRequests(q)
        BY TwoNodes DEF RtcInv, Talk, Wires, Addressed
      <4> HIDE DEF q
      <4>2. q # <<>> => Head(q).type # "connect"  BY <4>1, TakenFirst DEF NoRequests
      <4> QED BY <3>2, <4>2, TwoNodes DEF q
    <3>4. \E mine \in Nat : Makes(Fresh(mine))
      <4>1. CASE ~Rtc!Has(Offerer)
        <5>1. Makes(Fresh(Rtc!NewAttempt(Offerer)))  BY <3>1, <3>3, <4>1 DEF Rtc!OnConnect
        <5> QED BY <1>1, <5>1
      <4>2. CASE Rtc!Has(Offerer)
        <5>1. Makes(Fresh(Rtc!TakenOver(Offerer)))  BY <3>1, <3>3, <4>2 DEF Rtc!OnConnect
        <5>2. Rtc!TakenOver(Offerer) \in Nat
          BY <1>1, <4>2, PresentConnection, Fields DEF Rtc!TakenOver
        <5> QED BY <5>1, <5>2
      <4> QED BY <4>1, <4>2
    <3> QED BY <1>2, <3>1, <3>2, <3>3, <3>4 DEF Rtc!OnConnect, Rtc!Receives
  <2> QED BY <2>1, <2>2
<1>4. PICK mine \in Nat : Makes(Fresh(mine))  BY <1>3
<1> DEFINE c == Fresh(mine)
<1>5. c \in Rtc!Connection /\ c.id = lastId + 1 /\ c.router = r /\ c.attempt = mine /\ ~c.described /\ ~c.open
  <2>1. lastId + 1 \in Nat  BY <1>2
  <2> QED BY <2>1, NewConnectionIsSound
<1>6. Makes(c)  BY <1>4
<1> HIDE DEF c
<1>7. Tables' /\ Placed(Offerer, c) /\ routers' = routers \union {r}
  BY <1>1, <1>5, <1>6, MadeIsSound DEF RtcInv
<1>8. Calmer
  BY <1>1, <1>3, <1>7, UnchangedIsCalmer, TakenIsCalmer DEF RtcInv
<1> QED BY <1>3, <1>5, <1>7, <1>8, FreshOffer

LEMMA RequestIsSound ==
    ASSUME RtcInv, NEW n \in Rtc!Nodes, NEW r \in Routers, Rtc!OnConnect(n, r)
    PROVE  RtcInv'
<1>1. CASE n \notin stopped  BY <1>1, MakingIsSound
<1>2. CASE n \in stopped
  <2>1. /\ signals[n][r] # <<>> /\ Head(signals[n][r]).type # "offer"
        /\ signals' = [signals EXCEPT ![n][r] = Tail(@)]
        /\ UNCHANGED <<links, stopped, calls, lost, lastId, connections, pending, routers, peerEvents>>
    BY <1>2 DEF Rtc!OnConnect, Rtc!Receives, Rtc!Ignored
  <2>2. Calmer /\ OffersStay  BY <2>1, TakenIsCalmer DEF RtcInv
  <2>3. links' \subseteq Nat /\ calls' \in Nat  BY <2>1 DEF RtcInv, Talk, Wires
  <2> QED BY <2>1, <2>2, <2>3, PassedBy
<1> QED BY <1>1, <1>2

\* The offer of the present connection is sent.
LEMMA OfferingIsSound ==
    ASSUME RtcInv, Rtc!Describe(Offerer)
    PROVE  RtcInv'
<1> DEFINE old == connections[Offerer]
           c == [old EXCEPT !.described = TRUE]
           r == old.router
           q == signals[Answerer][r]
           t == Append(q, OfferOf(lastId))
<1>1. Answerer \in Rtc!Nodes /\ Offerer \in Rtc!Nodes /\ Offerer # Answerer /\ Rtc!Other(Offerer) = Answerer
  BY TwoNodes
<1>2. Rtc!Has(Offerer) /\ Tables' /\ Placed(Offerer, c) /\ c \in Rtc!Connection
  BY <1>1, DescribedIsSound
<1>3. old \in Rtc!Connection /\ r \in routers /\ r \in Routers /\ Offerer \notin stopped
  BY <1>1, <1>2, PresentConnection
<1>4. old.id = lastId /\ lastId \in Nat  BY <1>2 DEF RtcInv, Talk, OfferIds, Wires
<1>5. /\ UNCHANGED <<pending, links, peerEvents, stopped, lastId, routers, calls, lost>>
      /\ signals' = [signals EXCEPT ![Answerer][r] = t] /\ ~old.described
  BY <1>1, <1>4, TwoNodes DEF Rtc!Describe, Rtc!Send, OfferOf
<1>6. c.id = lastId /\ c.router = r /\ c.described  BY <1>3, <1>4 DEF Rtc!Connection
<1>7. q \in Seq(Rtc!Signal) /\ Ascends(q) /\ Below(q, lastId) /\ NoRequests(q)
  BY <1>1, <1>2, <1>3, <1>5 DEF RtcInv, Talk, Wires, OfferIds, Addressed
<1>8. /\ t \in Seq(Rtc!Signal) /\ NoRequests(t) /\ Ascends(t) /\ UpTo(t, lastId) /\ Offers(t, lastId)
  <2>1. OfferOf(lastId) \in Rtc!Signal /\ OfferOf(lastId).type = "offer"  BY <1>4, SignalKinds
  <2> HIDE DEF q
  <2> QED BY <1>4, <1>7, <2>1, SentLast
<1> HIDE DEF c, t
<1>9. /\ signals' \in [Rtc!Nodes -> [Routers -> Seq(Rtc!Signal)]] /\ signals'[Answerer][r] = t
      /\ \A m \in Rtc!Nodes, s \in Routers : m # Answerer \/ s # r => signals'[m][s] = signals[m][s]
  BY <1>1, <1>3, <1>5, <1>8, OneWire DEF RtcInv, Talk, Wires
<1>10. c # None /\ connections'[Offerer] = c  BY <1>2, Fields DEF Placed
<1>11. Wires' /\ StoppedIsEmpty'
  BY <1>2, <1>3, <1>5, <1>9 DEF RtcInv, Talk, Wires, StoppedIsEmpty, Placed, Rtc!Has
<1>12. OnRouters'
  <2>1. \A m \in Rtc!Nodes : Rtc!Has(m)' => connections'[m].router \in routers'
    BY <1>2, <1>3, <1>5, <1>6 DEF RtcInv, Talk, OnRouters, Placed, Rtc!Has
  <2>2. \A m \in Rtc!Nodes, s \in Routers : signals'[m][s] # <<>> => s \in routers'
    BY <1>3, <1>5, <1>9 DEF RtcInv, Talk, OnRouters
  <2> QED BY <2>1, <2>2 DEF OnRouters
<1>13. Addressed'  BY <1>1, <1>8, <1>9 DEF RtcInv, Talk, Addressed
<1>14. OfferIds'
  <2>1. \A s \in Routers : Ascends(signals'[Answerer][s]) /\ UpTo(signals'[Answerer][s], lastId)
    BY <1>1, <1>8, <1>9 DEF RtcInv, Talk, OfferIds
  <2> QED BY <1>5, <1>6, <1>10, <2>1 DEF OfferIds
<1>15. OfferIsKnown'  BY <1>5, <1>6, <1>8, <1>9, <1>10 DEF OfferIsKnown
<1> QED BY <1>2, <1>11, <1>12, <1>13, <1>14, <1>15 DEF RtcInv, Talk

\* The answerer gets an offer, and stays or gets a connection with its id.
LEMMA OfferLands ==
    ASSUME RtcInv, Tables', NEW r \in Routers, NEW c \in SetUps, Placed(Answerer, c),
           signals[Answerer][r] # <<>>, Head(signals[Answerer][r]).type = "offer",
           signals' = [signals EXCEPT ![Answerer][r] = Tail(@)],
           c # None => /\ c.id = Head(signals[Answerer][r]).id /\ c.router \in routers
                       /\ Answerer \notin stopped,
           UNCHANGED <<links, stopped, calls, lost, lastId, routers>>
    PROVE  RtcInv'
<1> DEFINE q == signals[Answerer][r]
           t == Tail(q)
           id == Head(q).id
<1>1. Answerer \in Rtc!Nodes /\ Offerer \in Rtc!Nodes /\ Offerer # Answerer  BY TwoNodes
<1>2. Calmer /\ r \in routers /\ Head(q) \in Rtc!Signal  BY <1>1, TakenIsCalmer DEF RtcInv
<1>3. q \in Seq(Rtc!Signal) /\ q # <<>> /\ Ascends(q) /\ UpTo(q, lastId) /\ lastId \in Nat
  BY <1>1 DEF RtcInv, Talk, Wires, OfferIds
<1>4. /\ Head(q) = q[1] /\ 1 \in 1 .. Len(q) /\ t \in Seq(Rtc!Signal)
      /\ \A k : Offers(q, k) => Head(q) = OfferOf(k) \/ Offers(t, k)
      /\ Head(q) = OfferOf(lastId) => NoOffers(t)
  <2> HIDE DEF q
  <2> QED BY <1>3, TakenFirst
<1>5. id \in Nat /\ Head(q) = OfferOf(id)  BY <1>2, SignalKinds
<1>6. /\ signals' \in [Rtc!Nodes -> [Routers -> Seq(Rtc!Signal)]] /\ signals'[Answerer][r] = t
      /\ \A m \in Rtc!Nodes, s \in Routers : m # Answerer \/ s # r => signals'[m][s] = signals[m][s]
  <2>1. signals' = [signals EXCEPT ![Answerer][r] = t]  OBVIOUS
  <2> HIDE DEF t
  <2> QED BY <1>1, <1>4, <2>1, OneWire DEF RtcInv, Talk, Wires
<1> HIDE DEF t, q, id
<1>7. connections'[Offerer] = connections[Offerer] /\ connections'[Answerer] = c
  BY <1>1 DEF Placed
<1>8. Wires' /\ StoppedIsEmpty'
  BY <1>1, <1>6, <1>7, TwoNodes DEF RtcInv, Talk, Wires, StoppedIsEmpty, Rtc!Has
<1>9. OnRouters'
  <2>1. \A m \in Rtc!Nodes : Rtc!Has(m)' => connections'[m].router \in routers'
    BY <1>7, TwoNodes DEF RtcInv, Talk, OnRouters, Rtc!Has
  <2>2. \A m \in Rtc!Nodes, s \in Routers : signals'[m][s] # <<>> => s \in routers'
    BY <1>2 DEF Calmer
  <2> QED BY <2>1, <2>2 DEF OnRouters
<1>10. Addressed'  BY <1>2 DEF Addressed, Calmer
<1>11. OfferIds'  BY <1>2, <1>7 DEF RtcInv, Talk, OfferIds, Calmer, Rtc!Has
<1>12. OfferIsKnown'
  <2> SUFFICES ASSUME lost = 0, OneRouter, Rtc!Has(Offerer), connections[Offerer].described
               PROVE  Offers(signals'[Answerer][connections[Offerer].router], lastId) \/ Arrived'
    BY <1>7 DEF OfferIsKnown, OneRouter, Rtc!Has
  <2>1. connections[Offerer].router \in routers /\ connections[Offerer].router \in Routers
    BY <1>1, PresentConnection
  <2>2. connections[Offerer].router = r  BY <1>2, <2>1 DEF OneRouter
  <2>3. Offers(q, lastId)
    <3>1. ~NoOffers(q)  BY <1>4 DEF NoOffers, q
    <3>2. ~Arrived  BY <3>1 DEF Arrived, q
    <3> QED BY <2>2, <3>2 DEF RtcInv, OfferIsKnown, q
  <2>4. CASE Offers(t, lastId)  BY <1>6, <2>2, <2>4
  <2>5. CASE Head(q) = OfferOf(lastId)
    <3>1. id = lastId  BY <1>3, <2>5, SignalKinds DEF id
    <3>2. NoOffers(t)  BY <1>4, <2>5
    <3>3. ASSUME NEW s \in Routers PROVE NoOffers(signals'[Answerer][s])
      <4>1. CASE s = r  BY <1>6, <3>2, <4>1
      <4>2. CASE s # r
        <5>1. signals[Answerer][s] = <<>>
          BY <1>1, <1>2, <4>2 DEF RtcInv, Talk, OnRouters, OneRouter
        <5>2. signals'[Answerer][s] = <<>>  BY <1>1, <1>6, <4>2, <5>1
        <5> QED BY <5>2 DEF NoOffers
      <4> QED BY <4>1, <4>2
    <3>4. Rtc!Has(Answerer)' => connections'[Answerer].id \in {Rtc!NoId, lastId'}
      BY <1>7, <3>1 DEF Rtc!Has, id, q
    <3> QED BY <3>3, <3>4 DEF Arrived
  <2> QED BY <1>4, <2>3, <2>4, <2>5
<1> QED BY <1>8, <1>9, <1>10, <1>11, <1>12 DEF RtcInv, Talk

LEMMA OfferIsSound ==
    ASSUME RtcInv, NEW n \in Rtc!Nodes, NEW r \in Routers, Rtc!OnRtcOffer(n, r)
    PROVE  RtcInv'
<1> DEFINE id == Head(signals[Answerer][r]).id
           Made(mine) == Rtc!WithOffer(Rtc!NewConnection(Rtc!NoId, r, mine), id)
           Given == Rtc!WithOffer(connections[n], id)
<1>1. /\ signals[n][r] # <<>> /\ Head(signals[n][r]).type = "offer"
      /\ signals' = [signals EXCEPT ![n][r] = Tail(@)]
      /\ UNCHANGED <<links, stopped, calls, lost, lastId>>
  BY DEF Rtc!OnRtcOffer, Rtc!Receives
<1>2. n = Answerer
  <2> DEFINE q == signals[Offerer][r]
  <2>1. q \in Seq(Rtc!Signal) /\ NoOffers(q)
    BY TwoNodes DEF RtcInv, Talk, Wires, Addressed
  <2> HIDE DEF q
  <2>2. q # <<>> => Head(q).type # "offer"  BY <2>1, TakenFirst DEF NoOffers
  <2> QED BY <1>1, <2>2, TwoNodes DEF q
<1>3. r \in routers /\ Head(signals[n][r]) \in Rtc!Signal
  <2> DEFINE q == signals[n][r]
  <2>1. q \in Seq(Rtc!Signal) /\ q # <<>> /\ r \in routers
    BY <1>1 DEF RtcInv, Talk, Wires, OnRouters
  <2> HIDE DEF q
  <2>2. Head(q) \in Rtc!Signal  BY <2>1, TakenFirst
  <2> QED BY <2>1, <2>2 DEF q
<1>4. id \in Nat  BY <1>1, <1>2, <1>3, SignalKinds
<1> HIDE DEF id
<1>5. ASSUME NEW mine \in Nat
      PROVE  /\ Made(mine) \in Rtc!Connection /\ Made(mine).id = id /\ Made(mine).router = r
             /\ Made(mine).attempt = mine /\ ~Made(mine).open
  <2> DEFINE b == Rtc!NewConnection(Rtc!NoId, r, mine)
  <2>1. Rtc!NoId \in Nat  BY DEF Rtc!NoId
  <2>2. b \in Rtc!Connection /\ b.router = r /\ b.attempt = mine /\ ~b.open
    BY <2>1, NewConnectionIsSound
  <2> HIDE DEF b
  <2>3. LET o == Rtc!WithOffer(b, id)
        IN  o \in Rtc!Connection /\ o.id = id /\ o.router = r /\ o.attempt = mine /\ o.open = b.open
    BY <1>4, <2>2, WithOfferIsSound
  <2> QED BY <2>2, <2>3 DEF b
<1>6. ASSUME NEW mine \in Nat,
             (~Rtc!Has(n) /\ Rtc!Created(n, Made(mine))) \/ Rtc!Replaced(n, Made(mine)), n \notin stopped
      PROVE  RtcInv'
  <2> DEFINE c == Made(mine)
  <2>1. c \in Rtc!Connection /\ c.id = id /\ c.router = r /\ c.attempt \in Nat /\ ~c.open  BY <1>5
  <2>2. (~Rtc!Has(n) /\ Rtc!Created(n, c)) \/ Rtc!Replaced(n, c)  BY <1>6
  <2> HIDE DEF c
  <2>3. Tables' /\ Placed(n, c) /\ routers' = routers \union {r}
    BY <2>1, <2>2, MadeIsSound DEF RtcInv
  <2>4. routers' = routers  BY <1>3, <2>3
  <2>5. c \in SetUps  BY <2>1 DEF SetUps
  <2> QED BY <1>1, <1>2, <1>3, <1>6, <2>1, <2>3, <2>4, <2>5, OfferLands DEF id
<1>7. CASE n \notin stopped /\ ~Rtc!Has(n) /\ Rtc!Created(n, Made(Rtc!NewAttempt(n)))
  <2>1. Rtc!NewAttempt(n) \in Nat  BY AttemptIsNew DEF RtcInv
  <2> QED BY <1>6, <1>7, <2>1
<1>8. CASE n \notin stopped /\ Rtc!Has(n) /\ Rtc!Replaced(n, Made(Rtc!TakenOver(n)))
  <2>1. Rtc!NewAttempt(n) \in Nat  BY AttemptIsNew DEF RtcInv
  <2>2. Rtc!TakenOver(n) \in Nat
    BY <1>8, <2>1, PresentConnection, Fields DEF Rtc!TakenOver
  <2> QED BY <1>6, <1>8, <2>2
<1>9. CASE /\ n \notin stopped /\ Rtc!Has(n) /\ Rtc!Becomes(n, Given)
           /\ UNCHANGED <<pending, routers, peerEvents>>
  <2> DEFINE old == connections[n]
  <2>1. old \in Rtc!Connection /\ old.router \in routers  BY <1>9, PresentConnection
  <2>2. Given \in Rtc!Connection /\ Given.id = id /\ Given.router = old.router /\ Given.open = old.open
    <3> HIDE DEF old
    <3>1. LET o == Rtc!WithOffer(old, id)
          IN  o \in Rtc!Connection /\ o.id = id /\ o.router = old.router /\ o.open = old.open
      BY <1>4, <2>1, WithOfferIsSound
    <3> QED BY <3>1 DEF old
  <2> HIDE DEF Given
  <2>3. Tables' /\ Placed(n, Given)  BY <1>9, <2>2, OtherwiseIsSound DEF RtcInv
  <2>4. Given \in SetUps  BY <2>2 DEF SetUps
  <2> QED BY <1>1, <1>2, <1>9, <2>1, <2>2, <2>3, <2>4, OfferLands DEF id
<1>10. CASE n \in stopped /\ Rtc!Ignored
  <2>1. UNCHANGED <<connections, pending, routers, peerEvents>>  BY <1>10 DEF Rtc!Ignored
  <2>2. Tables'  BY <2>1 DEF RtcInv, Tables, Rtc!EventsMatchConnections, Rtc!IsOpen, Rtc!Has
  <2>3. None \in SetUps /\ Placed(n, None)
    BY <1>10, <2>1 DEF SetUps, Placed, RtcInv, Talk, StoppedIsEmpty, Rtc!Has
  <2> QED BY <1>1, <1>2, <2>1, <2>2, <2>3, OfferLands
<1> QED BY <1>2, <1>7, <1>8, <1>9, <1>10 DEF Rtc!OnRtcOffer, id

(* Every step.                                                             *)

LEMMA RtcStep == RtcInv /\ Rtc!Next => RtcInv'
<1> SUFFICES ASSUME RtcInv, Rtc!Next PROVE RtcInv'  OBVIOUS
<1>1. ASSUME NEW n \in Rtc!Nodes, NEW r \in Routers, NEW trackerInstructed \in BOOLEAN,
             Rtc!Connect(n, r, trackerInstructed)
      PROVE  RtcInv'
  <2>1. n = Offerer \/ n = Answerer  BY TwoNodes
  <2> QED BY <1>1, <2>1, MakingIsSound, AskingIsSound
<1>2. ASSUME NEW n \in Rtc!Nodes, NEW r \in Routers,
             \/ Rtc!OnRtcOffer(n, r) \/ Rtc!OnRtcAnswer(n, r) \/ Rtc!OnConnect(n, r)
             \/ Rtc!OnError(n, r) \/ Rtc!LoseSignal(n, r)
      PROVE  RtcInv'
  BY <1>2, OfferIsSound, AnswerIsSound, RequestIsSound, ErrorIsSound, LosingIsSound
<1>3. ASSUME NEW n \in Rtc!Nodes, Rtc!Describe(n) PROVE RtcInv'
  <2>1. n = Offerer \/ n = Answerer  BY TwoNodes
  <2> QED BY <1>3, <2>1, OfferingIsSound, AnsweringIsSound
<1>4. ASSUME NEW n \in Rtc!Nodes,
             \/ Rtc!StateConnected(n) \/ Rtc!EmitOpen(n) \/ Rtc!Breaks(n) \/ Rtc!ConnectionTimeout(n)
             \/ Rtc!Ping(n) \/ Rtc!Pong(n) \/ Rtc!Close(n) \/ Rtc!Stop(n)
      PROVE  RtcInv'
  BY <1>4, ReportsAreSound, OpenPeerIsSound, EndingPeerIsSound, StoppedPeerIsSound
<1>5. CASE Rtc!LinkUp  BY <1>5, LinkIsSound
<1> QED BY <1>1, <1>2, <1>3, <1>4, <1>5 DEF Rtc!Next

LEMMA RtcStutter == RtcInv /\ UNCHANGED rtcVars => RtcInv'
<1> SUFFICES ASSUME RtcInv, UNCHANGED rtcVars PROVE RtcInv'  OBVIOUS
<1>1. UNCHANGED <<connections, pending, signals, links, peerEvents, stopped, lastId, routers, calls, lost>>
  BY DEF rtcVars
<1>2. Offerer \in Rtc!Nodes /\ links' \subseteq Nat /\ calls' \in Nat
  BY <1>1, TwoNodes DEF RtcInv, Talk, Wires
<1> QED BY <1>1, <1>2, SilentWires, PassedBy

LEMMA RtcStart == ASSUME NEW gone \in SUBSET Rtc!Nodes, Rtc!Starts(gone) PROVE RtcInv
<1>1. /\ connections = [n \in Rtc!Nodes |-> None]
      /\ pending = [n \in Rtc!Nodes |-> {}]
      /\ signals = [n \in Rtc!Nodes |-> [r \in Routers |-> <<>>]]
      /\ links = {} /\ routers = {} /\ stopped = gone /\ lastId = 0 /\ calls = 0 /\ lost = 0
      /\ peerEvents = [n \in Rtc!Nodes |-> 0]
  BY DEF Rtc!Starts
<1>2. Tables
  BY <1>1, FS_EmptySet DEF Tables, SetUps, Rtc!EventsMatchConnections, Rtc!IsOpen, Rtc!Has
<1> DEFINE none == <<>>
<1>3. none \in Seq(Rtc!Signal) /\ Len(none) = 0  OBVIOUS
<1> HIDE DEF none
<1>4. signals = [n \in Rtc!Nodes |-> [r \in Routers |-> none]]  BY <1>1 DEF none
<1>5. Wires  BY <1>1, <1>3, <1>4 DEF Wires
<1>6. NoOffers(none) /\ NoRequests(none) /\ Ascends(none) /\ UpTo(none, lastId)
  BY <1>3 DEF NoOffers, NoRequests, Ascends, UpTo
<1>7. ~Rtc!Has(Offerer) /\ ~Rtc!Has(Answerer) /\ Offerer \in Rtc!Nodes /\ Answerer \in Rtc!Nodes
  BY <1>1, TwoNodes DEF Rtc!Has
<1>8. Talk
  BY <1>1, <1>4, <1>5, <1>6, <1>7, TwoNodes
  DEF Talk, StoppedIsEmpty, OnRouters, Addressed, OfferIds, none
<1> QED BY <1>2, <1>7, <1>8 DEF RtcInv, OfferIsKnown

LEMMA RtcInvHolds == MCSpec => []RtcInv
<1>1. MCInit => RtcInv
  BY RtcStart DEF MCInit
<1>2. RtcInv /\ [MCNext]_<<rtcVars, wsVars>> => RtcInv'
  BY RtcStep, RtcStutter DEF MCNext
<1> QED BY <1>1, <1>2, PTL DEF MCSpec

\* The tables, the signals and the counters of two nodes keep their types: at most one connection
\* each, and pending attempts without end are numbered.
THEOREM PeersTypeCorrect == MCSpec => []Rtc!TypeOK
<1>1. RtcInv => Rtc!TypeOK
  BY DEF RtcInv, Tables, Talk, Wires, Rtc!TypeOK, SetUps
<1> QED BY <1>1, RtcInvHolds, PTL

\* Whatever signals are lost, crossed or in error, a node hears once of each connection that opens
\* and that it is gone before it hears of another; and with one tracker and no signal lost, an
\* answerer is not left with a connection that was replaced without an offer on the way.
THEOREM PeersAgree == MCSpec => []EndsAgree
<1>1. ASSUME RtcInv PROVE EndsAgree
  <2>1. Rtc!EventsMatchConnections  BY <1>1 DEF RtcInv, Tables
  <2>2. Rtc!AgreeOnceQuiet
    <3> DEFINE theirs == connections[Offerer]
               mine == connections[Answerer]
    <3> SUFFICES ASSUME lost = 0, Rtc!Cardinality(routers) = 1, Rtc!Has(Offerer), Rtc!Has(Answerer),
                        mine.id # Rtc!NoId, theirs.described
                 PROVE  \/ mine.id = theirs.id
                        \/ \E i \in DOMAIN signals[Answerer][theirs.router] :
                              signals[Answerer][theirs.router][i] = [type |-> "offer", id |-> theirs.id]
      BY DEF Rtc!AgreeOnceQuiet
    <3>1. OneRouter
      <4>1. Cardinality(routers) = 1  BY DEF Rtc!Cardinality, Cardinality
      <4>2. \E x : routers = {x}  BY <1>1, <4>1, FS_Singleton DEF RtcInv, Tables
      <4> QED BY <4>2 DEF OneRouter
    <3>2. theirs.id = lastId  BY <1>1 DEF RtcInv, Talk, OfferIds
    <3>3. theirs.router \in Routers  BY <1>1, TwoNodes, PresentConnection
    <3>4. DOMAIN signals[Answerer][theirs.router] = 1 .. Len(signals[Answerer][theirs.router])
      BY <1>1, <3>3, TwoNodes, LenProperties DEF RtcInv, Talk, Wires
    <3>5. Offers(signals[Answerer][theirs.router], lastId) \/ Arrived
      BY <1>1, <3>1 DEF RtcInv, OfferIsKnown
    <3> QED BY <3>2, <3>4, <3>5 DEF Arrived, Offers, OfferOf
  <2> QED BY <2>1, <2>2 DEF EndsAgree, Rtc!EndsAgree
<1> QED BY <1>1, RtcInvHolds, PTL
=============================================================================
