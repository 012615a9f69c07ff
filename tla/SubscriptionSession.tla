---------------------------- MODULE SubscriptionSession --------------------------
(***************************************************************************)
(* The subscriptions of a client to one stream share a session             *)
(* (src/packages/client/src/subscribe/SubscriptionSession.ts and           *)
(* Subscriptions.ts): a second scaffold, which climbs while there are      *)
(* subscriptions and a valid connection. It holds the connection by a      *)
(* handle, asks the server to subscribe, and starts afresh when it is told *)
(* that the connection was lost. The publisher is another holder of the    *)
(* connection, and the client stops when the connection is done.           *)
(* A number of calls of updateSubscriptions that wait for each other are    *)
(* one here (due), as are those of onDisconnected (resetting).             *)
(* An action is a task of the event loop, or a turn of the promises after  *)
(* it (an action under Turn): no task runs while a turn is due.            *)
(***************************************************************************)
EXTENDS Connection

CONSTANTS Subs,     \* subscriptions to the stream
          Key,      \* the handle of the session
          Holders   \* handles of publishers

VARIABLES
    subscriptions,  \* those that count
    phase,          \* where each subscription is between add() and remove()
    session,        \* where the session's scaffold is, or what it waits for
    needsReset,
    resetting,      \* an onDisconnected waits for the scaffold to come down
    due,            \* updateSubscriptions has been called
    request,        \* to the server, on the socket of now
    served          \* the server sends the stream over the socket of now

subVars == <<subscriptions, phase>>
scaffoldVars == <<session, needsReset, resetting, due>>
serverVars == <<request, served>>
sessionVars == <<subVars, scaffoldVars, serverVars>>
vars == <<connectionVars, sessionVars>>

Init ==
    /\ ConnectionInit
    /\ subscriptions = {} /\ phase = [s \in Subs |-> "out"]
    /\ session = "down" /\ needsReset = FALSE /\ resetting = FALSE /\ due = FALSE
    /\ request = "none" /\ served = FALSE

Check == IsConnectionValid /\ ~needsReset /\ subscriptions # {}
SessionRests == session \in {"down", "up"} /\ ~due /\ ~resetting

\* What a change of the socket means for what was sent over it.
Carried ==
    /\ served' = (served /\ socket' \in {"open", "closing"})
    /\ request' = IF socket' \in {"open", "closing"} \/ request = "none" THEN request ELSE "lost"

\* remove() of subscriptions: they stop counting, and cancel their pipelines.
Remove(subs) ==
    /\ subscriptions' = subscriptions \ subs
    /\ phase' = [s \in Subs |-> IF s \in subs /\ phase[s] = "in" THEN "cancelling" ELSE phase[s]]
Phase(s, to) == phase' = [phase EXCEPT ![s] = to]

(***************************************************************************)
(* The listeners of the connection's events: the session's onDisconnected, *)
(* requests that wait for a response, and the client, which stops.         *)
(***************************************************************************)
\* Mutant: a lost connection goes unnoticed while it is wanted.
OnDisconnectedOnlyWhenLeft == due' = (due \/ ~IsConnectionValid) /\ UNCHANGED <<needsReset, resetting>>
OnDisconnected ==
    /\ due' = TRUE
    /\ IF IsConnectionValid THEN needsReset' = TRUE /\ resetting' = TRUE
       ELSE UNCHANGED <<needsReset, resetting>>

\* A request waits for its response for as long as the connection lasts.
\* Mutant: the loss of the connection does not end the wait.
AwaitsResponse == request' = IF "done" \in emitted THEN "none" ELSE request
WaitForMatchingMessage ==
    request' = IF emitted \intersect {"disconnected", "done"} # {} THEN "none" ELSE request

Hear ==
    /\ emitted # {} /\ emitted' = {}
    /\ IF emitted # {"connected"} /\ session # "down" THEN OnDisconnected
       ELSE UNCHANGED <<due, needsReset, resetting>>
    /\ WaitForMatchingMessage
    /\ IF "done" \in emitted
       THEN Remove(Subs) /\ connectionHandles' = connectionHandles \ Holders
       ELSE UNCHANGED <<subVars, connectionHandles>>
    /\ UNCHANGED <<wantsState, at, socket, retryCount, didCloseUnexpectedly, forced, reopened, faults,
                   session, served>>

(***************************************************************************)
(* The session's scaffold. Every turn looks at the check.                  *)
(***************************************************************************)
\* Up to the handle, and on when the connection rests.
Climbs ==
    /\ session' = "connecting" /\ due' = FALSE
    /\ AddHandle({Key}) /\ Carried
    /\ UNCHANGED <<subVars, needsReset, resetting>>

\* Down past the handle: kept for a reset, else given back. The step waits
\* for the connection if that leaves it.
Falls(resets) ==
    /\ needsReset' = resets
    /\ IF resets THEN session' = "falling" /\ UNCHANGED connectionVars
       ELSE /\ RemoveHandle({Key})
            /\ session' = IF Automatic /\ connectionHandles' = {} THEN "releasing" ELSE "falling"
    /\ Carried
    /\ UNCHANGED <<subVars, resetting, due>>

\* Down from the top: the server is told unless the connection is being left.
Leaves ==
    IF ~needsReset /\ IsConnectionValid /\ IsConnected
    THEN /\ session' = "unsubscribing" /\ request' = "unsubscribe"
         /\ UNCHANGED <<connectionVars, subVars, needsReset, resetting, due, served>>
    ELSE Falls(needsReset)

\* On to the next state, when nothing else changes.
Goes(to) ==
    /\ session' = to
    /\ UNCHANGED <<connectionVars, subVars, needsReset, resetting, served>>

\* needsConnection throws when the connection rests and is not there; the
\* error is passed over, for a reset, if there is no reason to go on.
NeedsConnection(next) ==
    IF IsConnected THEN next
    ELSE IF at = "up" THEN AddHandle({}) /\ UNCHANGED sessionVars
    ELSE Falls(needsReset \/ ~Check)

StartSession ==
    /\ session = "down" /\ due /\ ~resetting
    /\ IF Check THEN Climbs ELSE Goes("down") /\ due' = FALSE /\ UNCHANGED request
HasHandle ==
    /\ session = "connecting" /\ Resting
    /\ IF Check THEN NeedsConnection(Goes("token") /\ UNCHANGED <<due, request>>)
       ELSE Falls(needsReset)
Sends ==
    /\ session = "sending" /\ Resting
    /\ NeedsConnection(Goes("subscribing") /\ request' = "subscribe" /\ UNCHANGED due)

\* The response is there, or will not come as the connection was lost.
Subscribed ==
    /\ session = "subscribing" /\ request = "none"
    /\ IF Check THEN Goes("up") /\ UNCHANGED <<due, request>> ELSE Leaves
Updates ==
    /\ session = "up" /\ due
    /\ IF Check THEN Goes("up") /\ due' = FALSE /\ UNCHANGED request ELSE Leaves
Unsubscribed ==
    /\ session = "unsubscribing" /\ request = "none"
    /\ IF Check THEN Goes("token") /\ UNCHANGED <<due, request>> ELSE Falls(needsReset)

Refused == session = "refused" /\ Falls(needsReset)

\* At the bottom: onDone, unless the session is to be reset.
Falling ==
    /\ session = "falling" \/ (session = "releasing" /\ Resting)
    /\ IF Check THEN Climbs
       ELSE /\ session' = "down"
            /\ IF ~needsReset /\ ~IsConnectionValid THEN Remove(Subs) ELSE UNCHANGED subVars
            /\ due' = (due /\ ~resetting)
            /\ UNCHANGED <<connectionVars, needsReset, resetting, serverVars>>

\* The rest of onDisconnected.
\* Mutant: the session is not started again.
ResetsOnly ==
    /\ IF IsConnectionValid THEN needsReset' = FALSE ELSE UNCHANGED needsReset
    /\ UNCHANGED due
StartsAgain ==
    IF IsConnectionValid THEN needsReset' = FALSE /\ due' = TRUE ELSE UNCHANGED <<needsReset, due>>
Resets ==
    /\ session = "down" /\ resetting /\ resetting' = FALSE
    /\ StartsAgain
    /\ UNCHANGED <<connectionVars, subVars, session, serverVars>>

(***************************************************************************)
(* The turns of add() and remove().                                        *)
(***************************************************************************)
\* addHandle and needsConnection: without a connection add() fails.
AddConnected(s) ==
    /\ phase[s] = "connecting" /\ Resting
    /\ IF IsConnected
       THEN /\ Phase(s, "updating") /\ due' = TRUE
            /\ UNCHANGED <<connectionVars, subscriptions, session, needsReset, resetting, serverVars>>
       ELSE IF at = "up" THEN AddHandle({}) /\ UNCHANGED sessionVars
       ELSE /\ Phase(s, "leaving") /\ due' = TRUE
            /\ subscriptions' = subscriptions \ {s}
            /\ RemoveHandle({s}) /\ Carried
            /\ UNCHANGED <<session, needsReset, resetting>>

\* updateSubscriptions has settled. When no subscription is left the session
\* is forgotten: the next subscription gets a new one.
SessionIsForgotten == needsReset' = (needsReset /\ subscriptions # {})
Added(s) ==
    /\ phase[s] = "updating" /\ SessionRests
    /\ Phase(s, IF s \in subscriptions THEN "in" ELSE "out")
    /\ SessionIsForgotten
    /\ RemoveHandle({s}) /\ Carried
    /\ UNCHANGED <<subscriptions, session, resetting, due>>
Removed(s) ==
    /\ phase[s] = "leaving" /\ SessionRests
    /\ Phase(s, "out")
    /\ SessionIsForgotten
    /\ UNCHANGED <<connectionVars, subscriptions, session, resetting, due, serverVars>>

SubscriptionTurn == \E s \in Subs : AddConnected(s) \/ Added(s) \/ Removed(s)
Turn ==
    \/ Hear
    \/ /\ emitted = {}
       /\ \/ StartSession \/ HasHandle \/ Sends \/ Subscribed \/ Updates \/ Unsubscribed
          \/ Refused \/ Falling \/ Resets \/ SubscriptionTurn
TurnIsDue ==
    \/ emitted # {}
    \/ session = "down" /\ (due \/ resetting)
    \/ session = "up" /\ due
    \/ session \in {"connecting", "sending", "releasing"} /\ Resting
    \/ session \in {"subscribing", "unsubscribing"} /\ request = "none"
    \/ session \in {"falling", "refused"}
    \/ \E s \in Subs : \/ phase[s] = "connecting" /\ Resting
                       \/ phase[s] \in {"updating", "leaving"} /\ SessionRests

(***************************************************************************)
(* The tasks.                                                              *)
(***************************************************************************)
\* What the connection does without the session.
Alone == Carried /\ UNCHANGED <<subVars, scaffoldVars>>

\* client.disconnect(), which stops the client even if it was not connected.
ClientDisconnects ==
    IF at = "down"
    THEN /\ wantsState' = "disconnected" /\ connectionHandles' = connectionHandles \ Holders
         /\ Remove(Subs)
         /\ Stays /\ UNCHANGED <<reopened, faults, scaffoldVars, serverVars>>
    ELSE Disconnect /\ Alone

\* subscribe()
Add(s) ==
    /\ phase[s] = "out"
    /\ Phase(s, "connecting") /\ subscriptions' = subscriptions \union {s}
    /\ AddHandle({s}) /\ Carried
    /\ UNCHANGED scaffoldVars
Unsubscribe(s) ==
    /\ phase[s] = "in"
    /\ Remove({s})
    /\ UNCHANGED <<connectionVars, scaffoldVars, serverVars>>
Cancelled(s) ==
    /\ phase[s] = "cancelling"
    /\ Phase(s, "leaving") /\ due' = TRUE
    /\ UNCHANGED <<connectionVars, subscriptions, session, needsReset, resetting, serverVars>>

\* The session token that a request to subscribe carries.
TokenArrives ==
    /\ session = "token"
    /\ session' = "sending" /\ AddHandle({}) /\ Carried
    /\ UNCHANGED <<subVars, needsReset, resetting, due>>

Responds ==
    /\ request \in {"subscribe", "unsubscribe"} /\ socket = "open"
    /\ request' = "none" /\ served' = (request = "subscribe")
    /\ UNCHANGED <<connectionVars, subVars, scaffoldVars>>

\* An ErrorResponse, to a request for what is not served yet: whoever
\* subscribes is let go, or after a reset everybody.
Refuses ==
    /\ request = "subscribe" /\ socket = "open" /\ ~served /\ faults < MaxFaults
    /\ faults' = faults + 1 /\ request' = "none" /\ session' = "refused"
    /\ \/ (\E s \in subscriptions : phase[s] = "in") /\ Remove(Subs)
       \/ /\ \E s \in subscriptions : phase[s] = "updating" /\ subscriptions' = subscriptions \ {s}
          /\ UNCHANGED phase
       \/ subscriptions = {} /\ UNCHANGED subVars
    /\ UNCHANGED <<wantsState, connectionHandles, at, socket, retryCount, didCloseUnexpectedly,
                   forced, emitted, reopened, needsReset, resetting, due, served>>

\* A publisher holds the connection while it publishes, and a while longer.
Hold(h) == h \notin connectionHandles /\ AddHandle({h}) /\ Alone
Release(h) == h \in connectionHandles /\ RemoveHandle({h}) /\ Alone

Waits == \/ BackedOff /\ Alone
         \/ Opened /\ Alone
         \/ DelayOver /\ Alone
         \/ Closed /\ Alone
         \/ OnClose /\ Alone
Breaks == \/ OpenFails /\ Alone
          \/ SocketCloses /\ Alone
          \/ CloseOpen /\ Alone
          \/ Refuses
Task ==
    /\ ~TurnIsDue
    /\ \/ Connect /\ Alone
       \/ ClientDisconnects
       \/ Waits \/ Breaks \/ TokenArrives \/ Responds
       \/ \E s \in Subs : Add(s) \/ Unsubscribe(s) \/ Cancelled(s)
       \/ \E h \in Holders : Hold(h) \/ Release(h)

Next == Turn \/ Task
Spec == Init /\ [][Next]_vars

\* Turns are taken, timers expire, sockets and the server answer.
Fairness ==
    /\ WF_vars(Turn) /\ SF_vars(~TurnIsDue /\ Waits)
    /\ SF_vars(~TurnIsDue /\ TokenArrives) /\ SF_vars(~TurnIsDue /\ Responds)
    /\ \A s \in Subs : SF_vars(~TurnIsDue /\ Cancelled(s))
FairSpec == Spec /\ Fairness

(***************************************************************************)
(* Properties.                                                             *)
(***************************************************************************)
TypeOK ==
    /\ wantsState \in {"auto", "connected", "disconnected"}
    /\ connectionHandles \subseteq Subs \union Holders \union {Key}
    /\ at \in {"down", "backoff", "opening", "up", "delay", "closing"}
    /\ socket \in {"none", "open", "closing", "closed"}
    /\ retryCount \in 0..MaxRetries /\ faults \in 0..MaxFaults
    /\ {didCloseUnexpectedly, forced, needsReset, resetting, due, served} \subseteq BOOLEAN
    /\ emitted \subseteq {"connected", "disconnecting", "disconnected", "done"}
    /\ subscriptions \subseteq Subs
    /\ phase \in [Subs -> {"out", "connecting", "updating", "in", "cancelling", "leaving"}]
    /\ session \in {"down", "connecting", "token", "sending", "subscribing", "up", "unsubscribing",
                    "refused", "falling", "releasing"}
    /\ request \in {"none", "subscribe", "unsubscribe", "lost"}

Quiet == ~TurnIsDue

\* A connection that is wanted, and has retries left, does not rest without
\* a socket: whatever was called while the scaffold was on its way was seen.
NeverLeftDown == Quiet /\ at = "down" => ~(IsConnectionValid /\ HasRetries)

\* A session that takes itself for subscribed is so on the socket of now.
SubscribedOnThisSocket == Quiet /\ session = "up" /\ socket = "open" /\ ~reopened => served

\* A session that is down does not hold the connection.
HandleIsGivenBack == Automatic /\ Quiet /\ session = "down" => Key \notin connectionHandles

\* subscribe() settles.
EverySubscribeSettles ==
    \A s \in Subs : phase[s] \in {"connecting", "updating"} ~>
                        reopened \/ phase[s] \notin {"connecting", "updating"}

\* Subscriptions survive the loss of the connection.
SubscriptionsComeBack ==
    /\ <>[](IsConnectionValid /\ HasRetries /\ subscriptions # {} /\ ~reopened)
    /\ []<>~needsReset
    => <>[](served /\ session = "up")

\* Whoever subscribes is answered, and stays subscribed.
SubscribersAreServed == EverySubscribeSettles /\ SubscriptionsComeBack
==================================================================================
