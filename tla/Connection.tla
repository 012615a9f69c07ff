-------------------------------- MODULE Connection -------------------------------
(***************************************************************************)
(* The client's connection to its server (src/packages/client/src/         *)
(* Connection.ts on utils/Scaffold.ts). A scaffold climbs the steps of the *)
(* connection while its check holds and comes down them again otherwise,   *)
(* and looks at the check after every step; only some steps wait: for a    *)
(* timer, or for the socket. Calls made while it is on its way are         *)
(* answered when it has come to rest. One action of this module runs from  *)
(* one such wait to the next; it is composed with the users of the         *)
(* connection in SubscriptionSession.tla.                                  *)
(* enableAutoConnect(true) and enableAutoDisconnect(true) are not modelled *)
(* (a client that has connected by hand stays so), nor are event handlers  *)
(* that call connect or disconnect themselves.                             *)
(***************************************************************************)
EXTENDS Naturals, FiniteSets

CONSTANTS MaxRetries,
          MaxFaults    \* bound: sockets that fail, requests that are refused

ASSUME ConnectionAssumption == MaxRetries \in Nat \ {0} /\ MaxFaults \in Nat

VARIABLES
    wantsState,         \* STATE.AUTO, CONNECTED or DISCONNECTED
    connectionHandles,  \* ids that hold the connection open
    at,                 \* where the scaffold is: down and up, or what it waits for
    socket,             \* readyState of the WebSocket, once it has opened
    retryCount,
    didCloseUnexpectedly,
    forced,             \* the socket is FORCE_CLOSED by closeOpen
    emitted,            \* events whose listeners have yet to run
    reopened,           \* history: a socket took the place of one that was left, with no event
    faults

connectionVars == <<wantsState, connectionHandles, at, socket, retryCount,
                    didCloseUnexpectedly, forced, emitted, reopened, faults>>

ConnectionInit ==
    /\ wantsState = "auto" /\ connectionHandles = {} /\ at = "down" /\ socket = "none"
    /\ retryCount = 0 /\ didCloseUnexpectedly = FALSE /\ forced = FALSE /\ emitted = {}
    /\ reopened = FALSE /\ faults = 0

\* autoConnect and autoDisconnect hold until connect or disconnect is called.
Automatic == wantsState = "auto"
IsConnectionValid == wantsState = "connected" \/ (Automatic /\ connectionHandles # {})
HasRetries == retryCount < MaxRetries
Resting == at \in {"up", "down"}
IsConnected == at \in {"up", "delay"} /\ socket = "open"
IsDisconnecting == at \in {"up", "delay"} /\ socket = "closing"

(***************************************************************************)
(* The ways of the scaffold, each given what its wait leaves behind. Each  *)
(* sets at, socket, retryCount, didCloseUnexpectedly, forced and emitted;  *)
(* wantsState and connectionHandles are set before.                        *)
(***************************************************************************)
Stays == UNCHANGED <<at, socket, retryCount, didCloseUnexpectedly, forced, emitted>>

\* To the step that opens the socket.
Opens(events) ==
    /\ at' = "opening" /\ socket' = "none" /\ forced' = FALSE
    /\ emitted' = events
    /\ UNCHANGED <<retryCount, didCloseUnexpectedly>>

\* Mutant: whoever came to want it meanwhile is not seen.
BottomsForGood(events, retries) ==
    /\ retryCount' = retries + 1 /\ at' = "down" /\ emitted' = events \union {"done"}
    /\ socket' = "none" /\ forced' = FALSE /\ didCloseUnexpectedly' = FALSE
\* At the bottom: the attempt is counted. Another one waits its turn
\* (backoffWait), else the scaffold is done.
Bottoms(events, retries) ==
    /\ retryCount' = retries + 1
    /\ socket' = "none" /\ forced' = FALSE /\ didCloseUnexpectedly' = FALSE
    /\ IF IsConnectionValid' /\ HasRetries'
       THEN at' = "backoff" /\ emitted' = events
       ELSE at' = "down" /\ emitted' = events \union {"done"}

\* Down from the top. A socket that is closed takes no time to leave.
GoesDown(retries, state, broken) ==
    IF state = "closed" THEN Bottoms({"disconnecting", "disconnected"}, retries)
    ELSE /\ at' = "delay" /\ emitted' = {"disconnecting"}
         /\ retryCount' = retries /\ socket' = state /\ didCloseUnexpectedly' = broken
         /\ UNCHANGED forced

(***************************************************************************)
(* stepConnection(), called when something has changed. A scaffold on its  *)
(* way will see it by itself. At the top a socket that is being closed by  *)
(* the other side is found out here.                                       *)
(***************************************************************************)
StepsWhen(broken, retries) ==
    LET shouldUp == IsConnectionValid' /\ retries < MaxRetries /\ ~broken
    IN  IF at = "up" /\ ~shouldUp THEN GoesDown(retries, socket, broken)
        ELSE /\ at' = IF at = "down" /\ shouldUp
                      THEN IF retries > 0 THEN "backoff" ELSE "opening"
                      ELSE at
             /\ retryCount' = retries
             /\ UNCHANGED <<socket, didCloseUnexpectedly, forced, emitted>>
Steps(retries) == StepsWhen(IsDisconnecting /\ IsConnectionValid', retries)

(***************************************************************************)
(* Calls.                                                                  *)
(***************************************************************************)
\* connect(): from now on by hand, with all retries.
Connect ==
    /\ wantsState' = "connected"
    /\ UNCHANGED <<connectionHandles, reopened, faults>>
    /\ Steps(0)

\* disconnect()
Disconnect ==
    /\ wantsState' = "disconnected"
    /\ UNCHANGED <<connectionHandles, reopened, faults>>
    /\ Steps(retryCount)

\* addHandle(id) and the needsConnection that follows it everywhere.
AddHandle(ids) ==
    /\ connectionHandles' = connectionHandles \union ids
    /\ UNCHANGED <<wantsState, reopened, faults>>
    /\ Steps(retryCount)

\* removeHandle: the connection is left when nobody holds it and nothing is
\* buffered in its socket.
RemoveHandle(ids) ==
    /\ connectionHandles' = connectionHandles \ ids
    /\ UNCHANGED <<wantsState, reopened, faults>>
    /\ \E buffered \in IF IsConnected \/ IsDisconnecting THEN BOOLEAN ELSE {FALSE} :
          IF connectionHandles \intersect ids # {} /\ connectionHandles' = {} /\ Automatic /\ ~buffered
          THEN Steps(retryCount) ELSE Stays

(***************************************************************************)
(* What the scaffold waits for.                                            *)
(***************************************************************************)
Wants == UNCHANGED <<wantsState, connectionHandles>>

\* The backoff is over.
BackedOff ==
    /\ at = "backoff"
    /\ Wants /\ UNCHANGED <<reopened, faults>>
    /\ IF IsConnectionValid /\ HasRetries THEN Opens({}) ELSE Bottoms({"disconnecting"}, retryCount)

\* The socket is open: unless it is no longer wanted the scaffold is up.
Opened ==
    /\ at = "opening"
    /\ Wants /\ UNCHANGED <<didCloseUnexpectedly, forced, reopened, faults>>
    /\ IF IsConnectionValid /\ HasRetries /\ ~didCloseUnexpectedly
       THEN at' = "up" /\ retryCount' = 0 /\ emitted' = {"connected"}
            /\ socket' = "open"
       ELSE at' = "closing" /\ emitted' = {"disconnecting"} /\ UNCHANGED retryCount
            /\ socket' = "closing"

OpenFails ==
    /\ at = "opening" /\ faults < MaxFaults
    /\ faults' = faults + 1
    /\ Wants /\ UNCHANGED reopened /\ Bottoms({"disconnecting", "disconnected"}, retryCount)

\* disconnectDelay is over: who came back in time finds the connection as it was.
DelayOver ==
    /\ at = "delay"
    /\ Wants /\ UNCHANGED <<reopened, faults>>
    /\ LET broken == didCloseUnexpectedly \/ (IsDisconnecting /\ IsConnectionValid)
       IN  IF IsConnectionValid /\ HasRetries /\ ~broken
           THEN /\ at' = "up" /\ retryCount' = 0 /\ emitted' = {"connected"}
                /\ UNCHANGED <<socket, didCloseUnexpectedly, forced>>
           ELSE IF socket = "closed" THEN Bottoms({"disconnected"}, retryCount)
           ELSE /\ at' = "closing" /\ socket' = "closing" /\ didCloseUnexpectedly' = broken
                /\ UNCHANGED <<retryCount, forced, emitted>>

\* closed by the scaffold itself: whoever wants it again gets a new socket.
Closed ==
    /\ at = "closing"
    /\ UNCHANGED <<connectionHandles, faults>>
    /\ wantsState' = IF forced THEN "disconnected" ELSE wantsState
    /\ IF IsConnectionValid' /\ HasRetries /\ ~didCloseUnexpectedly
       THEN Opens({}) /\ reopened' = TRUE
       ELSE Bottoms({"disconnected"}, retryCount) /\ UNCHANGED reopened

\* The other side closes the socket: it is closing for a moment.
SocketCloses ==
    /\ at \in {"up", "delay"} /\ socket = "open" /\ faults < MaxFaults
    /\ socket' = "closing" /\ faults' = faults + 1
    /\ UNCHANGED <<wantsState, connectionHandles, at, retryCount, didCloseUnexpectedly, forced, emitted, reopened>>

\* closeOpen(): closes every socket there is, for good.
CloseOpen ==
    /\ socket \in {"open", "closing"} /\ faults < MaxFaults
    /\ socket' = "closing" /\ forced' = TRUE /\ faults' = faults + 1
    /\ UNCHANGED <<wantsState, connectionHandles, at, retryCount, didCloseUnexpectedly, emitted, reopened>>

\* onClose and disableReconnect
OnClose ==
    /\ at \in {"up", "delay"} /\ socket = "closing"
    /\ wantsState' = IF forced THEN "disconnected" ELSE wantsState
    /\ UNCHANGED <<connectionHandles, reopened, faults>>
    /\ IF at = "up" THEN GoesDown(retryCount, "closed", TRUE)
       ELSE /\ socket' = "closed" /\ didCloseUnexpectedly' = TRUE
            /\ UNCHANGED <<at, retryCount, forced, emitted>>
==================================================================================
