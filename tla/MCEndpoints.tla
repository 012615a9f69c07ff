------------------------------- MODULE MCEndpoints ------------------------------
(* The two kinds of connection a node has, to other nodes and to a tracker. *)
(* They share no state, so that one of them suffices in each behaviour.     *)
EXTENDS Naturals

CONSTANTS Offerer, Answerer, Routers, MaxPingPongAttempts, MaxCalls, MaxLost,
          Sockets, MaxBreaks, None

VARIABLES connections, pending, signals, links, peerEvents, stopped, lastId, routers, calls, lost,
          ready, mail, setUp, table, byUrl, attempt, timers, timerRef, uuids, awaiting,
          browser, down, broken, breaks, crossed, robbed

Rtc == INSTANCE WebRtcEndpoint
Ws == INSTANCE WsEndpoint WITH pending <- attempt, stopped <- down, faults <- breaks, MaxFaults <- MaxBreaks

ASSUME EndpointsAssumption ==
    /\ Offerer # Answerer
    /\ {MaxPingPongAttempts, MaxCalls, MaxLost, MaxBreaks} \subseteq Nat
    /\ MaxPingPongAttempts > 0
    /\ None \notin Nat \cup Sockets \cup Rtc!Connection

rtcVars == <<connections, pending, signals, links, peerEvents, stopped, lastId, routers, calls, lost>>
wsVars == <<ready, mail, setUp, table, byUrl, attempt, timers, timerRef, uuids, awaiting,
            browser, down, broken, breaks, crossed, robbed>>
MCInit ==
    \/ Rtc!Starts({}) /\ Ws!Starts(Ws!Ends) /\ ~browser
    \/ Rtc!Starts(Rtc!Nodes) /\ Ws!Starts({})
MCNext ==
    \/ Rtc!Next /\ UNCHANGED wsVars
    \/ Ws!Next /\ UNCHANGED rtcVars
MCSpec == MCInit /\ [][MCNext]_<<rtcVars, wsVars>> /\ Rtc!Fairness /\ Ws!Fairness

\* The events of a peer match its connection, and an answerer is not left with
\* one that was replaced. (WebRtcEndpoint)
EndsAgree == Rtc!EndsAgree
\* Every attempt to connect to a peer or to a tracker is settled, half-open
\* connections are closed, and a silent socket is given up by both ends.
\* (WebRtcEndpoint, WsEndpoint)
NobodyHangs == Rtc!NoPeerHangs /\ Ws!NoSocketHangs
\* A node and its tracker find each other again. (WsEndpoint)
NodeComesBack == Ws!NodeComesBack
=================================================================================
