---------------------------- MODULE MCNodeStreams ---------------------------
(* What a node keeps of a stream: the detectors of duplicates, and what it *)
(* was instructed by the stream's tracker. A behaviour moves one of them.  *)
(* Detector: six message numbers, at most two stored gaps. The publisher   *)
(* is either an honest one, with any of the chains over the numbers, or    *)
(* one that may send every pair of a number and a claimed predecessor.     *)
(* Instructions: two peers; three instructions, two of them with the same  *)
(* counter (the tracker's counters start again when it restarts); up to    *)
(* three handlers in flight: a retry, a cancelled one, the throttler's.    *)
EXTENDS DuplicateMessageDetector

MCNumbers == 1 .. 6
MCInfinity == 99
MCLinkSets == { ChainLinks(C) : C \in SUBSET MCNumbers } \cup {Links}

CONSTANTS peer1, peer2, Peers, Instructions, RetryLimit, Slots, None
MCPeers == {peer1, peer2}
MCInstructions == { [counter |-> 1, nodeIds |-> {peer1}],
                    [counter |-> 2, nodeIds |-> {peer1, peer2}],
                    [counter |-> 2, nodeIds |-> {}] }
MCSlots == 1 .. 3

VARIABLES part, isSetUp, neighbors, counter, queue, seen, retry, handlers, stopped, status, latest, silent
Instr == INSTANCE NodeInstructions
instrVars == <<isSetUp, neighbors, counter, queue, seen, retry, handlers, stopped, status, latest, silent>>

ASSUME InstructionsAssumption ==
    /\ Instructions \subseteq [counter : Nat \ {0}, nodeIds : SUBSET Peers]
    /\ RetryLimit \in Nat /\ Slots \subseteq Nat
    /\ None \notin Instructions \cup Instr!Handler \cup Instr!Retry

MCInit ==
    /\ Init /\ Instr!Init
    /\ part = "detector" \/ (part = "instructions" /\ links = Links)
MCNext ==
    /\ UNCHANGED part
    /\ \/ part = "detector" /\ Next /\ UNCHANGED instrVars
       \/ part = "instructions" /\ Instr!Next /\ UNCHANGED vars
MCSpec == MCInit /\ [][MCNext]_<<part, vars, instrVars>> /\ Instr!Fairness

\* Neither the throttler's lock nor the retry timer is leaked or lost. (NodeInstructions)
LockAndRetryAreKept == Instr!LockAndRetryAreKept
\* An instruction accepted is reported back. (NodeInstructions)
AcceptedIsReported == Instr!AcceptedIsReported
=============================================================================
