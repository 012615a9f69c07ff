---------------------------- MODULE MessageBuffer ---------------------------
(***************************************************************************)
(* Messages a node cannot send to anybody yet, in a queue per stream:      *)
(* network/src/helpers/MessageBuffer.ts.                                   *)
(*                                                                         *)
(* Every message has a timer.  All timers are set to the same time, so     *)
(* that they fire in the order in which they were armed; a timer does not  *)
(* know its message, it takes the first one of the stream.                 *)
(***************************************************************************)
EXTENDS Integers, Sequences, Functions

CONSTANTS
    Stream,
    Timer,          \* the timers setTimeout returns; the bound of how many can be armed
    MaxSize         \* maxSize: of the queue of a stream

\* put would push to a queue that pop has deleted if one message were the limit.
ASSUME MaxSizeAssumption == MaxSize \in Nat /\ MaxSize >= 2

VARIABLES
    buffer,         \* the queue of each stream, empty if there is none
    timeoutRefs,    \* the timers of the messages in the queue
    armed,          \* the timers that will fire, each with the stream it pops from
    armedBefore     \* their order: <<t, u>> if t was armed before u

bufferVars == <<buffer, timeoutRefs, armed, armedBefore>>

BufferInit ==
    /\ buffer = [s \in Stream |-> <<>>]
    /\ timeoutRefs = [s \in Stream |-> <<>>]
    /\ armed = {} /\ armedBefore = {}

Among(order, S) == { pair \in order : pair[1] \in S /\ pair[2] \in S }

\* The timers ts fire or are cleared.
Without(ts) == { a \in armed : a.timer \notin ts }
Disarm(ts) ==
    /\ armed' = Without(ts)
    /\ armedBefore' = Among(armedBefore, { a.timer : a \in Without(ts) })

FirstOf(q) == IF q = <<>> THEN {} ELSE {Head(q)}
RestOf(q) == IF q = <<>> THEN <<>> ELSE Tail(q)

\* put makes room first.
MakesRoom(s) == Len(buffer[s]) >= MaxSize

Put(s, message) ==
    \E t \in Timer \ { a.timer : a \in armed } :
        LET q == IF MakesRoom(s) THEN RestOf(buffer[s]) ELSE buffer[s]
            refs == IF MakesRoom(s) THEN RestOf(timeoutRefs[s]) ELSE timeoutRefs[s]
            others == Without(IF MakesRoom(s) THEN FirstOf(timeoutRefs[s]) ELSE {})
            earlier == { a.timer : a \in others }
        IN  /\ buffer' = [buffer EXCEPT ![s] = Append(q, message)]
            /\ timeoutRefs' = [timeoutRefs EXCEPT ![s] = Append(refs, t)]
            /\ armed' = others \cup {[timer |-> t, stream |-> s]}
            /\ armedBefore' = Among(armedBefore, earlier) \cup (earlier \X {t})

\* The timer that was armed first fires, and pops.
TimerFires ==
    \E a \in armed :
        /\ \A b \in armed : <<b.timer, a.timer>> \notin armedBefore
        /\ buffer' = [buffer EXCEPT ![a.stream] = RestOf(@)]
        /\ timeoutRefs' = [timeoutRefs EXCEPT ![a.stream] = RestOf(@)]
        /\ Disarm({a.timer} \cup FirstOf(timeoutRefs[a.stream]))

\* popAll; what it returns is buffer[s].
PopAll(s) ==
    /\ buffer' = [buffer EXCEPT ![s] = <<>>]
    /\ timeoutRefs' = [timeoutRefs EXCEPT ![s] = <<>>]
    /\ Disarm(Range(timeoutRefs[s]))

\* clear: popAll on every stream.
Clear ==
    /\ buffer' = [s \in Stream |-> <<>>]
    /\ timeoutRefs' = [s \in Stream |-> <<>>]
    /\ Disarm(UNION { Range(timeoutRefs[s]) : s \in Stream })

-----------------------------------------------------------------------------
(* Properties.                                                             *)

\* Each message in a queue has exactly one timer that will fire, its own, and they fire in the
\* order of the queue: a timer left behind by pop or popAll, or one that fires out of turn, would
\* take another message, long before its time.
EachMessageHasItsTimer ==
    \A s \in Stream :
        /\ Len(timeoutRefs[s]) = Len(buffer[s])
        /\ { a.timer : a \in { b \in armed : b.stream = s } } = Range(timeoutRefs[s])
        /\ \A i, j \in 1 .. Len(timeoutRefs[s]) :
             i < j => /\ timeoutRefs[s][i] # timeoutRefs[s][j]
                      /\ <<timeoutRefs[s][i], timeoutRefs[s][j]>> \in armedBefore
=============================================================================
