-------------------------------- MODULE PushQueue --------------------------------
(***************************************************************************)
(* The queue between those who push and the one who reads                  *)
(* (src/packages/client/src/utils/PushQueue.ts): an asynchronous generator *)
(* takes over what is buffered, hands it out item by item, and waits for   *)
(* the next push when there is none. A null ends the reading, an Error in  *)
(* the queue fails it, and so do throw() and cancel().                     *)
(* What an operation makes of a queue is an operator here; the modules     *)
(* that have queues say when it happens. Between the answer to a waiting   *)
(* reader (woken) and the reader's going on (Resume) anything may happen.  *)
(***************************************************************************)
EXTENDS Integers, Sequences

\* Items are positive numbers; what is none of them:
Nothing == 0
Null == -1          \* ends the queue
Failure == -2       \* any Error among the items
Done == -3          \* the answer { done: true }
Failed == -4        \* a next() that rejects
NoError == "no error"

NewQueue ==
    [buffer |-> <<>>, local |-> <<>>,   \* pushed; taken over by the generator
     at |-> "asleep",                   \* the generator: asleep, awaits, woken, rejected, ended
     woken |-> Nothing,                 \* what it was woken with
     given |-> Nothing,                 \* the answer to the reader's next()
     error |-> NoError, finished |-> FALSE, ended |-> FALSE,
     cancelled |-> FALSE, onEndCalled |-> FALSE]

Asked(q) == q.at \in {"awaits", "woken", "rejected"}

\* Mutant: a push between the answer to a reader and its going on takes the
\* place of the one that answered.
PushToReader(q, v) ==
    IF q.finished \/ q.ended THEN q
    ELSE IF Asked(q) THEN [q EXCEPT !.at = "woken", !.woken = v, !.ended = (v = Null)]
    ELSE [q EXCEPT !.buffer = Append(@, v), !.ended = (v = Null)]
Push(q, v) ==
    IF q.finished \/ q.ended THEN q
    ELSE IF q.at = "awaits" THEN [q EXCEPT !.at = "woken", !.woken = v, !.ended = (v = Null)]
    ELSE [q EXCEPT !.buffer = Append(@, v), !.ended = (v = Null)]

End(q) == IF q.ended THEN q ELSE [Push(q, Null) EXCEPT !.ended = TRUE]

Throw(q, err) ==
    IF q.finished THEN q
    ELSE IF q.at = "awaits" THEN [q EXCEPT !.finished = TRUE, !.at = "rejected"]
    ELSE [q EXCEPT !.finished = TRUE, !.error = err]

\* _cleanup(): a waiting reader is answered, and onEnd is called the first time.
Cleanup(q) ==
    [q EXCEPT !.finished = TRUE, !.error = NoError, !.buffer = <<>>, !.onEndCalled = TRUE,
              !.at = IF q.at # "awaits" THEN q.at
                     ELSE IF q.error = NoError THEN "woken" ELSE "rejected",
              !.woken = IF q.at = "awaits" THEN Done ELSE @]

Return(q) == Cleanup(q)

(***************************************************************************)
(* The generator: it gives an item and sleeps, or ends, whereupon the      *)
(* iterator around it cleans up; or it waits for a push.                   *)
(***************************************************************************)
Gives(q, v) == [q EXCEPT !.at = "asleep", !.given = v]
Ends(q, answer) == Cleanup([q EXCEPT !.at = "ended", !.local = <<>>, !.given = answer])

Items(q) == IF q.local # <<>> THEN q.local ELSE q.buffer

Feed(q) ==
    LET v == Head(Items(q))
        fed == [q EXCEPT !.local = Tail(Items(q)),
                         !.buffer = IF q.local # <<>> THEN @ ELSE <<>>]
    IN CASE v = Null -> Ends(fed, Done)
         [] v = Failure -> Ends(fed, Failed)
         [] OTHER -> Gives(fed, v)

\* next(), when the generator sleeps or has ended
Next(q) ==
    IF q.at = "ended" THEN [q EXCEPT !.given = Done]
    ELSE IF q.error # NoError THEN Ends(q, Failed)
    ELSE IF q.finished THEN Ends(q, Done)
    ELSE IF Items(q) # <<>> THEN Feed(q)
    ELSE [q EXCEPT !.at = "awaits", !.woken = Nothing]

\* The generator goes on after its wait; a value that comes when the queue is
\* finished is ignored.
Resume(q) ==
    IF q.at = "rejected" THEN Ends(q, Failed)
    ELSE IF q.finished \/ q.woken = Null THEN Ends(q, Done)
    ELSE IF q.woken = Failure THEN Ends(q, Failed)
    ELSE Gives(q, q.woken)

\* cancel(): a sleeping generator ends at once. One that waits is left until
\* the timer of no milliseconds has run out, and then cleaned up after.
Cancel(q, err) ==
    [q EXCEPT !.finished = TRUE, !.cancelled = TRUE,
              !.error = IF err = NoError THEN @ ELSE err,
              !.at = IF q.at = "asleep" THEN "ended" ELSE @]
AfterCancel(q) == Return(q)
==================================================================================
