---------------------------- MODULE OrderedWindow ----------------------------
(***************************************************************************)
(* ordered_window of app/research/concurrency.py: bounded speculative I/O  *)
(* that is consumed in order.  Several windows are open at once, one for   *)
(* each person being researched; their operations take slots of a          *)
(* semaphore they share (extract in app/research/extraction.py takes       *)
(* _extraction_slots), so that windows can hold each other up.             *)
(*                                                                         *)
(* The limit of a window is a function that is called again for each item: *)
(* it may return anything from 0, which ends the window, to MaxLimit.      *)
(***************************************************************************)
EXTENDS Integers, FiniteSets

CONSTANTS
  Window,    \* windows that are open at the same time
  Items,     \* items of a window
  MaxLimit,  \* the largest limit: MAX_CONCURRENT_EXTRACTIONS, MAX_CONCURRENT_FETCHES
  Slots      \* slots of the shared semaphore

ASSUME WindowAssumption ==
  /\ Items \in Nat \ {0}
  /\ MaxLimit \in Nat \ {0}
  /\ Slots \in Nat \ {0}

VARIABLES
  consumer,  \* where the body of each window is
  index,     \* the item it is at
  nextIndex, \* the first item without a task
  task       \* the tasks in `pending`

vars == <<consumer, index, nextIndex, task>>

Item == 0 .. Items - 1

\* asks: about to take the next item; waits: for the task of an item; uses: the
\* loop body runs; closing: cancels and awaits what is pending.
Consumer == {"asks", "waits", "uses", "closing", "closed"}

\* none: no task, or not pending any more; queued: waits for a slot; running:
\* has one; unwinding: cancelled with a slot in hand; ok, error, cancelled: done.
TaskState == {"none", "queued", "running", "unwinding", "ok", "error", "cancelled"}
Done == {"ok", "error", "cancelled"}

TypeOK ==
  /\ consumer \in [Window -> Consumer]
  /\ index \in [Window -> 0 .. Items]
  /\ nextIndex \in [Window -> 0 .. Items]
  /\ task \in [Window -> [Item -> TaskState]]

Init ==
  /\ consumer = [w \in Window |-> "asks"]
  /\ index = [w \in Window |-> 0]
  /\ nextIndex = [w \in Window |-> 0]
  /\ task = [w \in Window |-> [i \in Item |-> "none"]]

Pending(w) == {i \in Item : task[w][i] # "none"}
Holding == {slot \in Window \X Item : task[slot[1]][slot[2]] \in {"running", "unwinding"}}

Least(a, b) == IF a <= b THEN a ELSE b

-----------------------------------------------------------------------------
\* The tasks of the items up to index + width are created.
Spawn(w, width) ==
  LET upto == Least(Items, index[w] + width)
  IN IF upto <= nextIndex[w] THEN UNCHANGED <<nextIndex, task>>
     ELSE /\ nextIndex' = [nextIndex EXCEPT ![w] = upto]
          /\ task' = [task EXCEPT ![w] =
               [i \in Item |-> IF nextIndex[w] <= i /\ i < upto THEN "queued" ELSE @[i]]]

\* The next item, when the limit allows one.
Ask(w, width) ==
  /\ consumer[w] = "asks"
  /\ IF index[w] = Items \/ width = 0
     THEN consumer' = [consumer EXCEPT ![w] = "closing"] /\ UNCHANGED <<nextIndex, task>>
     ELSE consumer' = [consumer EXCEPT ![w] = "waits"] /\ Spawn(w, width)
  /\ UNCHANGED index

\* The outcome of the item is yielded; an error is raised only if the consumer
\* unwraps it, and then leaves the window like any other exit.
Yield(w) ==
  /\ consumer[w] = "waits"
  /\ task[w][index[w]] \in Done
  /\ task' = [task EXCEPT ![w][index[w]] = "none"]
  /\ consumer' = [consumer EXCEPT ![w] = "uses"]
  /\ UNCHANGED <<index, nextIndex>>

\* The loop body is done with the item and goes on, or leaves the loop.
Use(w) ==
  /\ consumer[w] = "uses"
  /\ \/ /\ consumer' = [consumer EXCEPT ![w] = "asks"]
        /\ index' = [index EXCEPT ![w] = @ + 1]
     \/ /\ consumer' = [consumer EXCEPT ![w] = "closing"]
        /\ UNCHANGED index
  /\ UNCHANGED <<nextIndex, task>>

\* The research is cancelled while it waits for the window, or in its body.  A
\* second cancellation, while it closes, changes nothing: gather cancels its
\* children again and still waits for them.
Interrupt(w) ==
  /\ consumer[w] \in {"waits", "uses"}
  /\ consumer' = [consumer EXCEPT ![w] = "closing"]
  /\ UNCHANGED <<index, nextIndex, task>>

\* Mistake: what is pending is cancelled and not awaited.
CloseAtOnce(w) ==
  /\ consumer[w] = "closing"
  /\ consumer' = [consumer EXCEPT ![w] = "closed"]
  /\ task' = [task EXCEPT ![w] = [i \in Item |->
       CASE @[i] = "queued" -> "cancelled" [] @[i] = "running" -> "unwinding" [] OTHER -> @[i]]]
  /\ UNCHANGED <<index, nextIndex>>

\* What is pending is cancelled, then awaited.
CancelPending(w) ==
  /\ consumer[w] = "closing"
  /\ \E i \in Item : task[w][i] \in {"queued", "running"}
  /\ task' = [task EXCEPT ![w] = [i \in Item |->
       CASE @[i] = "queued" -> "cancelled" [] @[i] = "running" -> "unwinding" [] OTHER -> @[i]]]
  /\ UNCHANGED <<consumer, index, nextIndex>>

Close(w) ==
  /\ consumer[w] = "closing"
  /\ \A i \in Pending(w) : task[w][i] \in Done
  /\ consumer' = [consumer EXCEPT ![w] = "closed"]
  /\ task' = [task EXCEPT ![w] = [i \in Item |-> "none"]]
  /\ UNCHANGED <<index, nextIndex>>

-----------------------------------------------------------------------------
\* run(item): the operation waits for a slot, works, and gives the slot back
\* however it ends.
Acquire(w, i) ==
  /\ task[w][i] = "queued"
  /\ Cardinality(Holding) < Slots
  /\ task' = [task EXCEPT ![w][i] = "running"]
  /\ UNCHANGED <<consumer, index, nextIndex>>

\* Mistake: a result keeps its slot until it is consumed.
EndInTurn(w, i) ==
  /\ \/ task[w][i] = "running" /\ index[w] = i /\ consumer[w] = "waits"
        /\ \E end \in {"ok", "error"} : task' = [task EXCEPT ![w][i] = end]
     \/ task[w][i] = "unwinding" /\ task' = [task EXCEPT ![w][i] = "cancelled"]
  /\ UNCHANGED <<consumer, index, nextIndex>>

End(w, i) ==
  /\ \/ task[w][i] = "running" /\ \E end \in {"ok", "error"} : task' = [task EXCEPT ![w][i] = end]
     \/ task[w][i] = "unwinding" /\ task' = [task EXCEPT ![w][i] = "cancelled"]
  /\ UNCHANGED <<consumer, index, nextIndex>>

Next ==
  \E w \in Window :
    \/ \E width \in 0 .. MaxLimit : Ask(w, width)
    \/ Yield(w) \/ Use(w) \/ Interrupt(w) \/ CancelPending(w) \/ Close(w)
    \/ \E i \in Item : Acquire(w, i) \/ End(w, i)

Spec == Init /\ [][Next]_vars

-----------------------------------------------------------------------------
(* Properties.                                                             *)

\* "At most limit tasks exist", although tasks stay pending while the limit
\* changes under them; and cancellation is owned: a window that is closed has
\* nothing left running on its behalf, and no slot of the others.
TasksBelongToTheirWindow ==
  /\ TypeOK
  /\ \A w \in Window :
       /\ Cardinality(Pending(w)) <= MaxLimit
       /\ consumer[w] = "closed" => Pending(w) = {}

\* The event loop runs what can run, every operation ends (requests have
\* timeouts), and the semaphore serves its waiters in turn.
Fairness ==
  \A w \in Window :
    /\ WF_vars(\E width \in 0 .. MaxLimit : Ask(w, width))
    /\ WF_vars(Yield(w)) /\ WF_vars(Use(w))
    /\ WF_vars(CancelPending(w)) /\ WF_vars(Close(w))
    /\ \A i \in Item : SF_vars(Acquire(w, i)) /\ WF_vars(End(w, i))

FairSpec == Spec /\ Fairness

\* Windows that compete for slots never block each other for good: each is
\* consumed or left in the end.
EveryWindowCloses == \A w \in Window : <>(consumer[w] = "closed")
=============================================================================
