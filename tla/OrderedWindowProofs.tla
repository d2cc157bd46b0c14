-------------------------- MODULE OrderedWindowProofs --------------------------
(* What is proved of the ordered windows, for every number of windows, items *)
(* and slots, and every limit.                                               *)
EXTENDS OrderedWindow, FiniteSetTheorems, TLAPS

\* Tasks are pending for the items between the one the body is at and the next
\* one without a task, and there are never more than the largest limit of those,
\* although the limit is asked anew for each item.
WindowInv(w) ==
  /\ index[w] <= nextIndex[w] /\ nextIndex[w] <= index[w] + MaxLimit
  /\ \A i \in Pending(w) : index[w] <= i /\ i < nextIndex[w]
  /\ consumer[w] \in {"waits", "uses"} => index[w] < nextIndex[w]
  /\ consumer[w] = "uses" => index[w] \notin Pending(w)
  /\ consumer[w] = "closed" => Pending(w) = {}

Inv == TypeOK /\ \A w \in Window : WindowInv(w)

\* The steps of a window.
Act(w) ==
  \/ \E width \in 0 .. MaxLimit : Ask(w, width)
  \/ Yield(w) \/ Use(w) \/ Interrupt(w) \/ CancelPending(w) \/ Close(w)
  \/ \E i \in Item : Acquire(w, i) \/ End(w, i)

\* A window never touches the others.
LEMMA OthersKept ==
  ASSUME TypeOK, NEW w \in Window, Act(w), NEW v \in Window \ {w}
  PROVE  /\ consumer'[v] = consumer[v] /\ index'[v] = index[v]
         /\ nextIndex'[v] = nextIndex[v] /\ task'[v] = task[v]
BY DEF Act, TypeOK, Ask, Spawn, Yield, Use, Interrupt, CancelPending, Close, Acquire, End

\* The tasks that are created are those of the items that may be under way.
LEMMA SpawnStep ==
  ASSUME Inv, NEW w \in Window, NEW width \in 1 .. MaxLimit, Spawn(w, width), UNCHANGED index,
         index[w] < Items, consumer' = [consumer EXCEPT ![w] = "waits"]
  PROVE  TypeOK' /\ WindowInv(w)'
<1> DEFINE upto == Least(Items, index[w] + width)
<1> USE WindowAssumption DEF Inv, TypeOK, Consumer, Item
<1>1. /\ index[w] \in 0 .. Items /\ nextIndex[w] \in 0 .. Items
      /\ upto \in 0 .. Items /\ index[w] < upto /\ upto <= index[w] + MaxLimit
  BY DEF Least
<1> HIDE DEF upto
<1>2. consumer'[w] = "waits" /\ consumer' \in [Window -> Consumer]
  OBVIOUS
<1>3. CASE upto <= nextIndex[w]
  <2>1. UNCHANGED <<nextIndex, task>>
    BY <1>3 DEF Spawn, upto
  <2> QED
    BY <1>1, <1>2, <1>3, <2>1 DEF WindowInv, Pending
<1>4. CASE ~(upto <= nextIndex[w])
  <2>1. /\ nextIndex' = [nextIndex EXCEPT ![w] = upto]
        /\ task' = [task EXCEPT ![w] =
             [i \in Item |-> IF nextIndex[w] <= i /\ i < upto THEN "queued" ELSE @[i]]]
    BY <1>4 DEF Spawn, upto
  <2>2. TypeOK'
    BY <1>1, <1>2, <2>1 DEF TaskState
  <2>3. \A i \in Item : task'[w][i] = IF nextIndex[w] <= i /\ i < upto THEN "queued" ELSE task[w][i]
    BY <2>1
  <2>4. \A i \in Item : task'[w][i] # "none" => index[w] <= i /\ i < upto
    <3> TAKE i \in Item
    <3>1. /\ i \in Int /\ WindowInv(w)
          /\ task'[w][i] = IF nextIndex[w] <= i /\ i < upto THEN "queued" ELSE task[w][i]
      BY <2>3
    <3>2. task[w][i] # "none" => index[w] <= i /\ i < nextIndex[w]
      BY <3>1 DEF WindowInv, Pending
    <3>3. index[w] <= nextIndex[w]
      BY <3>1 DEF WindowInv
    <3> HIDE DEF Inv
    <3> QED
      BY <1>1, <1>4, <3>1, <3>2, <3>3
  <2>5. nextIndex'[w] = upto
    BY <2>1
  <2> QED
    BY <1>1, <1>2, <2>2, <2>4, <2>5 DEF WindowInv, Pending
<1> QED
  BY <1>3, <1>4

\* The tasks of a window change their state, and none is added.
LEMMA TasksMove ==
  ASSUME Inv, NEW w \in Window, UNCHANGED <<consumer, index, nextIndex>>,
         task' \in [Window -> [Item -> TaskState]],
         \A i \in Item : task[w][i] = "none" => task'[w][i] = "none"
  PROVE  TypeOK' /\ WindowInv(w)'
BY DEF Inv, TypeOK, WindowInv, Pending

LEMMA OwnStep ==
  ASSUME Inv, NEW w \in Window, Act(w)
  PROVE  TypeOK' /\ WindowInv(w)'
<1>0. /\ TypeOK /\ WindowInv(w)
      /\ index[w] \in 0 .. Items /\ nextIndex[w] \in 0 .. Items /\ Items \in Nat /\ MaxLimit \in Nat
  BY WindowAssumption DEF Inv, TypeOK
<1>1. ASSUME NEW width \in 0 .. MaxLimit, Ask(w, width)
      PROVE  TypeOK' /\ WindowInv(w)'
  <2>1. CASE index[w] = Items \/ width = 0
    BY <1>0, <1>1, <2>1 DEF Ask, TypeOK, WindowInv, Pending, Consumer
  <2>2. CASE ~(index[w] = Items \/ width = 0)
    <3>1. /\ Spawn(w, width) /\ UNCHANGED index /\ consumer' = [consumer EXCEPT ![w] = "waits"]
      BY <1>1, <2>2 DEF Ask
    <3>2. width \in 1 .. MaxLimit /\ index[w] < Items
      BY <1>0, <2>2
    <3> QED
      BY <3>1, <3>2, SpawnStep
  <2> QED
    BY <2>1, <2>2
<1>2. CASE Yield(w)
  <2>1. index[w] \in Item /\ consumer[w] = "waits" /\ index[w] < nextIndex[w]
    BY <1>0, <1>2 DEF Yield, WindowInv, Item
  <2>2. /\ task' = [task EXCEPT ![w][index[w]] = "none"]
        /\ consumer' = [consumer EXCEPT ![w] = "uses"]
        /\ UNCHANGED <<index, nextIndex>>
    BY <1>2 DEF Yield
  <2>3. TypeOK'
    BY <1>0, <2>2 DEF TypeOK, Consumer, TaskState
  <2>4. /\ \A i \in Item : task'[w][i] # "none" => task[w][i] # "none" /\ i # index[w]
        /\ consumer'[w] = "uses"
    BY <1>0, <2>1, <2>2 DEF TypeOK
  <2> QED
    BY <1>0, <2>1, <2>2, <2>3, <2>4 DEF WindowInv, Pending
<1>3. CASE Use(w)
  <2>1. consumer[w] = "uses" /\ index[w] < nextIndex[w] /\ UNCHANGED <<nextIndex, task>>
    BY <1>0, <1>3 DEF Use, WindowInv
  <2>2. CASE /\ consumer' = [consumer EXCEPT ![w] = "asks"]
             /\ index' = [index EXCEPT ![w] = @ + 1]
    <3>1. consumer'[w] = "asks" /\ index'[w] = index[w] + 1
      BY <1>0, <2>2 DEF TypeOK
    <3>2. TypeOK'
      BY <1>0, <2>1, <2>2 DEF TypeOK, Consumer
    <3>3. \A i \in Item : task[w][i] # "none" => index[w] + 1 <= i /\ i < nextIndex[w]
      BY <1>0, <2>1 DEF WindowInv, Pending, Item
    <3> QED
      BY <1>0, <2>1, <3>1, <3>2, <3>3 DEF WindowInv, Pending
  <2>3. CASE consumer' = [consumer EXCEPT ![w] = "closing"] /\ UNCHANGED index
    BY <1>0, <2>1, <2>3 DEF TypeOK, WindowInv, Pending, Consumer
  <2> QED
    BY <1>3, <2>2, <2>3 DEF Use
<1>4. CASE Interrupt(w)
  BY <1>0, <1>4 DEF Interrupt, TypeOK, WindowInv, Pending, Consumer
<1>5. CASE CancelPending(w)
  <2>1. /\ task' \in [Window -> [Item -> TaskState]] /\ UNCHANGED <<consumer, index, nextIndex>>
    BY <1>0, <1>5 DEF CancelPending, TypeOK, TaskState
  <2>2. \A j \in Item : task[w][j] = "none" => task'[w][j] = "none"
    BY <1>0, <1>5 DEF CancelPending, TypeOK
  <2> QED
    BY <2>1, <2>2, TasksMove
<1>6. CASE Close(w)
  BY <1>0, <1>6 DEF Close, TypeOK, WindowInv, Pending, Consumer, TaskState
<1>7. ASSUME NEW i \in Item, Acquire(w, i)
      PROVE  TypeOK' /\ WindowInv(w)'
  <2>1. /\ task' \in [Window -> [Item -> TaskState]] /\ UNCHANGED <<consumer, index, nextIndex>>
    BY <1>0, <1>7 DEF Acquire, TypeOK, TaskState
  <2>2. \A j \in Item : task[w][j] = "none" => task'[w][j] = "none"
    BY <1>0, <1>7 DEF Acquire, TypeOK
  <2> QED
    BY <2>1, <2>2, TasksMove
<1>8. ASSUME NEW i \in Item, End(w, i)
      PROVE  TypeOK' /\ WindowInv(w)'
  <2>1. /\ task' \in [Window -> [Item -> TaskState]] /\ UNCHANGED <<consumer, index, nextIndex>>
    BY <1>0, <1>8 DEF End, TypeOK, TaskState
  <2>2. \A j \in Item : task[w][j] = "none" => task'[w][j] = "none"
    BY <1>0, <1>8 DEF End, TypeOK
  <2> QED
    BY <2>1, <2>2, TasksMove
<1> QED
  BY <1>1, <1>2, <1>3, <1>4, <1>5, <1>6, <1>7, <1>8 DEF Act

LEMMA InvStep == Inv /\ [Next]_vars => Inv'
<1>1. ASSUME Inv, NEW w \in Window, Act(w)
      PROVE  Inv'
  <2>1. \A v \in Window \ {w} : WindowInv(v)'
    BY <1>1, OthersKept DEF Inv, WindowInv, Pending
  <2> QED
    BY <1>1, <2>1, OwnStep DEF Inv
<1>2. Inv /\ UNCHANGED vars => Inv'
  BY DEF Inv, TypeOK, WindowInv, Pending, vars
<1>3. Next => \E w \in Window : Act(w)
  BY DEF Next, Act
<1> QED
  BY <1>1, <1>2, <1>3

\* At most limit tasks exist, whatever the limit function answers from one item
\* to the next, and a window that is closed has left nothing behind
\* (ordered_window, app/research/concurrency.py).
THEOREM WindowsCorrect == Spec => []TasksBelongToTheirWindow
<1>1. Init => Inv
  BY WindowAssumption
     DEF Init, Inv, TypeOK, WindowInv, Pending, Consumer, TaskState
<1>2. Inv => TasksBelongToTheirWindow
  <2> SUFFICES ASSUME Inv, NEW w \in Window
               PROVE  Cardinality(Pending(w)) <= MaxLimit
    BY DEF Inv, WindowInv, TasksBelongToTheirWindow
  <2> DEFINE slots == index[w] .. (index[w] + MaxLimit - 1)
  <2>1. index[w] \in Nat /\ nextIndex[w] \in Nat /\ MaxLimit \in Nat \ {0}
    BY WindowAssumption DEF Inv, TypeOK
  <2>2. Pending(w) \subseteq slots
    BY <2>1 DEF Inv, WindowInv, Pending, Item
  <2>3. IsFiniteSet(slots) /\ Cardinality(slots) = MaxLimit
    <3>0. index[w] \in Int /\ index[w] + MaxLimit - 1 \in Int
      BY <2>1
    <3>1. /\ IsFiniteSet(slots)
          /\ Cardinality(slots) = IF index[w] > index[w] + MaxLimit - 1 THEN 0
                                  ELSE (index[w] + MaxLimit - 1) - index[w] + 1
      BY <3>0, FS_Interval
    <3> QED
      BY <2>1, <3>1
  <2>4. Cardinality(Pending(w)) <= Cardinality(slots)
    BY <2>2, <2>3, FS_Subset
  <2> QED
    BY <2>3, <2>4
<1> QED
  BY <1>1, <1>2, InvStep, PTL DEF Spec
=============================================================================
