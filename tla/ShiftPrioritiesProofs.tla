---------------------- MODULE ShiftPrioritiesProofs ------------------------
(***************************************************************************)
(* Proofs about ShiftPriorities for every number of addresses and every    *)
(* priority.  LoopInv says what the loop has achieved so far, also when    *)
(* several addresses share a priority: of each priority in the stretch     *)
(* target .. toMove - 1 it has pushed back one address, and none of those  *)
(* it has visited sits on toMove.                                          *)
(***************************************************************************)
EXTENDS ShiftPriorities, TLAPS

Visited == Mail \ (todo \cup {placed})

Pushed == {m \in Visited : prio[m] # before[m]}

\* An address keeps its priority until the loop has visited it.
UntouchedInv ==
    /\ placed \notin todo
    /\ \A m \in todo : prio[m] = before[m]

\* The order of the visits.
SortedInv == \A m \in Visited, n \in todo : before[m] <= before[n]

\* The addresses that were pushed back come from different priorities of the
\* stretch and move by one.
PushedInv ==
    /\ \A m \in Pushed : prio[m] = before[m] + 1 /\ target <= before[m] /\ before[m] < toMove
    /\ \A m, n \in Pushed : before[m] = before[n] => m = n

\* Every priority of the stretch was occupied, and it ends at a free one.
FilledInv ==
    /\ target <= toMove
    /\ \A p \in Nat : target <= p /\ p < toMove => \E m \in Pushed : before[m] = p
    /\ \A m \in Visited : before[m] # toMove

LoopInv == UntouchedInv /\ SortedInv /\ PushedInv /\ FilledInv

Inv ==
    /\ TypeOK
    /\ LoopInv
    /\ pc = "done" => todo = {} /\ prio[placed] = target

\* The types are established and preserved.
LEMMA TypeInductive == (Init => TypeOK) /\ (TypeOK /\ [Next]_vars => TypeOK')
  <1>1. Init => TypeOK
    BY PriorityAssumption DEF Init, TypeOK
  <1>2. ASSUME TypeOK, [Next]_vars PROVE TypeOK'
    <2>1. CASE Place
      BY <1>2, <2>1 DEF Place, TypeOK
    <2>2. ASSUME NEW m \in Mail, PushBack(m) PROVE TypeOK'
      BY <1>2, <2>2 DEF PushBack, TypeOK
    <2>3. ASSUME NEW m \in Mail, LeaveAlone(m) PROVE TypeOK'
      BY <1>2, <2>3 DEF LeaveAlone, TypeOK
    <2>4. CASE UNCHANGED vars
      BY <1>2, <2>4 DEF vars, TypeOK
    <2> QED
      BY <1>2, <2>1, <2>2, <2>3, <2>4 DEF Next
  <1> QED
    BY <1>1, <1>2

\* Pushing an address back extends the stretch by the priority it had.
LEMMA PushBackStep ==
    ASSUME TypeOK, LoopInv, NEW m \in Mail, PushBack(m)
    PROVE  LoopInv'
  <1> USE DEF TypeOK, PushBack, IsNext
  <1>1. /\ m \in todo /\ m \notin Visited /\ m # placed
        /\ Visited' = Visited \cup {m}
        /\ todo' = todo \ {m}
        /\ toMove' = toMove + 1 /\ before[m] = toMove
        /\ prio'[m] = before[m] + 1
        /\ \A n \in Mail : n # m => prio'[n] = prio[n]
    BY DEF LoopInv, UntouchedInv, Visited
  <1>2. UntouchedInv'
    BY <1>1 DEF LoopInv, UntouchedInv
  <1>3. SortedInv'
    BY <1>1 DEF LoopInv, SortedInv
  <1>4. Pushed' = Pushed \cup {m} /\ m \notin Pushed
    <2>1. \A n \in Visited : n \in Mail /\ prio'[n] = prio[n]
      BY <1>1 DEF Visited
    <2> QED
      BY <1>1, <2>1 DEF Pushed
  <1>5. PushedInv'
    <2>1. \A n \in Pushed : n \in Mail /\ n # m
      BY <1>1 DEF Pushed, Visited
    <2> QED
      BY <1>1, <1>4, <2>1 DEF LoopInv, PushedInv, FilledInv
  <1>6. FilledInv'
    <2>1. target <= toMove + 1
      BY DEF LoopInv, FilledInv
    <2>2. ASSUME NEW p \in Nat, target <= p, p < toMove + 1
          PROVE  \E n \in Pushed' : before[n] = p
      <3>1. CASE p = toMove
        BY <1>1, <1>4, <3>1
      <3>2. CASE p # toMove
        BY <1>4, <2>2, <3>2 DEF LoopInv, FilledInv
      <3> QED
        BY <3>1, <3>2
    <2>3. \A n \in Visited' : before[n] # toMove + 1
      BY <1>1 DEF LoopInv, SortedInv, Visited
    <2> QED
      BY <1>1, <2>1, <2>2, <2>3 DEF FilledInv
  <1> QED
    BY <1>2, <1>3, <1>5, <1>6 DEF LoopInv

\* An address that is left alone is not pushed, and not on the free priority.
LEMMA LeaveAloneStep ==
    ASSUME TypeOK, LoopInv, NEW m \in Mail, LeaveAlone(m)
    PROVE  LoopInv'
  <1> USE DEF TypeOK, LeaveAlone, IsNext
  <1>1. /\ m \in todo /\ m \notin Visited /\ m # placed
        /\ Visited' = Visited \cup {m}
        /\ todo' = todo \ {m}
    BY DEF LoopInv, UntouchedInv, Visited
  <1>2. UntouchedInv'
    BY <1>1 DEF LoopInv, UntouchedInv
  <1>3. SortedInv'
    BY <1>1 DEF LoopInv, SortedInv
  <1>4. Pushed' = Pushed
    BY <1>1 DEF LoopInv, UntouchedInv, Pushed
  <1>5. PushedInv'
    BY <1>4 DEF LoopInv, PushedInv
  <1>6. FilledInv'
    BY <1>1, <1>4 DEF LoopInv, FilledInv
  <1> QED
    BY <1>2, <1>3, <1>5, <1>6 DEF LoopInv

\* Placing the address changes nothing the invariant speaks about.
LEMMA PlaceStep == ASSUME TypeOK, LoopInv, Place PROVE LoopInv'
  <1>1. Visited' = Visited /\ \A n \in Visited : prio'[n] = prio[n]
    BY DEF Place, Visited, TypeOK
  <1>2. Pushed' = Pushed /\ \A n \in Pushed : prio'[n] = prio[n]
    BY <1>1 DEF Place, Pushed
  <1> QED
    BY <1>1, <1>2 DEF Place, LoopInv, UntouchedInv, SortedInv, PushedInv, FilledInv

\* Inv is inductive.
THEOREM ShiftInvariance == Spec => []Inv
  <1>1. Init => Inv
    <2> SUFFICES ASSUME Init PROVE Inv
      OBVIOUS
    <2>1. TypeOK
      BY TypeInductive
    <2>2. Visited = {} /\ Pushed = {}
      BY DEF Init, Visited, Pushed
    <2>3. LoopInv
      BY <2>2, PriorityAssumption
      DEF Init, LoopInv, UntouchedInv, SortedInv, PushedInv, FilledInv
    <2> QED
      BY <2>1, <2>3 DEF Inv, Init
  <1>2. Inv /\ [Next]_vars => Inv'
    <2> SUFFICES ASSUME Inv, [Next]_vars PROVE Inv'
      OBVIOUS
    <2>1. TypeOK /\ TypeOK'
      BY TypeInductive DEF Inv
    <2>2. LoopInv'
      <3>1. LoopInv
        BY DEF Inv
      <3>2. CASE Place
        BY <2>1, <3>1, <3>2, PlaceStep
      <3>3. ASSUME NEW m \in Mail, PushBack(m) PROVE LoopInv'
        BY <2>1, <3>1, <3>3, PushBackStep
      <3>4. ASSUME NEW m \in Mail, LeaveAlone(m) PROVE LoopInv'
        BY <2>1, <3>1, <3>4, LeaveAloneStep
      <3>5. CASE UNCHANGED vars
        BY <3>1, <3>5
        DEF vars, Visited, Pushed, LoopInv, UntouchedInv, SortedInv, PushedInv, FilledInv
      <3> QED
        BY <3>2, <3>3, <3>4, <3>5 DEF Next
    <2>3. (pc = "done" => todo = {} /\ prio[placed] = target)'
      BY <2>1 DEF Inv, Next, Place, PushBack, LeaveAlone, vars, TypeOK
    <2> QED
      BY <2>1, <2>2, <2>3 DEF Inv
  <1> QED
    BY <1>1, <1>2, PTL DEF Spec

\* Type correctness of the loop.
THEOREM ShiftTypeCorrect == Spec => []TypeOK
  <1>1. Inv => TypeOK
    BY DEF Inv
  <1> QED
    BY <1>1, ShiftInvariance, PTL

\* The stretch is the cascade, and what was pushed back are its movers.
LEMMA PushedAreMovers ==
    ASSUME Inv, pc = "done"
    PROVE  Pushed \in Movers(before, placed, target)
  <1> DEFINE O == Others(before, placed)
  <1>1. TypeOK /\ PushedInv /\ FilledInv /\ Visited = Mail \ {placed} /\ O = Mail \ {placed}
    BY DEF Inv, LoopInv, Visited, Others, TypeOK
  <1>2. before \in [Mail -> Nat] /\ target \in Nat /\ toMove \in Nat
    BY <1>1, PriorityAssumption DEF TypeOK
  <1>3. Pushed \subseteq O
    BY <1>1 DEF Pushed
  <1>4. ASSUME NEW m \in Pushed PROVE before[m] \in Cascade(before, placed, target)
    <2>1. m \in O /\ before[m] \in Nat /\ target <= before[m] /\ before[m] < toMove
      BY <1>1, <1>2, <1>3 DEF PushedInv
    <2>2. ASSUME NEW q \in target..before[m] PROVE \E n \in O : before[n] = q
      <3>1. q \in Nat /\ target <= q /\ q < toMove
        BY <1>2, <2>1
      <3> QED
        BY <1>1, <1>3, <3>1 DEF FilledInv
    <2> QED
      BY <1>2, <2>1, <2>2 DEF Cascade
  <1>5. ASSUME NEW p \in Cascade(before, placed, target) PROVE \E m \in Pushed : before[m] = p
    <2>1. p \in Nat /\ p >= target /\ \A q \in target..p : \E m \in O : before[m] = q
      BY <1>1, <1>2 DEF Cascade
    <2>2. \A m \in O : before[m] # toMove
      BY <1>1 DEF FilledInv
    <2>3. p < toMove
      <3>1. target <= toMove
        BY <1>1 DEF FilledInv
      <3>2. toMove \notin target..p
        BY <2>1, <2>2
      <3> QED
        BY <1>2, <2>1, <3>1, <3>2
    <2> QED
      BY <1>1, <2>1, <2>3 DEF FilledInv
  <1>6. {before[m] : m \in Pushed} = Cascade(before, placed, target)
    BY <1>4, <1>5
  <1>7. \A m, n \in Pushed : before[m] = before[n] => m = n
    BY <1>1 DEF PushedInv
  <1> QED
    BY <1>3, <1>6, <1>7 DEF Movers

\* The loop of shiftPriorities leaves one of the results that EmailPriorities
\* allows, also when several addresses of the person share a priority.
THEOREM ShiftComputes == Spec => []ComputesShift
  <1>1. Inv => ComputesShift
    <2> SUFFICES ASSUME Inv, pc = "done" PROVE prio \in Shifts(before, placed, target)
      BY DEF ComputesShift
    <2>1. TypeOK /\ PushedInv /\ Visited = Mail \ {placed} /\ prio[placed] = target
      BY DEF Inv, LoopInv, Visited, TypeOK
    <2>2. \A m \in Mail : prio[m] = IF m = placed THEN target ELSE IF m \in Pushed THEN before[m] + 1 ELSE before[m]
      BY <2>1 DEF PushedInv, Pushed
    <2>3. prio = Moved(before, placed, target, Pushed)
      BY <2>1, <2>2 DEF Moved, TypeOK
    <2> QED
      BY <2>3, PushedAreMovers DEF Shifts
  <1> QED
    BY <1>1, ShiftInvariance, PTL

\* At the end the stretch has room for the placed address at its front, and
\* what was left alone lies on either side of it.
LEMMA AtTheEnd ==
    ASSUME Inv, pc = "done", Distinct(before)
    PROVE  /\ prio[placed] = target /\ target <= toMove
           /\ \A m \in Mail \ {placed} :
                 \/ prio[m] = before[m] + 1 /\ target <= before[m] /\ before[m] < toMove
                 \/ prio[m] = before[m] /\ (before[m] < target \/ before[m] > toMove)
  <1>1. TypeOK /\ PushedInv /\ FilledInv /\ Visited = Mail \ {placed} /\ prio[placed] = target
    BY DEF Inv, LoopInv, Visited, TypeOK
  <1>2. before \in [Mail -> Nat] /\ target \in Nat /\ toMove \in Nat /\ target <= toMove
    BY <1>1, PriorityAssumption DEF TypeOK, FilledInv
  <1>3. ASSUME NEW m \in Mail \ {placed}, m \notin Pushed
        PROVE  prio[m] = before[m] /\ (before[m] < target \/ before[m] > toMove)
    <2>1. prio[m] = before[m] /\ before[m] # toMove
      BY <1>1, <1>3 DEF Pushed, FilledInv
    <2>2. ~(target <= before[m] /\ before[m] < toMove)
      <3>1. SUFFICES ASSUME target <= before[m], before[m] < toMove PROVE FALSE
        OBVIOUS
      <3>2. PICK n \in Pushed : before[n] = before[m]
        BY <1>1, <1>2, <3>1 DEF FilledInv
      <3> QED
        BY <1>3, <3>2 DEF Distinct, Pushed, Visited
    <2> QED
      BY <1>2, <2>1, <2>2
  <1> QED
    BY <1>1, <1>2, <1>3 DEF PushedInv

\* shiftPriorities never makes two addresses of a person share a priority.
THEOREM ShiftKeepsDistinct == Spec => []KeepsDistinct
  <1>1. Inv => KeepsDistinct
    <2> SUFFICES ASSUME Inv, pc = "done", Distinct(before),
                        NEW m \in Mail, NEW n \in Mail, prio[m] = prio[n]
                 PROVE  m = n
      BY DEF KeepsDistinct, Distinct
    <2>1. TypeOK
      BY DEF Inv
    <2>2. CASE m # placed /\ n # placed
      <3>1. before[m] = before[n]
        BY <2>1, <2>2, AtTheEnd, PriorityAssumption DEF TypeOK
      <3> QED
        BY <3>1 DEF Distinct
    <2>3. \A k \in Mail \ {placed} : prio[k] # target
      BY <2>1, AtTheEnd, PriorityAssumption DEF TypeOK
    <2>4. CASE m = placed \/ n = placed
      BY <2>3, <2>4, AtTheEnd
    <2> QED
      BY <2>2, <2>4
  <1> QED
    BY <1>1, ShiftInvariance, PTL

\* shiftPriorities keeps the relative order of the other addresses and
\* pushes each of them back by at most one.
THEOREM ShiftKeepsOrder == Spec => []KeepsOrder
  <1>1. Inv => KeepsOrder
    <2> SUFFICES ASSUME Inv, pc = "done", Distinct(before),
                        NEW m \in Mail \ {placed}, NEW n \in Mail \ {placed}
                 PROVE  /\ prio[m] \in {before[m], before[m] + 1}
                        /\ before[m] < before[n] => prio[m] < prio[n]
      BY DEF KeepsOrder
    <2>1. TypeOK
      BY DEF Inv
    <2> QED
      BY <2>1, AtTheEnd, PriorityAssumption DEF TypeOK
  <1> QED
    BY <1>1, ShiftInvariance, PTL

============================================================================
