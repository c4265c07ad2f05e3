-------------------------- MODULE ShiftPriorities --------------------------
(***************************************************************************)
(* The loop of EmailAddressRepo.shiftPriorities: the addresses of a person *)
(* come out of the database in the order of their priorities; the one to   *)
(* be placed is taken out, and the others are visited once, pushing back   *)
(* whichever sits on the priority that has to become free.  The properties *)
(* are what the doc comment of the method promises.                        *)
(***************************************************************************)
EXTENDS EmailPriorities

CONSTANTS
    Mail,           \* the addresses of the person
    MaxPriority     \* bound: the priorities to start from

ASSUME MailAssumption == IsFiniteSet(Mail)
ASSUME PriorityAssumption == MaxPriority \in Nat

VARIABLES
    before,   \* the priorities the database holds
    prio,     \* the priorities of the entities, changed in place
    placed,   \* the address to be placed
    target,   \* targetPriority
    todo,     \* the addresses the loop has not visited
    toMove,   \* priorityToMove
    pc

vars == <<before, prio, placed, target, todo, toMove, pc>>

Init ==
    /\ before \in [Mail -> 0..MaxPriority]
    /\ prio = before
    /\ placed \in Mail
    /\ target \in 0..MaxPriority
    /\ todo = Mail \ {placed}
    /\ toMove = target
    /\ pc = "loop"

\* ORDER BY priority: an address of the lowest priority left is next.
IsNext(m) == m \in todo /\ \A n \in todo : before[m] <= before[n]

\* Mutant: every address from the target on is pushed back.
PushBack_All(m) ==
    /\ pc = "loop" /\ IsNext(m)
    /\ before[m] >= toMove
    /\ prio' = [prio EXCEPT ![m] = @ + 1]
    /\ toMove' = toMove + 1
    /\ todo' = todo \ {m}
    /\ UNCHANGED <<before, placed, target, pc>>

\* The address is in the way.
PushBack(m) ==
    /\ pc = "loop" /\ IsNext(m)
    /\ before[m] = toMove
    /\ prio' = [prio EXCEPT ![m] = @ + 1]
    /\ toMove' = toMove + 1
    /\ todo' = todo \ {m}
    /\ UNCHANGED <<before, placed, target, pc>>

\* The address stays where it is.
LeaveAlone(m) ==
    /\ pc = "loop" /\ IsNext(m)
    /\ before[m] # toMove
    /\ todo' = todo \ {m}
    /\ UNCHANGED <<before, prio, placed, target, toMove, pc>>

\* After the loop the address gets its priority and everything is flushed.
Place ==
    /\ pc = "loop" /\ todo = {}
    /\ prio' = [prio EXCEPT ![placed] = target]
    /\ pc' = "done"
    /\ UNCHANGED <<before, placed, target, todo, toMove>>

Next == Place \/ \E m \in Mail : PushBack(m) \/ LeaveAlone(m)

Spec == Init /\ [][Next]_vars

----------------------------------------------------------------------------
(* Properties.                                                             *)

TypeOK ==
    /\ before \in [Mail -> 0..MaxPriority]
    /\ prio \in [Mail -> Nat]
    /\ placed \in Mail
    /\ target \in 0..MaxPriority
    /\ todo \subseteq Mail
    /\ toMove \in Nat
    /\ pc \in {"loop", "done"}

\* The loop computes one of the results of EmailPriorities, also when
\* several addresses share a priority.
ComputesShift == pc = "done" => prio \in Shifts(before, placed, target)

Distinct(f) == \A m, n \in Mail : f[m] = f[n] => m = n

\* No two addresses of a person end up at the same priority if none did
\* before: the slot that the placed address leaves and the gaps absorb the
\* push.
KeepsDistinct == pc = "done" /\ Distinct(before) => Distinct(prio)

\* The other addresses keep their relative order and move by at most one.
KeepsOrder ==
    pc = "done" /\ Distinct(before) =>
        \A m, n \in Mail \ {placed} :
            /\ prio[m] \in {before[m], before[m] + 1}
            /\ before[m] < before[n] => prio[m] < prio[n]

============================================================================
