-------------------------- MODULE EmailPriorities --------------------------
(***************************************************************************)
(* The effect of EmailAddressRepo.shiftPriorities on the priorities of a   *)
(* person's e-mail addresses, as one step: prio maps the persisted         *)
(* addresses to their priorities.                                          *)
(* ShiftPriorities holds the loop of the code that computes it.            *)
(***************************************************************************)
EXTENDS Integers, FiniteSets

\* The other addresses, those the loop walks over.
Others(prio, id) == DOMAIN prio \ {id}

\* The contiguous run of occupied priorities that starts at the target; if
\* the target is free it is empty.
Cascade(prio, id, target) ==
    {p \in {prio[m] : m \in Others(prio, id)} :
        p >= target /\ \A q \in target..p : \E m \in Others(prio, id) : prio[m] = q}

\* Of each priority in the run one address moves.  Which one of several at
\* the same priority is up to the database's order.
Movers(prio, id, target) ==
    {M \in SUBSET Others(prio, id) :
        /\ {prio[m] : m \in M} = Cascade(prio, id, target)
        /\ \A m, n \in M : prio[m] = prio[n] => m = n}

Moved(prio, id, target, M) ==
    [m \in DOMAIN prio |-> IF m = id THEN target ELSE IF m \in M THEN prio[m] + 1 ELSE prio[m]]

\* The priorities shiftPriorities can leave behind.
Shifts(prio, id, target) == {Moved(prio, id, target, M) : M \in Movers(prio, id, target)}

============================================================================
