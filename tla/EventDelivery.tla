--------------------------- MODULE EventDelivery ---------------------------
(***************************************************************************)
(* What IOManager promises to whoever hands it a callback or a fiber: it   *)
(* waits for its event or timer, becomes due when that fires, is cancelled *)
(* or scheduled, and then runs once.  Until it is due it may be withdrawn; *)
(* it is never lost, run twice, or run after it was withdrawn.             *)
(***************************************************************************)
CONSTANT Jobs

VARIABLES
    armed,      \* registered for an event or a timer
    owed,       \* fired or scheduled, and still to be run
    active,     \* running
    gone        \* ended, or withdrawn

vars == <<armed, owed, active, gone>>

Init == armed = {} /\ owed = {} /\ active = {} /\ gone = {}

Fresh == Jobs \ (armed \cup owed \cup active \cup gone)

Arm == \E j \in Fresh : armed' = armed \cup {j} /\ UNCHANGED <<owed, active, gone>>

Post == \E j \in Fresh : owed' = owed \cup {j} /\ UNCHANGED <<armed, active, gone>>

\* Both events of an fd, or all timers that are due, fire in one step.
Fire == \E J \in SUBSET armed :
           armed' = armed \ J /\ owed' = owed \cup J /\ UNCHANGED <<active, gone>>

Withdraw == \E J \in SUBSET armed :
               armed' = armed \ J /\ gone' = gone \cup J /\ UNCHANGED <<owed, active>>

Start == \E j \in owed :
            owed' = owed \ {j} /\ active' = active \cup {j} /\ UNCHANGED <<armed, gone>>

End == \E j \in active :
          active' = active \ {j} /\ gone' = gone \cup {j} /\ UNCHANGED <<armed, owed>>

Next == Arm \/ Post \/ Fire \/ Withdraw \/ Start \/ End

Spec == Init /\ [][Next]_vars
=============================================================================
