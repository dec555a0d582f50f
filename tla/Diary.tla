------------------------------- MODULE Diary -------------------------------
(***************************************************************************)
(* What a calendar of appointments promises its host and the families,     *)
(* whoever else is at it: families that are welcome take only what is free, a time that was *)
(* taken stays the one family's, the host alone takes free times back, and *)
(* two times that clash are never both open.                               *)
(***************************************************************************)
CONSTANTS
    Appointments,
    Clashes,     \* pairs of appointments that the host cannot both keep
    Families,
    Guests       \* families invited to one appointment, as opposed to the public

VARIABLES
    free,        \* appointments that a family may take
    welcome,     \* families that may still take one
    theirs,      \* those that each family took
    barred       \* those that the host's rules keep from being taken

vars == <<free, welcome, theirs, barred>>

Taken == UNION {theirs[f] : f \in Families}

Init ==
    /\ free = {}
    /\ welcome = Families
    /\ theirs = [f \in Families |-> {}]
    /\ barred = {}

\* Times are opened, none of which clashes with another one that is open or taken.
Open(new) ==
    /\ new \cap Taken = {}
    /\ free' = free \cup new
    /\ \A a, b \in free' \cup Taken : <<a, b>> \notin Clashes
    /\ UNCHANGED <<welcome, theirs, barred>>

\* Only what nobody has taken is closed.
Close(a) ==
    /\ free' = free \ {a}
    /\ UNCHANGED <<welcome, theirs, barred>>

\* An invited family is turned away for good; what it took stays its own.
TurnAway(f) ==
    /\ welcome' = welcome \ {f}
    /\ UNCHANGED <<free, theirs, barred>>

\* A family that is welcome takes a time that is free and not barred at that moment.
Take(f, a) ==
    /\ f \in welcome /\ a \in free \ barred
    /\ f \in Guests => theirs[f] = {}
    /\ free' = free \ {a}
    /\ theirs' = [theirs EXCEPT ![f] = @ \cup {a}]
    /\ UNCHANGED <<welcome, barred>>

Bar ==
    /\ barred' \in SUBSET Appointments
    /\ UNCHANGED <<free, welcome, theirs>>

Next ==
    \/ \E new \in SUBSET Appointments : Open(new)
    \/ \E a \in Appointments : Close(a) \/ \E f \in Families : Take(f, a)
    \/ \E f \in Guests : TurnAway(f)
    \/ Bar

Spec == Init /\ [][Next]_vars
=============================================================================
