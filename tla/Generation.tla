----------------------------- MODULE Generation -----------------------------
(***************************************************************************)
(* What a sim_source gear promises of its runs, whatever goroutines,       *)
(* channels and commands it does it with: while it is in service a run     *)
(* begins only when the one before it is over or was given up on, one run  *)
(* at a time is wanted, and a run that was told to end is never wanted     *)
(* again. SimSource implements it for a gear that is started once.         *)
(***************************************************************************)
CONSTANT Runs

VARIABLES
    inService,  \* between Start and Drain or Stop
    begun,      \* the runs that have begun
    current,    \* those of them that nothing has told to end
    leaving,    \* those that were told to end and have not yet
    abandoned   \* those that were given up on

vars == <<inService, begun, current, leaving, abandoned>>

Init ==
    /\ inService = FALSE
    /\ begun = {} /\ current = {} /\ leaving = {} /\ abandoned = {}

Enter ==
    /\ current = {} /\ leaving = {}
    /\ inService' = TRUE
    /\ UNCHANGED <<begun, current, leaving, abandoned>>

\* A run may find on its first turn that it has to end.
Begin(r) ==
    /\ r \notin begun
    /\ current = {}
    /\ inService => leaving \subseteq abandoned
    /\ begun' = begun \union {r}
    /\ \/ current' = {r} /\ UNCHANGED leaving
       \/ leaving' = leaving \union {r} /\ UNCHANGED current
    /\ UNCHANGED <<inService, abandoned>>

TellToEnd ==
    /\ current' = {}
    /\ leaving' = leaving \union current
    /\ UNCHANGED <<inService, begun, abandoned>>

\* By itself, or since it was told to.
End(r) ==
    /\ r \in current \union leaving
    /\ current' = current \ {r}
    /\ leaving' = leaving \ {r}
    /\ UNCHANGED <<inService, begun, abandoned>>

\* Only a run that is on its way out is given up on.
GiveUp(r) ==
    /\ r \in begun \ current
    /\ abandoned' = abandoned \union {r}
    /\ UNCHANGED <<inService, begun, current, leaving>>

Leave ==
    /\ inService' = FALSE
    /\ current' = {}
    /\ leaving' = leaving \union current
    /\ UNCHANGED <<begun, abandoned>>

Next ==
    \/ Enter \/ TellToEnd \/ Leave
    \/ \E r \in Runs : Begin(r) \/ End(r) \/ GiveUp(r)

Spec == Init /\ [][Next]_vars
=============================================================================
