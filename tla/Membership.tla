------------------------------- MODULE Membership -------------------------------
(***************************************************************************)
(* What list membership looks like from outside: who is on a list and who  *)
(* waits to be let in.  A message, a command or a click changes one list,  *)
(* for one or more addresses at once, and does one kind of thing to it.    *)
(* Nobody stops waiting except by becoming a member, and removing members  *)
(* makes nobody wait.                                                      *)
(***************************************************************************)
CONSTANTS List, Address

VARIABLES
    members,    \* pairs <<list, address>> subscribed
    waiting     \* pairs <<list, address>> whose request is not yet accepted

Init == members = {} /\ waiting = {}

Join(S) ==
    /\ S \cap members = {}
    /\ members' = members \cup S
    /\ waiting' = waiting \ S

Leave(S) ==
    /\ S \subseteq members
    /\ members' = members \ S
    /\ UNCHANGED waiting

Ask(S) ==
    /\ S \cap waiting = {}
    /\ waiting' = waiting \cup S
    /\ UNCHANGED members

Next ==
    \E l \in List, A \in SUBSET Address :
        LET S == {l} \X A IN Join(S) \/ Leave(S) \/ Ask(S)

Spec == Init /\ [][Next]_<<members, waiting>>
=============================================================================
