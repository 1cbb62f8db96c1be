-------------------------------- MODULE Delivery --------------------------------
(***************************************************************************)
(* What mailpot promises about outgoing mail, whoever runs and whatever    *)
(* crashes.  A copy waits until a flush that went through: then each copy  *)
(* that was waiting has been sent or is set aside as deferred, none is     *)
(* forgotten.  Sending alone settles nothing: a copy may be sent again.    *)
(***************************************************************************)
VARIABLES
    waiting,    \* copies in the out queue
    deferred,   \* copies set aside
    sent,       \* copies handed to the outgoing mail server, ever
    deleted     \* copies an administrator deleted, ever

Init == waiting = {} /\ deferred = {} /\ sent = {} /\ deleted = {}

\* One mail brings all its copies at once, none of which is already there.
Distribute ==
    /\ waiting \subseteq waiting'
    /\ deferred \subseteq deferred'
    /\ waiting' \cap deferred' = {}
    /\ UNCHANGED <<sent, deleted>>

Send(c) ==
    /\ sent' = sent \cup {c}
    /\ UNCHANGED <<waiting, deferred, deleted>>

Flush ==
    /\ waiting' = {}
    /\ deferred \subseteq deferred'
    /\ deferred' \ deferred \subseteq waiting
    /\ waiting \subseteq sent \cup (deferred' \ deferred)
    /\ UNCHANGED <<sent, deleted>>

Discard ==
    /\ waiting' \subseteq waiting
    /\ deferred' \subseteq deferred
    /\ deleted \subseteq deleted'
    /\ (waiting \ waiting') \cup (deferred \ deferred') \subseteq deleted'
    /\ UNCHANGED sent

Next == Distribute \/ (\E c \in waiting : Send(c)) \/ Flush \/ Discard

Spec == Init /\ [][Next]_<<waiting, deferred, sent, deleted>>
=============================================================================
