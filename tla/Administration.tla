----------------------------- MODULE Administration -----------------------------
(***************************************************************************)
(* The small machines around the mail pipeline, in one specification.      *)
(* They share no variable: `part` says which of them a behaviour is about, *)
(* and only that one moves.                                                *)
(***************************************************************************)
EXTENDS Migrations, ListAdministration, ListPosting, WebSessions, Repairs, QueueAdmin,
        Postfix, Archives

VARIABLE part

vars == <<part, openingVars, listVars, postingVars, sessionVars, repairVars, queueVars,
          postfixVars, archiveVars>>

Parts == {"opening", "lists", "posting", "sessions", "repairs", "queues", "postfix", "archives"}

Init ==
    /\ OpeningInit /\ ListInit /\ PostingInit /\ SessionInit /\ RepairInit /\ QueueInit
    /\ PostfixInit /\ ArchiveInit
    /\ part \in Parts

Next ==
    /\ UNCHANGED part
    /\ \/ /\ part = "opening"
          /\ OpeningNext
          /\ UNCHANGED <<listVars, postingVars, sessionVars, repairVars, queueVars, postfixVars,
                         archiveVars>>
       \/ /\ part = "lists"
          /\ ListNext
          /\ UNCHANGED <<openingVars, postingVars, sessionVars, repairVars, queueVars, postfixVars,
                         archiveVars>>
       \/ /\ part = "posting"
          /\ PostingNext
          /\ UNCHANGED <<openingVars, listVars, sessionVars, repairVars, queueVars, postfixVars,
                         archiveVars>>
       \/ /\ part = "sessions"
          /\ SessionNext
          /\ UNCHANGED <<openingVars, listVars, postingVars, repairVars, queueVars, postfixVars,
                         archiveVars>>
       \/ /\ part = "repairs"
          /\ RepairNext
          /\ UNCHANGED <<openingVars, listVars, postingVars, sessionVars, queueVars, postfixVars,
                         archiveVars>>
       \/ /\ part = "queues"
          /\ QueueNext
          /\ UNCHANGED <<openingVars, listVars, postingVars, sessionVars, repairVars, postfixVars,
                         archiveVars>>
       \/ /\ part = "postfix"
          /\ PostfixNext
          /\ UNCHANGED <<openingVars, listVars, postingVars, sessionVars, repairVars, queueVars,
                         archiveVars>>
       \/ /\ part = "archives"
          /\ ArchiveNext
          /\ UNCHANGED <<openingVars, listVars, postingVars, sessionVars, repairVars, queueVars,
                         postfixVars>>

Spec == Init /\ [][Next]_vars

\* Every part keeps its types, its foreign keys and its UNIQUE columns.
TypesOK ==
    OpeningTypeOK /\ ListTypeOK /\ PostingTypeOK /\ SessionTypeOK /\ RepairTypeOK /\ QueueTypeOK
=================================================================================
