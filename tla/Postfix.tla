-------------------------------- MODULE Postfix --------------------------------
(***************************************************************************)
(* `mpot update-postfix-config`: master.cf is copied, read and written by  *)
(* several runs of the command while an administrator edits it.  Any step  *)
(* of a run may be its last.                                               *)
(***************************************************************************)
EXTENDS PostfixFiles

CONSTANTS
    Updater,        \* runs of the command, one process each
    Originals,      \* what master.cf may hold at first
    MaxLines        \* bound on the lines of a master.cf that is edited

ASSUME OriginalsAssumption == Originals \subseteq [lines : Seq(Line), newline : BOOLEAN]

VARIABLES
    master,     \* master.cf
    backup,     \* master.cf.bkp: a set of one file, or none
    update      \* what each run of the command is about

postfixVars == <<master, backup, update>>

NoRun == [pc |-> "idle"]
Ended == [pc |-> "failed"]

PostfixInit ==
    /\ master \in Originals
    /\ backup = {}
    /\ update = [u \in Updater |-> NoRun]

\* Bookkeeping: the runs that have copied master.cf before this change of it.
Overtaken ==
    [v \in Updater |->
        IF update[v].pc \in {"open", "write", "rest"}
        THEN [update[v] EXCEPT !.overtaken = TRUE] ELSE update[v]]

-------------------------------------------------------------------------------
(***************************************************************************)
(* update_postfix_config                                                   *)
(***************************************************************************)

\* The map (GenerateMaps) is written and postmap has run without an error.
SaveMaps(u) ==
    /\ update[u].pc = "idle"
    /\ update' = [update EXCEPT ![u] = [pc |-> "postmap"]]
    /\ UNCHANGED <<master, backup>>

\* Mutant: the backup of an earlier run is kept.
CopyMaster_Once(u) ==
    /\ update[u].pc = "postmap"
    /\ backup' = IF backup = {} THEN {master} ELSE backup
    /\ update' = [update EXCEPT ![u] = [pc |-> "open", overtaken |-> FALSE]]
    /\ UNCHANGED master

\* postmap was run without an error.  The backup of an earlier run is overwritten.
CopyMaster(u) ==
    /\ update[u].pc = "postmap"
    /\ backup' = {master}
    /\ update' = [update EXCEPT ![u] = [pc |-> "open", overtaken |-> FALSE]]
    /\ UNCHANGED master

ReadMaster(u) ==
    /\ update[u].pc = "open"
    /\ update' = [update EXCEPT ![u] =
                    IF NoEnd(master) THEN Ended
                    ELSE [pc |-> "write", overtaken |-> @.overtaken, file |-> master]]
    /\ UNCHANGED <<master, backup>>

\* The lines from the n-th on are written over those of the file.
WriteOver(lines, n, new) ==
    [i \in 1 .. Max({Len(lines), Len(new)}) |->
        IF i >= n /\ i <= Len(new) THEN new[i]
        ELSE IF i <= Len(lines) THEN lines[i] ELSE "zeros"]

SetLen(lines, n) == [i \in 1 .. n |-> IF i <= Len(lines) THEN lines[i] ELSE "zeros"]

\* set_len, when the file becomes shorter, and the first lines
WriteFirst(u, n) ==
    LET new  == WithEntry(update[u].file)
        kept == IF Len(new.lines) < Len(update[u].file.lines)
                THEN SetLen(master.lines, Len(new.lines)) ELSE master.lines
    IN  /\ update[u].pc = "write" /\ n \in 0 .. Len(new.lines)
        /\ master' = [master EXCEPT !.lines = WriteOver(kept, 1, SubSeq(new.lines, 1, n))]
        /\ update' = [Overtaken EXCEPT ![u] = [pc |-> "rest", overtaken |-> update[u].overtaken,
                                              file |-> update[u].file, from |-> n + 1]]
        /\ UNCHANGED backup

WriteRest(u) ==
    LET new == WithEntry(update[u].file)
    IN  /\ update[u].pc = "rest"
        /\ master' = [lines   |-> WriteOver(master.lines, update[u].from, new.lines),
                      newline |-> new.newline]
        /\ update' = [Overtaken EXCEPT ![u] = [pc |-> "done"]]
        /\ UNCHANGED backup

\* An error, or the death of the process
AbortUpdate(u) ==
    /\ update[u].pc \in {"open", "write", "rest"}
    /\ update' = [update EXCEPT ![u] = Ended]
    /\ UNCHANGED <<master, backup>>

-------------------------------------------------------------------------------
(***************************************************************************)
(* Others                                                                  *)
(***************************************************************************)
\* An editor saves the file with one more service.
EditMaster(service) ==
    /\ Len(master.lines) < MaxLines /\ \A i \in DOMAIN master.lines : master.lines[i] # service
    /\ master' = [lines |-> Append(master.lines, service), newline |-> TRUE]
    /\ update' = Overtaken
    /\ UNCHANGED backup

PostfixNext ==
    \/ \E u \in Updater :
        \/ SaveMaps(u) \/ CopyMaster(u) \/ ReadMaster(u)
        \/ \E n \in 0 .. MaxLines : WriteFirst(u, n)
        \/ WriteRest(u) \/ AbortUpdate(u)
    \/ \E service \in OtherServices : EditMaster(service)

PostfixSpec == PostfixInit /\ [][PostfixNext]_postfixVars

-------------------------------------------------------------------------------
(***************************************************************************)
(* Properties                                                              *)
(***************************************************************************)
\* The services of others that some file of the set still has
Survivors(files) == (UNION {Range(f.lines) : f \in files}) \cap (OtherServices \cup {"longer"})

\* What save_master_cf_entry (postfix.rs) does to the services of others can be
\* undone: the last copy of one is lost only when a later run copies a file that
\* has already lost it, or by a run that was overtaken by an edit or another run
\* after its copy.
LastCopyLostOnlyByLaterRun ==
    [][Survivors({master} \cup backup) \subseteq Survivors({master'} \cup backup')
         \/ \E u \in Updater :
              \/ update[u].pc = "postmap" /\ update'[u].pc = "open"
              \/ update[u].pc \in {"write", "rest"} /\ update[u].overtaken /\ update'[u] # update[u]]_postfixVars

\* A run of save_master_cf_entry that is not overtaken leaves in a plain master.cf
\* every line of the other services, in order, and the own entry.
OtherServicesAreKept ==
    [][\A u \in Updater :
         (update'[u].pc = "done" /\ update[u].pc = "rest" /\ ~update[u].overtaken
            /\ Plain(update[u].file))
         => /\ OthersOf(master'.lines) = OthersOf(update[u].file.lines)
            /\ Plain(master')
            /\ \E i \in DOMAIN master'.lines : master'.lines[i] = "own"]_postfixVars
=============================================================================
