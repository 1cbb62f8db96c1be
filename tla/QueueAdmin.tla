------------------------------ MODULE QueueAdmin ------------------------------
(***************************************************************************)
(* `mpot queue`: what an administrator lists, prints and deletes, while    *)
(* mail comes in and the queues are flushed; and the reply templates.      *)
(***************************************************************************)
EXTENDS Tables

CONSTANTS
    QueueName,      \* the queues
    Letter,         \* mails that may be in a queue
    MaxEntries,     \* bound on the keys of queue entries
    TemplateList,   \* lists that may have templates of their own
    MaxTemplates    \* bound on the keys of templates

ASSUME QueueBounds == MaxEntries \in Nat /\ MaxTemplates \in Nat

VARIABLES
    entries,    \* table `queue`: key -> queue, mail
    command,    \* the `mpot queue delete` in progress
    templates   \* table `template`, of one name: key -> list or "global", text

queueVars == <<entries, command, templates>>

EntryKey    == 1 .. MaxEntries
TemplateKey == 1 .. MaxTemplates
Scope       == TemplateList \cup {"global"}
NoCommand   == [pc |-> "idle"]

QueueInit ==
    /\ entries = << >>
    /\ command = NoCommand
    /\ templates = << >>

-------------------------------------------------------------------------------
(***************************************************************************)
(* Queues                                                                  *)
(***************************************************************************)
KeysOf(queue) == {k \in DOMAIN entries : entries[k].queue = queue}

\* insert_to_queue; a mail to the same addresses is not inserted twice.
\* `arrived` is bookkeeping: the keys given to entries since the command read.
InsertToQueue(queue, letter) ==
    LET k == NextKey(entries)
    IN  /\ k \in EntryKey
        /\ \A other \in DOMAIN entries : entries[other].letter # letter
        /\ entries' = Put(entries, k, [queue |-> queue, letter |-> letter])
        /\ command' = IF command.pc = "delete"
                      THEN [command EXCEPT !.arrived = @ \cup {k}] ELSE command
        /\ UNCHANGED templates

\* delete_from_queue by the programs that flush a queue: all it has
Flush(queue) ==
    /\ KeysOf(queue) # {}
    /\ entries' = Without(entries, KeysOf(queue))
    /\ UNCHANGED <<command, templates>>

\* `mpot queue <queue> delete <index>`: read the queue and retain the entries of
\* the index, or all of them when it is empty; without any there is nothing
\* more to do.
BeginDelete(queue, index) ==
    /\ command = NoCommand
    /\ LET listed == IF index = {} THEN KeysOf(queue) ELSE KeysOf(queue) \cap index
       IN  /\ listed # {}
           /\ command' = [pc |-> "delete", queue |-> queue, index |-> index,
                          listed |-> listed, arrived |-> {}]
    /\ UNCHANGED <<entries, templates>>

\* Mutant: the queue is not compared.
DeleteFromQueue_AnyQueue(queue, index) ==
    IF index = {} THEN KeysOf(queue) ELSE DOMAIN entries \cap index

\* The rows that DELETE takes: of the queue, and of the index unless it is empty.
DeleteFromQueue(queue, index) ==
    IF index = {} THEN KeysOf(queue) ELSE KeysOf(queue) \cap index

\* delete_from_queue, in a savepoint; then the entries that were read are shown
\* as the deleted ones.
EndDelete ==
    /\ command.pc = "delete"
    /\ entries' = Without(entries, DeleteFromQueue(command.queue, command.index))
    /\ command' = NoCommand
    /\ UNCHANGED templates

\* The database stays locked, or the process dies.
AbortDelete ==
    /\ command.pc = "delete"
    /\ command' = NoCommand
    /\ UNCHANGED <<entries, templates>>

-------------------------------------------------------------------------------
(***************************************************************************)
(* Templates                                                               *)
(***************************************************************************)
TemplatesFor(scope) == {k \in DOMAIN templates : templates[k].scope = scope}

\* fetch_template: the list's own, else the global one; NoTemplate makes the
\* caller use its default.
FetchTemplate(scope) ==
    IF TemplatesFor(scope) # {} THEN TemplatesFor(scope) ELSE TemplatesFor("global")

\* UNIQUE (list, name) does not hold for NULL lists: there may be several
\* global templates of the name, and fetch_template takes any one.
AddTemplate(scope, text) ==
    LET k == NextKey(templates)
    IN  /\ k \in TemplateKey
        /\ scope # "global" => TemplatesFor(scope) = {}
        /\ templates' = Put(templates, k, [scope |-> scope, text |-> text])
        /\ UNCHANGED <<entries, command>>

\* DELETE .. RETURNING removes every row it matches, and returns one.
RemoveTemplate(scope) ==
    /\ TemplatesFor(scope) # {}
    /\ templates' = Without(templates, TemplatesFor(scope))
    /\ UNCHANGED <<entries, command>>

QueueNext ==
    \/ \E queue \in QueueName :
         \/ \E letter \in Letter : InsertToQueue(queue, letter)
         \/ Flush(queue)
         \/ \E index \in SUBSET EntryKey : BeginDelete(queue, index)
    \/ EndDelete \/ AbortDelete
    \/ \E scope \in Scope :
         \/ \E text \in {"old", "new"} : AddTemplate(scope, text)
         \/ RemoveTemplate(scope)

QueueSpec == QueueInit /\ [][QueueNext]_queueVars

-------------------------------------------------------------------------------
(***************************************************************************)
(* Properties                                                              *)
(***************************************************************************)

\* Type correctness; a list has one template of a name.
QueueTypeOK ==
    /\ DOMAIN entries \subseteq EntryKey
    /\ entries \in [DOMAIN entries -> [queue : QueueName, letter : Letter]]
    /\ command # NoCommand =>
         /\ command.queue \in QueueName
         /\ command.index \subseteq EntryKey /\ command.listed \subseteq EntryKey
    /\ DOMAIN templates \subseteq TemplateKey
    /\ templates \in [DOMAIN templates -> [scope : Scope, text : {"old", "new"}]]
    /\ \A k, m \in DOMAIN templates :
         templates[k].scope = templates[m].scope /\ templates[k].scope # "global" => k = m

\* `mpot queue delete` deletes an entry that it did not read, and does not show,
\* only if the entry arrived since: the command reads the queue and deletes by
\* key, or everything, in another transaction.
UnseenDeletedOnlyIfLate ==
    [][ command.pc = "delete" /\ command'.pc = "idle" =>
            DOMAIN entries \ DOMAIN entries' \subseteq command.listed \cup command.arrived ]_queueVars
=============================================================================
