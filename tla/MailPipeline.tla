------------------------------ MODULE MailPipeline ------------------------------
(***************************************************************************)
(* The way of a mail through mailpot.  The mail server hands a mail to     *)
(* `mpot post`, which in one exclusive transaction files it under every    *)
(* list of its To header and queues one copy per recipient.  `mpot         *)
(* flush-queue`, run periodically, takes the whole `out` queue in another  *)
(* exclusive transaction, submits it copy by copy and puts the copies that *)
(* failed into the `deferred` queue.  An administrator deletes entries.    *)
(*                                                                         *)
(* A process is one run of a command: all of them are anonymous, because   *)
(* the only state a run keeps outside the database is that of its open     *)
(* transaction `tx` (SQLite allows one) or, after SQLite has rolled that   *)
(* transaction back under it, the mail it still wants to record.           *)
(*                                                                         *)
(* Which action a list's filters choose for a mail and who its subscribers *)
(* are is left open.  Mail served as a request (list+subscribe@...) is in  *)
(* Subscriptions.  A From header has one address here; the code repeats    *)
(* the reply for each.                                                     *)
(***************************************************************************)
EXTENDS Naturals

CONSTANTS
    List,       \* primary keys of lists; posts are filed in their order
    Address,    \* recipients as the queue stores them (name and address)
    Mail,       \* Message-IDs of submitted mails
    To,         \* per mail: the lists its To header names
    DryRuns,    \* the values of --dry-run the commands are given
    MaxTries    \* bound: how often the mail server submits the same mail

ASSUME ListAssumption == List \subseteq Nat
ASSUME ToAssumption == To \in [Mail -> SUBSET List]
ASSUME DryRunsAssumption == DryRuns \subseteq BOOLEAN
ASSUME MaxTriesAssumption == MaxTries \in Nat
ASSUME AddressAssumption == {"header", "sender"} \cap Address = {}

VARIABLES
    queue,      \* the committed queue table
    posts,      \* the committed post table
    tx,         \* the open write transaction
    outside,    \* submissions whose transaction SQLite rolled back
    tries,      \* per mail: how often it was submitted
    sent,       \* history: the copies handed to the outgoing mail server
    settled,    \* history: those whose flush was committed
    deleted,    \* history: the copies an administrator deleted
    acked,      \* history: mails for which `mpot post` has exited with success
    refused     \* history: mails it has read and then exited with an error

tables  == <<queue, posts>>
history == <<sent, settled, deleted, acked, refused>>
vars    == <<tables, tx, outside, tries, history>>

Try == 1..MaxTries

\* One run of `mpot post`.
Submission == [id : Mail, try : Try]

\* Replies are drafted with a Message-ID of their own, new for every run.
Mid == Mail \cup Submission

ASSUME MailAssumption == Mail \cap Submission = {}

\* UNIQUE (to_addresses, message_id): "header" is the mail's own To header.
Copy  == [to : Address \cup {"header", "sender"}, mid : Mid]
Which == {"out", "hold", "deferred", "error"}
Row   == [which : Which, copy : Copy]
Post  == [list : List, mid : Mail, recipients : SUBSET Address]

CopyTo(a, m) == [to |-> a, mid |-> m]
Entry(w, c)  == [which |-> w, copy |-> c]

Rows(q, w)   == {r \in q : r.which = w}
Copies(q)    == {r.copy : r \in q}
Queued(q, w) == Copies(Rows(q, w))

NoTx == [at |-> "none"]
Open == tx # NoTx

\* A transaction of `mpot post`, and one of `mpot flush-queue`.
PostTx  == [at : {"list", "copies", "error", "drop", "commit"}, job : Submission,
            dry : BOOLEAN, queue : SUBSET Row, posts : SUBSET Post,
            left : SUBSET List, recipients : SUBSET Address]
FlushTx == [at : {"flush"}, dry : BOOLEAN, queue : SUBSET Row,
            batch : SUBSET Copy, failed : SUBSET Copy]

Init ==
    /\ queue = {} /\ posts = {}
    /\ tx = NoTx
    /\ outside = {}
    /\ tries = [m \in Mail |-> 0]
    /\ sent = {} /\ settled = {} /\ deleted = {} /\ acked = {} /\ refused = {}

-------------------------------------------------------------------------------
(***************************************************************************)
(* mpot post                                                               *)
(***************************************************************************)

At(step) == tx.at = step

\* EXCLUSIVE transaction.  A mail server that gets no answer submits again.
Submit(m, dry) ==
    /\ ~Open
    /\ tries[m] < MaxTries
    /\ tries' = [tries EXCEPT ![m] = @ + 1]
    /\ tx' = [at |-> "list", job |-> [id |-> m, try |-> tries[m] + 1], dry |-> dry,
              queue |-> queue, posts |-> posts, left |-> To[m], recipients |-> {}]
    /\ UNCHANGED <<tables, outside, history>>

\* The database stays locked for longer than the busy timeout: the command
\* ends with an error before it has read the mail.
SubmitBusy(m) ==
    /\ Open
    /\ tries[m] < MaxTries
    /\ tries' = [tries EXCEPT ![m] = @ + 1]
    /\ UNCHANGED <<tables, tx, outside, history>>

\* The rest of the transaction's state does not change.
OnlyTx == UNCHANGED <<tables, outside, tries, history>>

\* Lists are examined in the order of their keys.
Examined(l) == At("list") /\ l \in tx.left /\ \A k \in tx.left : l <= k

\* No list is named in the To header, or handling a list fails (a reply
\* template that does not render, a mail the filters have made unreadable).
PostFails ==
    /\ At("list")
    /\ tx' = [tx EXCEPT !.at = "error"]
    /\ OnlyTx

\* Mutant: a post that is distributed but not archived.
AcceptPost_NotArchived(l, S) ==
    /\ Examined(l)
    /\ tx' = [tx EXCEPT !.at = "copies", !.left = @ \ {l}, !.recipients = S]
    /\ OnlyTx

\* PostAction::Accept: the mail is archived and its recipients are known.
AcceptPost(l, S) ==
    /\ Examined(l)
    /\ tx' = [tx EXCEPT !.at = "copies", !.left = @ \ {l}, !.recipients = S,
                        !.posts = @ \cup {[list |-> l, mid |-> tx.job.id, recipients |-> S]}]
    /\ OnlyTx

\* Mutant: after a conflict the process takes its transaction to be open still.
RolledBack_StaysOpen ==
    /\ tx' = [tx EXCEPT !.at = "none"]
    /\ outside' = outside \cup {tx.job}
    /\ UNCHANGED <<tables, tries, history>>

\* ON CONFLICT ROLLBACK: SQLite ends the whole transaction, the lock is free.
RolledBack ==
    /\ tx' = NoTx
    /\ outside' = outside \cup {tx.job}
    /\ UNCHANGED <<tables, tries, history>>

\* insert_to_queue inside the transaction, which then goes on as `then`.
Enqueue(w, c, then) ==
    IF c \notin Copies(tx.queue)
    THEN tx' = [then EXCEPT !.queue = @ \cup {Entry(w, c)}] /\ OnlyTx
    ELSE RolledBack

EnqueueCopy(a) ==
    /\ At("copies")
    /\ a \in tx.recipients
    /\ Enqueue("out", CopyTo(a, tx.job.id), [tx EXCEPT !.recipients = @ \ {a}])

\* Mutant: one list is enough.
ListDone_First ==
    /\ At("copies")
    /\ tx.recipients = {}
    /\ tx' = [tx EXCEPT !.at = "commit"]
    /\ OnlyTx

ListDone ==
    /\ At("copies")
    /\ tx.recipients = {}
    /\ tx' = [tx EXCEPT !.at = IF tx.left = {} THEN "commit" ELSE "list"]
    /\ OnlyTx

Reply == Entry("out", CopyTo("sender", tx.job))

\* PostAction::Reject: the sender is told, the remaining lists are skipped.
RejectPost(l) ==
    /\ Examined(l)
    /\ tx' = [tx EXCEPT !.at = "commit", !.queue = @ \cup {Reply}]
    /\ OnlyTx

Header(m) == CopyTo("header", m)

\* PostAction::Defer (with a reply) and PostAction::Hold: the mail is kept
\* under its own To header and the remaining lists are skipped.
DeferPost(l) ==
    /\ Examined(l)
    /\ Enqueue("deferred", Header(tx.job.id),
               [tx EXCEPT !.at = "commit", !.queue = @ \cup {Reply}])

HoldPost(l) ==
    /\ Examined(l)
    /\ Enqueue("hold", Header(tx.job.id), [tx EXCEPT !.at = "commit"])

\* `post` puts the mail into the error queue and returns the error...
RecordError ==
    /\ At("error")
    /\ IF Header(tx.job.id) \notin Copies(tx.queue)
       THEN /\ tx' = [tx EXCEPT !.at = "drop",
                                !.queue = @ \cup {Entry("error", Header(tx.job.id))}]
            /\ OnlyTx
       ELSE /\ tx' = NoTx
            /\ refused' = refused \cup {tx.job.id}
            /\ UNCHANGED <<tables, outside, tries, sent, settled, deleted, acked>>

\* ...for which the command drops the transaction: it is rolled back.
DropTx ==
    /\ At("drop")
    /\ tx' = NoTx
    /\ refused' = refused \cup {tx.job.id}
    /\ UNCHANGED <<tables, outside, tries, sent, settled, deleted, acked>>

\* After a conflict `post` runs the same insert, now a transaction of its own;
\* it may find the database busy, or its own key taken.
RecordOutside(job) ==
    /\ job \in outside
    /\ queue' = IF ~Open /\ Header(job.id) \notin Copies(queue)
                THEN queue \cup {Entry("error", Header(job.id))}
                ELSE queue
    /\ outside' = outside \ {job}
    /\ refused' = refused \cup {job.id}
    /\ UNCHANGED <<posts, tx, tries, sent, settled, deleted, acked>>

\* The dry_run flag is passed down to `post`, which does not look at it.
CommitPost ==
    /\ At("commit")
    /\ queue' = tx.queue
    /\ posts' = tx.posts
    /\ tx' = NoTx
    /\ acked' = acked \cup {tx.job.id}
    /\ UNCHANGED <<outside, tries, sent, settled, deleted, refused>>

-------------------------------------------------------------------------------
(***************************************************************************)
(* mpot flush-queue                                                        *)
(***************************************************************************)

\* Mutant: the entries are read but not deleted.
OpenFlush_NoDelete(dry) ==
    /\ ~Open
    /\ tx' = [at |-> "flush", dry |-> dry, queue |-> queue,
              batch |-> Queued(queue, "out"), failed |-> {}]
    /\ OnlyTx

\* delete_from_queue(Out): all entries, inside the transaction.
OpenFlush(dry) ==
    /\ ~Open
    /\ tx' = [at |-> "flush", dry |-> dry, queue |-> queue \ Rows(queue, "out"),
              batch |-> Queued(queue, "out"), failed |-> {}]
    /\ OnlyTx

\* Mutant: the dry run sends.
SendCopy_Dry(c) ==
    /\ At("flush")
    /\ c \in tx.batch
    /\ tx' = [tx EXCEPT !.batch = @ \ {c}]
    /\ sent' = sent \cup {c}
    /\ UNCHANGED <<tables, outside, tries, settled, deleted, acked, refused>>

\* The copy leaves the process whether or not the flush commits later.
SendCopy(c) ==
    /\ At("flush")
    /\ c \in tx.batch
    /\ tx' = [tx EXCEPT !.batch = @ \ {c}]
    /\ sent' = IF tx.dry THEN sent ELSE sent \cup {c}
    /\ UNCHANGED <<tables, outside, tries, settled, deleted, acked, refused>>

\* Mutant: a failed copy is not remembered.
SendFails_Forgets(c) ==
    /\ At("flush")
    /\ c \in tx.batch
    /\ tx' = [tx EXCEPT !.batch = @ \ {c}]
    /\ OnlyTx

\* A failure may be reported after the copy was taken over.
SendFails(c) ==
    /\ At("flush")
    /\ c \in tx.batch
    /\ tx' = [tx EXCEPT !.batch = @ \ {c}, !.failed = @ \cup {c}]
    /\ sent' \in {sent} \cup (IF tx.dry THEN {} ELSE {sent \cup {c}})
    /\ UNCHANGED <<tables, outside, tries, settled, deleted, acked, refused>>

\* No connection to the outgoing server: the error drops the transaction.
FlushFails ==
    /\ At("flush")
    /\ tx.batch = Queued(queue, "out") /\ tx.failed = {}
    /\ tx' = NoTx
    /\ OnlyTx

\* Mutant: failures go back to the out queue.
Reinsert_Out(c) ==
    /\ At("flush")
    /\ tx.batch = {}
    /\ c \in tx.failed
    /\ tx' = [tx EXCEPT !.failed = @ \ {c}, !.queue = @ \cup {Entry("out", c)}]
    /\ OnlyTx

\* Failures go to the deferred queue one by one; a conflict would end the
\* transaction and the command.
Reinsert(c) ==
    /\ At("flush")
    /\ tx.batch = {}
    /\ c \in tx.failed
    /\ tx' = IF c \notin Copies(tx.queue)
             THEN [tx EXCEPT !.failed = @ \ {c}, !.queue = @ \cup {Entry("deferred", c)}]
             ELSE NoTx
    /\ OnlyTx

Flushed == At("flush") /\ tx.batch = {} /\ tx.failed = {}

\* Mutant: the transaction is dropped, not committed.
CommitFlush_Drops ==
    /\ Flushed
    /\ ~tx.dry
    /\ tx' = NoTx
    /\ settled' = settled \cup (Queued(queue, "out") \ Queued(tx.queue, "deferred"))
    /\ UNCHANGED <<tables, outside, tries, sent, deleted, acked, refused>>

CommitFlush ==
    /\ Flushed
    /\ ~tx.dry
    /\ tx' = NoTx
    /\ queue' = tx.queue
    /\ settled' = settled \cup (Queued(queue, "out") \ Queued(tx.queue, "deferred"))
    /\ UNCHANGED <<posts, outside, tries, sent, deleted, acked, refused>>

\* A dry run is not committed.
EndDryFlush ==
    /\ Flushed
    /\ tx.dry
    /\ tx' = NoTx
    /\ OnlyTx

-------------------------------------------------------------------------------
\* mpot queue delete: some or all entries of one queue.
DeleteFromQueue(w, S) ==
    /\ ~Open
    /\ S # {}
    /\ queue' = queue \ S
    /\ deleted' = deleted \cup Copies(S)
    /\ UNCHANGED <<posts, tx, outside, tries, sent, settled, acked, refused>>

\* The process dies: SQLite discards its transaction.
Crash ==
    /\ Open
    /\ tx' = NoTx
    /\ OnlyTx

CrashOutside(job) ==
    /\ job \in outside
    /\ outside' = outside \ {job}
    /\ UNCHANGED <<tables, tx, tries, history>>

PostStep ==
    \/ PostFails \/ ListDone \/ RecordError \/ DropTx \/ CommitPost
    \/ \E l \in List :
         \/ \E S \in SUBSET Address : AcceptPost(l, S)
         \/ RejectPost(l) \/ DeferPost(l) \/ HoldPost(l)
    \/ \E a \in Address : EnqueueCopy(a)

FlushStep ==
    \/ \E c \in Copy : SendCopy(c) \/ SendFails(c) \/ Reinsert(c)
    \/ CommitFlush \/ EndDryFlush

Next ==
    \/ \E m \in Mail : SubmitBusy(m) \/ \E dry \in DryRuns : Submit(m, dry)
    \/ PostStep
    \/ \E job \in outside : RecordOutside(job) \/ CrashOutside(job)
    \/ \E dry \in DryRuns : OpenFlush(dry)
    \/ FlushStep \/ FlushFails
    \/ \E w \in Which : \E S \in SUBSET Rows(queue, w) : DeleteFromQueue(w, S)
    \/ Crash

Spec == Init /\ [][Next]_vars

\* `mpot post` and `mpot flush-queue` keep running once started.  Flushes are
\* run again and again (by cron), and it is not every time that the database
\* is found locked or the process is killed with only COMMIT left to do.
Fairness ==
    /\ WF_vars(PostStep)
    /\ WF_vars(FlushStep)
    /\ SF_vars(OpenFlush(FALSE))
    /\ SF_vars(CommitFlush)

FairSpec == Spec /\ Fairness

-------------------------------------------------------------------------------
(***************************************************************************)
(* Properties                                                              *)
(***************************************************************************)

TypeOK ==
    /\ queue \subseteq Row
    /\ posts \subseteq Post
    /\ tx \in {NoTx} \cup PostTx \cup FlushTx
    /\ outside \subseteq Submission
    /\ tries \in [Mail -> 0..MaxTries]
    /\ sent \subseteq Copy /\ settled \subseteq Copy /\ deleted \subseteq Copy
    /\ acked \subseteq Mail /\ refused \subseteq Mail

\* A failed copy can always be put into the deferred queue: the flush took it
\* out of the queue itself, nobody else can have inserted one with the same
\* key.  Otherwise one failure would undo the flush after everything was sent.
DeferNeverConflicts ==
    At("flush") => \A c \in tx.batch \cup tx.failed : c \notin Copies(tx.queue)

\* An archived post has been distributed: the copy of each of its recipients
\* waits, was deferred or was sent, unless an administrator deleted it.  In
\* particular no part of a rolled back post or flush is visible.
PostIsDistributed ==
    \A p \in posts : \A a \in p.recipients :
        CopyTo(a, p.mid) \in Queued(queue, "out") \cup Queued(queue, "deferred")
                               \cup sent \cup deleted

\* Nobody is sent a copy of a mail which the archive does not hold.
SentIsArchived ==
    \A c \in sent : c.mid \in Mail =>
        \E p \in posts : p.mid = c.mid /\ c.to \in p.recipients

\* When `mpot post` reports success, every list the mail is for has archived
\* it, or the mail is kept on hold or deferred, or its sender is told.
Told(m) == \E t \in Try : CopyTo("sender", [id |-> m, try |-> t]) \in
                            Queued(queue, "out") \cup Queued(queue, "deferred")
                              \cup sent \cup deleted
Kept(m) == Header(m) \in Queued(queue, "hold") \cup Queued(queue, "deferred") \cup deleted

AcceptedMailIsKept ==
    \A m \in acked :
        \/ \A l \in To[m] : \E p \in posts : p.list = l /\ p.mid = m
        \/ Kept(m)
        \/ Told(m)

\* A copy whose flush was committed is sent again only for a mail that was
\* submitted again.
SettledOnce ==
    At("flush") => \A c \in tx.batch \cap settled : c.mid \in Mail /\ tries[c.mid] > 1

\* A dry flush sends nothing and leaves the tables alone.
DryFlushChangesNothing ==
    [][ At("flush") /\ tx.dry => UNCHANGED <<tables, sent>> ]_vars

Outbox == INSTANCE Delivery WITH
    waiting <- Queued(queue, "out"), deferred <- Queued(queue, "deferred")

\* The commands together deliver as Delivery says.
ImplementsDelivery == Outbox!Spec

\* Copies do not stay in the out queue for ever, provided that from some time
\* on no flush breaks off half-way.
FlushesComplete == <>[][ At("flush") /\ tx' = NoTx => Flushed ]_vars

OutboxDrains ==
    FlushesComplete =>
        \A c \in Copy : c \in Queued(queue, "out") ~> c \notin Queued(queue, "out")

\* README.md: "Mail that has not been handled properly end up in the error
\* queue".
ErrorsAreRecorded ==
    \A m \in refused \ acked : Header(m) \in Queued(queue, "error") \cup deleted

\* args.rs on `post --dry-run`: "Show e-mail processing result without actually
\* consuming it."
DryPostChangesNothing ==
    [][ At("commit") /\ tx.dry => UNCHANGED tables ]_vars
=============================================================================
