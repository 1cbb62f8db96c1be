--------------------------- MODULE MailPipeline_proofs ---------------------------
(***************************************************************************)
(* Theorems about MailPipeline for every set of lists, recipients and      *)
(* mails, every To header, with and without dry runs.                      *)
(***************************************************************************)
EXTENDS MailPipeline, TLAPS

(***************************************************************************)
(* The inductive invariant: what holds of the committed tables, what an    *)
(* open post has prepared, and what an open flush has.  While either is    *)
(* open the committed tables stand still, so each of them is described     *)
(* relative to `queue` and `posts`.                                        *)
(***************************************************************************)
Unique(q) == \A r, s \in q : r.copy = s.copy => r = s

\* Only recipients of archived posts and senders have copies in the out queue.
Outgoing(q, P) ==
    \A r \in q : r.which = "out" =>
        /\ r.copy.to # "header"
        /\ r.copy.mid \in Mail =>
             \E p \in P : p.mid = r.copy.mid /\ r.copy.to \in p.recipients

\* A copy belongs to a submission that was made.
Known(c) ==
    /\ c.mid \in Mail => tries[c.mid] > 0
    /\ c.mid \in Submission => c.mid.try <= tries[c.mid.id]

Resent(c) == c.mid \in Mail /\ tries[c.mid] > 1

\* Where a copy is that was queued for a recipient.
Handled(q) == Queued(q, "out") \cup Queued(q, "deferred") \cup sent \cup deleted

Filed(P, m, lists) == \A l \in lists : \E p \in P : p.list = l /\ p.mid = m

Committed ==
    /\ Unique(queue)
    /\ Outgoing(queue, posts)
    /\ \A c \in Copies(queue) \cup settled : Known(c)
    /\ \A c \in settled : c.to # "header" /\ (c \in Copies(queue) => Resent(c))
    /\ \A job \in outside : job.try <= tries[job.id]

PostInv(t) ==
    /\ queue \subseteq t.queue /\ posts \subseteq t.posts
    /\ Unique(t.queue)
    /\ Outgoing(t.queue, t.posts)
    /\ t.job.try <= tries[t.job.id]
    /\ \A c \in Copies(t.queue) : Known(c)
    /\ \A c \in settled :
         Resent(c) \/ (c \notin Copies(t.queue) /\ c.mid # t.job /\ c.mid # t.job.id)
    /\ \A p \in t.posts : \A a \in p.recipients :
         \/ CopyTo(a, p.mid) \in Handled(t.queue)
         \/ t.at = "copies" /\ p.mid = t.job.id /\ a \in t.recipients
    /\ t.at = "copies" =>
         \E p \in t.posts : p.mid = t.job.id /\ t.recipients \subseteq p.recipients
    /\ t.at \in {"list", "copies"} =>
         /\ CopyTo("sender", t.job) \notin Copies(t.queue)
         /\ Filed(t.posts, t.job.id, To[t.job.id] \ t.left)
    /\ t.at = "commit" =>
         \/ Filed(t.posts, t.job.id, To[t.job.id])
         \/ Header(t.job.id) \in Queued(t.queue, "hold") \cup Queued(t.queue, "deferred")
         \/ CopyTo("sender", t.job) \in Queued(t.queue, "out")

FlushInv(t) ==
    /\ queue \ Rows(queue, "out") \subseteq t.queue
    /\ \A r \in t.queue :
         \/ r \in queue /\ r.which # "out"
         \/ r.which = "deferred" /\ r.copy \in Queued(queue, "out")
    /\ Unique(t.queue)
    /\ t.batch \cup t.failed \subseteq Queued(queue, "out")
    /\ (t.batch \cup t.failed) \cap Copies(t.queue) = {}
    /\ t.dry \/ Queued(queue, "out") \subseteq
                  t.batch \cup t.failed \cup sent \cup Queued(t.queue, "deferred")

IInv ==
    /\ TypeOK
    /\ Committed
    /\ PostIsDistributed /\ SentIsArchived /\ AcceptedMailIsKept
    /\ tx \in PostTx => PostInv(tx)
    /\ tx \in FlushTx => FlushInv(tx)

-------------------------------------------------------------------------------
(***************************************************************************)
(* Facts about queues and transactions                                     *)
(***************************************************************************)

LEMMA QueuedDef == \A q, w, c : c \in Queued(q, w) <=> \E r \in q : r.which = w /\ r.copy = c
BY DEF Queued, Rows, Copies

LEMMA CopiesDef == \A q, c : c \in Copies(q) <=> \E r \in q : r.copy = c
BY DEF Copies

LEMMA EntryFields == \A w, c : Entry(w, c).which = w /\ Entry(w, c).copy = c
BY DEF Entry

\* A row with a new key is added.
LEMMA AddRow ==
    ASSUME NEW q, NEW w, NEW c
    PROVE  /\ \A d : d \in Copies(q \cup {Entry(w, c)}) <=> d \in Copies(q) \/ d = c
           /\ \A v, d : d \in Queued(q \cup {Entry(w, c)}, v) <=>
                          d \in Queued(q, v) \/ (v = w /\ d = c)
           /\ Unique(q) /\ c \notin Copies(q) => Unique(q \cup {Entry(w, c)})
<1>1. \A d : d \in Copies(q \cup {Entry(w, c)}) <=> d \in Copies(q) \/ d = c
  BY CopiesDef, EntryFields
<1>2. \A v, d : d \in Queued(q \cup {Entry(w, c)}, v) <=>
                 d \in Queued(q, v) \/ (v = w /\ d = c)
  BY QueuedDef, EntryFields
<1>3. ASSUME Unique(q), c \notin Copies(q) PROVE Unique(q \cup {Entry(w, c)})
  BY <1>3, CopiesDef, EntryFields DEF Unique
<1>4. QED
  BY <1>1, <1>2, <1>3

LEMMA TxKinds ==
    /\ NoTx \notin PostTx /\ NoTx \notin FlushTx
    /\ \A t \in PostTx : t \notin FlushTx /\ t # NoTx /\ t.at \notin {"none", "flush"}
    /\ \A t \in FlushTx : t.at = "flush" /\ t # NoTx
BY DEF NoTx, PostTx, FlushTx

LEMMA TxIs ==
    ASSUME TypeOK
    PROVE  /\ At("flush") => tx \in FlushTx
           /\ tx.at \in {"list", "copies", "error", "drop", "commit"} => tx \in PostTx
           /\ ~Open => tx = NoTx
           /\ Open => tx \in PostTx \cup FlushTx
<1>1. NoTx.at = "none"
  BY DEF NoTx
<1>2. QED
  BY <1>1, TxKinds DEF TypeOK, At, Open

\* Counting another submission keeps what is known of a copy.
LEMMA TriesGrow ==
    ASSUME TypeOK, tries' \in [Mail -> 0..MaxTries],
           \A m \in Mail : tries[m] <= tries'[m],
           NEW c \in Copy
    PROVE  (Known(c) => Known(c)') /\ (Resent(c) => Resent(c)')
BY MaxTriesAssumption DEF TypeOK, Known, Resent, Submission, Try, Copy

-------------------------------------------------------------------------------
(***************************************************************************)
(* Kinds of steps                                                          *)
(***************************************************************************)

LEMMA InitIInv == Init => IInv
<1> SUFFICES ASSUME Init PROVE IInv
  OBVIOUS
<1>1. TypeOK
  BY MaxTriesAssumption DEF Init, TypeOK
<1>2. Copies({}) = {}
  BY DEF Copies
<1>3. Committed
  BY <1>2 DEF Init, Committed, Unique, Outgoing
<1>4. PostIsDistributed /\ SentIsArchived /\ AcceptedMailIsKept
  BY DEF Init, PostIsDistributed, SentIsArchived, AcceptedMailIsKept
<1>5. QED
  BY <1>1, <1>3, <1>4, TxKinds DEF Init, IInv

\* The open post prepares something.
LEMMA PostTxStep ==
    ASSUME IInv, OnlyTx, tx' \in PostTx, PostInv(tx')
    PROVE  IInv'
<1> USE DEF OnlyTx, tables, history
<1>1. TypeOK'
  BY DEF IInv, TypeOK
<1>2. Committed'
  BY DEF IInv, Committed, Known, Resent
<1>3. PostIsDistributed' /\ SentIsArchived' /\ AcceptedMailIsKept'
  BY DEF IInv, PostIsDistributed, SentIsArchived, AcceptedMailIsKept, Kept, Told
<1>4. PostInv(tx)'
  BY DEF PostInv, Known, Resent, Handled
<1>5. QED
  BY <1>1, <1>2, <1>3, <1>4, TxKinds DEF IInv

\* A transaction ends without being committed.
LEMMA DropStep ==
    ASSUME IInv, tx' = NoTx,
           UNCHANGED <<tables, tries, sent, settled, deleted, acked>>,
           outside' \subseteq Submission, \A job \in outside' : job.try <= tries[job.id],
           refused' \subseteq Mail
    PROVE  IInv'
<1> USE DEF tables
<1>1. TypeOK'
  BY DEF IInv, TypeOK
<1>2. Committed'
  BY DEF IInv, Committed, Known, Resent
<1>3. PostIsDistributed' /\ SentIsArchived' /\ AcceptedMailIsKept'
  BY DEF IInv, PostIsDistributed, SentIsArchived, AcceptedMailIsKept, Kept, Told
<1>4. QED
  BY <1>1, <1>2, <1>3, TxKinds DEF IInv

\* Nothing that was kept gets lost.
LEMMA StaysKept ==
    ASSUME posts \subseteq posts',
           \A c : c \in Queued(queue, "hold") \cup Queued(queue, "deferred") \cup deleted =>
                   c \in (Queued(queue, "hold") \cup Queued(queue, "deferred") \cup deleted)',
           \A c : c \in Handled(queue) => c \in Handled(queue)'
    PROVE  /\ \A m \in acked : AcceptedMailIsKept =>
                (\/ \A l \in To[m] : \E p \in posts : p.list = l /\ p.mid = m
                 \/ Kept(m)
                 \/ Told(m))'
           /\ posts' = posts /\ PostIsDistributed => PostIsDistributed'
<1>1. \A m : Kept(m) => Kept(m)'
  BY DEF Kept, Header, CopyTo
<1>2. \A m : Told(m) => Told(m)'
  BY DEF Told, Handled, CopyTo
<1>3. QED
  BY <1>1, <1>2 DEF AcceptedMailIsKept, PostIsDistributed, Handled

\* The open flush submits a copy or puts one back.
LEMMA FlushTxStep ==
    ASSUME IInv, tx' \in FlushTx,
           UNCHANGED <<tables, outside, tries, settled, deleted, acked, refused>>,
           sent \subseteq sent', sent' \subseteq sent \cup Queued(queue, "out"),
           FlushInv(tx)'
    PROVE  IInv'
<1> USE DEF tables
<1>1. sent' \subseteq Copy
  BY QueuedDef DEF IInv, TypeOK, Row
<1>2. TypeOK'
  BY <1>1 DEF IInv, TypeOK
<1>3. Committed'
  BY DEF IInv, Committed, Known, Resent
<1>4. PostIsDistributed' /\ AcceptedMailIsKept'
  <2>1. \A c : c \in Handled(queue) => c \in Handled(queue)'
    BY DEF Handled
  <2>2. QED
    BY <2>1, StaysKept DEF IInv, AcceptedMailIsKept
<1>5. SentIsArchived'
  BY QueuedDef DEF IInv, SentIsArchived, Committed, Outgoing
<1>6. QED
  BY <1>2, <1>3, <1>4, <1>5, TxKinds DEF IInv

-------------------------------------------------------------------------------
(***************************************************************************)
(* Posting                                                                 *)
(***************************************************************************)

LEMMA PostFacts ==
    ASSUME IInv, tx.at \in {"list", "copies", "error", "drop", "commit"}
    PROVE  /\ TypeOK /\ tx \in PostTx /\ PostInv(tx) /\ Open
           /\ tx.job \in Submission /\ tx.job.id \in Mail /\ tx.job \notin Mail
           /\ tries[tx.job.id] > 0
<1>1. TypeOK /\ tx \in PostTx /\ PostInv(tx)
  BY TxIs DEF IInv
<1>2. tx.job \in Submission
  BY <1>1 DEF PostTx
<1>3. tx.job.id \in Mail /\ tx.job.try \in Try /\ tx.job \notin Mail
  BY <1>2, MailAssumption DEF Submission
<1>4. tries[tx.job.id] > 0
  BY <1>1, <1>3, MaxTriesAssumption DEF PostInv, TypeOK, Try
<1>5. QED
  BY <1>1, <1>2, <1>3, <1>4, TxKinds DEF Open

LEMMA SubmitStep ==
    ASSUME IInv, NEW m \in Mail, NEW dry \in DryRuns, Submit(m, dry)
    PROVE  IInv'
<1> USE DEF tables, history
<1> DEFINE job == [id |-> m, try |-> tries[m] + 1]
<1>1. TypeOK /\ tx = NoTx /\ tries[m] \in Nat /\ tries[m] < MaxTries
  BY TxIs, MaxTriesAssumption DEF IInv, TypeOK, Submit
<1>2. job \in Submission /\ job.id = m /\ job.try = tries[m] + 1 /\ job \notin Mail
  BY <1>1, MaxTriesAssumption, MailAssumption DEF Submission, Try
<1>3. /\ tries' \in [Mail -> 0..MaxTries] /\ tries'[m] = tries[m] + 1
      /\ \A k \in Mail : tries[k] <= tries'[k]
  BY <1>1, MaxTriesAssumption DEF Submit, TypeOK
<1>4. tx' \in PostTx
  BY <1>1, <1>2, ToAssumption, DryRunsAssumption DEF Submit, PostTx, TypeOK
<1>5. TypeOK'
  BY <1>1, <1>3, <1>4 DEF Submit, TypeOK
<1>6. \A c \in Copies(queue) \cup settled : c \in Copy
  BY <1>1, CopiesDef DEF TypeOK, Row
<1>7. Committed'
  <2>1. \A c \in Copies(queue) \cup settled : Known(c)'
    BY <1>1, <1>3, <1>6, TriesGrow DEF IInv, Committed
  <2>2. \A c \in settled : c \in Copies(queue) => Resent(c)'
    BY <1>1, <1>3, <1>6, TriesGrow DEF IInv, Committed
  <2>3. \A k \in outside : k.try <= tries'[k.id]
    BY <1>1, <1>3, MaxTriesAssumption DEF IInv, Committed, TypeOK, Submission, Try
  <2>4. QED
    BY <2>1, <2>2, <2>3 DEF Submit, IInv, Committed
<1>8. PostIsDistributed' /\ SentIsArchived' /\ AcceptedMailIsKept'
  BY DEF Submit, IInv, PostIsDistributed, SentIsArchived, AcceptedMailIsKept, Kept, Told
<1>9. PostInv(tx)'
  <2>1. /\ tx'.queue = queue /\ tx'.posts = posts /\ tx'.job = job /\ tx'.at = "list"
        /\ tx'.left = To[m]
    BY DEF Submit
  <2>2. \A c \in settled : Resent(c)' \/ (c \notin Copies(queue) /\ c.mid # job /\ c.mid # m)
    <3> SUFFICES ASSUME NEW c \in settled PROVE Resent(c)' \/ (c \notin Copies(queue) /\ c.mid # job /\ c.mid # m)
      OBVIOUS
    <3>1. Known(c) /\ (c \in Copies(queue) => Resent(c)') /\ c \in Copy
      BY <1>1, <1>3, <1>6, TriesGrow DEF IInv, Committed
    <3>2. c.mid # job
      BY <1>1, <1>2, <3>1 DEF Known
    <3>3. c.mid = m => Resent(c)'
      BY <1>1, <1>3, <3>1 DEF Known, Resent
    <3>4. QED
      BY <3>1, <3>2, <3>3
  <2>3. CopyTo("sender", job) \notin Copies(queue)
    <3>1. \A c \in Copies(queue) : Known(c)
      BY DEF IInv, Committed
    <3>2. ~Known(CopyTo("sender", job))
      BY <1>1, <1>2 DEF Known, CopyTo
    <3>3. QED
      BY <3>1, <3>2
  <2>4. \A c \in Copies(queue) : Known(c)'
    BY <1>1, <1>3, <1>6, TriesGrow DEF IInv, Committed
  <2>5. Filed(posts, m, To[m] \ To[m])
    BY DEF Filed
  <2>6. \A p \in posts : \A a \in p.recipients : CopyTo(a, p.mid) \in Handled(queue)'
    BY DEF IInv, PostIsDistributed, Handled, Submit
  <2>7. job.try <= tries'[m]
    BY <1>1, <1>2, <1>3
  <2>8. queue' = queue /\ posts' = posts /\ settled' = settled /\ sent' = sent /\ deleted' = deleted
    BY DEF Submit
  <2>9. Unique(queue) /\ Outgoing(queue, posts)
    BY DEF IInv, Committed
  <2>10. QED
    BY <1>2, <2>1, <2>2, <2>3, <2>4, <2>5, <2>6, <2>7, <2>8, <2>9 DEF PostInv
<1>10. QED
  BY <1>4, <1>5, <1>7, <1>8, <1>9, TxKinds DEF IInv

LEMMA PostFailsStep ==
    ASSUME IInv, PostFails
    PROVE  IInv'
<1>1. tx \in PostTx /\ PostInv(tx)
  BY PostFacts DEF PostFails, At
<1>2. tx' \in PostTx
  BY <1>1 DEF PostFails, PostTx
<1>3. PostInv(tx')
  BY <1>1 DEF PostFails, PostTx, PostInv, At
<1>4. QED
  BY <1>2, <1>3, PostTxStep DEF PostFails

LEMMA AcceptPostStep ==
    ASSUME IInv, NEW l \in List, NEW S \in SUBSET Address, AcceptPost(l, S)
    PROVE  IInv'
<1> DEFINE new == [list |-> l, mid |-> tx.job.id, recipients |-> S]
<1>1. /\ tx \in PostTx /\ PostInv(tx) /\ tx.at = "list" /\ tx.job.id \in Mail
  BY PostFacts DEF AcceptPost, Examined, At
<1>2. new \in Post
  BY <1>1 DEF Post
<1>3. tx' \in PostTx
  BY <1>1, <1>2 DEF AcceptPost, PostTx
<1>4. /\ tx'.queue = tx.queue /\ tx'.posts = tx.posts \cup {new} /\ tx'.job = tx.job
      /\ tx'.at = "copies" /\ tx'.left = tx.left \ {l} /\ tx'.recipients = S
  BY <1>1 DEF AcceptPost, PostTx
<1>5. Outgoing(tx.queue, tx.posts \cup {new})
  BY <1>1 DEF PostInv, Outgoing
<1>6. new.list = l /\ new.mid = tx.job.id /\ new.recipients = S
  OBVIOUS
<1>7. Filed(tx.posts \cup {new}, tx.job.id, To[tx.job.id] \ (tx.left \ {l}))
  <2>1. Filed(tx.posts, tx.job.id, To[tx.job.id] \ tx.left)
    BY <1>1 DEF PostInv
  <2>2. QED
    BY <2>1, <1>6 DEF Filed
<1>8. \A p \in tx.posts \cup {new} : \A a \in p.recipients :
        CopyTo(a, p.mid) \in Handled(tx.queue) \/ (p.mid = tx.job.id /\ a \in S)
  BY <1>1, <1>6 DEF PostInv
<1>9. \E p \in tx.posts \cup {new} : p.mid = tx.job.id /\ S \subseteq p.recipients
  BY <1>6
<1>10. PostInv(tx')
  BY <1>1, <1>4, <1>5, <1>7, <1>8, <1>9 DEF PostInv
<1>11. QED
  BY <1>3, <1>10, PostTxStep DEF AcceptPost

\* What an open post's queue must satisfy, whatever step it is at.
QueueOK(q) ==
    /\ q \subseteq Row /\ queue \subseteq q
    /\ Unique(q)
    /\ Outgoing(q, tx.posts)
    /\ \A c \in Copies(q) : Known(c)
    /\ \A c \in settled :
         Resent(c) \/ (c \notin Copies(q) /\ c.mid # tx.job /\ c.mid # tx.job.id)

LEMMA PostQueueOK ==
    ASSUME IInv, tx \in PostTx
    PROVE  QueueOK(tx.queue)
BY DEF IInv, PostInv, QueueOK, PostTx

\* A new entry for the submitted mail or its reply.
LEMMA EnqueueOK ==
    ASSUME IInv, tx.at \in {"list", "copies", "error"},
           NEW q, QueueOK(q), NEW w \in Which, NEW c \in Copy, c \notin Copies(q),
           c.mid = tx.job.id \/ c.mid = tx.job,
           w = "out" => /\ c.to # "header"
                        /\ c.mid \in Mail =>
                             \E p \in tx.posts : p.mid = c.mid /\ c.to \in p.recipients
    PROVE  QueueOK(q \cup {Entry(w, c)})
<1> DEFINE r == q \cup {Entry(w, c)}
<1>1. Entry(w, c) \in Row
  BY DEF Entry, Row
<1>2. Unique(r) /\ \A d : d \in Copies(r) <=> d \in Copies(q) \/ d = c
  BY AddRow DEF QueueOK
<1>3. Outgoing(r, tx.posts)
  BY EntryFields DEF QueueOK, Outgoing
<1>4. Known(c)
  <2>1. TypeOK /\ tx.job \in Submission /\ tx.job.id \in Mail /\ tx.job \notin Mail
        /\ tries[tx.job.id] > 0 /\ tx.job.try <= tries[tx.job.id] /\ tx.job.id \notin Submission
    BY PostFacts, MailAssumption DEF PostInv
  <2>2. QED
    BY <2>1 DEF Known
<1>5. \A d \in settled :
        Resent(d) \/ (d \notin Copies(r) /\ d.mid # tx.job /\ d.mid # tx.job.id)
  BY <1>2 DEF QueueOK
<1>6. QED
  BY <1>1, <1>2, <1>3, <1>4, <1>5 DEF QueueOK

LEMMA HandledGrows ==
    \A q, r : q \subseteq r => \A c : c \in Handled(q) => c \in Handled(r)
BY QueuedDef DEF Handled

\* A conflict, or the death of the process: the transaction is gone.
LEMMA RolledBackStep ==
    ASSUME IInv, tx.at \in {"list", "copies", "error", "drop", "commit"}, RolledBack
    PROVE  IInv'
<1>1. tx.job \in Submission /\ tx.job.try <= tries[tx.job.id]
  BY PostFacts DEF PostInv
<1>2. \A job \in outside : job.try <= tries[job.id]
  BY DEF IInv, Committed
<1>3. QED
  BY <1>1, <1>2, DropStep DEF RolledBack, IInv, TypeOK, history

LEMMA EnqueueCopyStep ==
    ASSUME IInv, NEW a \in Address, EnqueueCopy(a)
    PROVE  IInv'
<1> DEFINE c == CopyTo(a, tx.job.id)
           q == tx.queue \cup {Entry("out", c)}
<1>1. tx \in PostTx /\ PostInv(tx) /\ tx.at = "copies" /\ tx.job.id \in Mail
      /\ tx.job \in Submission /\ a \in tx.recipients
  BY PostFacts DEF EnqueueCopy, At
<1>2. CASE c \in Copies(tx.queue)
  BY <1>1, <1>2, RolledBackStep DEF EnqueueCopy, Enqueue
<1>3. CASE c \notin Copies(tx.queue)
  <2>1. tx' = [tx EXCEPT !.recipients = @ \ {a}, !.queue = q] /\ OnlyTx
    BY <1>1, <1>3 DEF EnqueueCopy, Enqueue, PostTx
  <2>2. /\ tx'.queue = q /\ tx'.posts = tx.posts /\ tx'.job = tx.job /\ tx'.at = "copies"
        /\ tx'.left = tx.left /\ tx'.recipients = tx.recipients \ {a}
    BY <1>1, <2>1 DEF PostTx
  <2>3. c \in Copy /\ c.mid = tx.job.id /\ c.to = a /\ c.to # "header"
    BY <1>1, AddressAssumption DEF Copy, CopyTo, Mid
  <2>4. \E p \in tx.posts : p.mid = tx.job.id /\ tx.recipients \subseteq p.recipients
    BY <1>1 DEF PostInv
  <2>5. QueueOK(q)
    BY <1>1, <1>3, <2>3, <2>4, PostQueueOK, EnqueueOK DEF Which
  <2>6. tx' \in PostTx
    BY <1>1, <2>1, <2>5 DEF PostTx, QueueOK
  <2>7. \A p \in tx.posts : \A b \in p.recipients :
          \/ CopyTo(b, p.mid) \in Handled(q)
          \/ p.mid = tx.job.id /\ b \in tx.recipients \ {a}
    <3>1. c \in Handled(q)
      BY AddRow DEF Handled
    <3>2. QED
      BY <1>1, <3>1, HandledGrows DEF PostInv
  <2>8. CopyTo("sender", tx.job) \notin Copies(q)
    <3>1. CopyTo("sender", tx.job) # c
      BY <1>1, PostFacts DEF CopyTo
    <3>2. CopyTo("sender", tx.job) \notin Copies(tx.queue)
      BY <1>1 DEF PostInv
    <3>3. \A d : d \in Copies(q) <=> d \in Copies(tx.queue) \/ d = c
      BY CopiesDef, EntryFields
    <3>4. QED
      BY <3>1, <3>2, <3>3
  <2>9. PostInv(tx')
    BY <1>1, <2>2, <2>4, <2>5, <2>7, <2>8 DEF PostInv, QueueOK
  <2>10. QED
    BY <2>1, <2>6, <2>9, PostTxStep
<1>4. QED
  BY <1>2, <1>3

LEMMA ListDoneStep ==
    ASSUME IInv, ListDone
    PROVE  IInv'
<1>1. tx \in PostTx /\ PostInv(tx) /\ tx.at = "copies" /\ tx.recipients = {}
  BY PostFacts DEF ListDone, At
<1>2. tx' \in PostTx
  BY <1>1 DEF ListDone, PostTx
<1>3. /\ tx'.queue = tx.queue /\ tx'.posts = tx.posts /\ tx'.job = tx.job
      /\ tx'.at = (IF tx.left = {} THEN "commit" ELSE "list")
      /\ tx'.left = tx.left /\ tx'.recipients = tx.recipients
  BY <1>1 DEF ListDone, PostTx
<1>4. tx.left = {} => Filed(tx.posts, tx.job.id, To[tx.job.id])
  BY <1>1 DEF PostInv, Filed
<1>5. PostInv(tx')
  BY <1>1, <1>3, <1>4 DEF PostInv
<1>6. QED
  BY <1>2, <1>5, PostTxStep DEF ListDone

\* The reply to the submission being served is new.
LEMMA ReplyOK ==
    ASSUME IInv, tx.at = "list"
    PROVE  LET q == tx.queue \cup {Reply}
           IN  /\ QueueOK(q)
               /\ CopyTo("sender", tx.job) \in Queued(q, "out")
               /\ \A c \in Copies(q) : c \in Copies(tx.queue) \/ c = CopyTo("sender", tx.job)
<1> DEFINE c == CopyTo("sender", tx.job)
           q == tx.queue \cup {Entry("out", c)}
<1>1. tx \in PostTx /\ tx.job \in Submission /\ tx.job \notin Mail /\ c \notin Copies(tx.queue)
  BY PostFacts DEF PostInv
<1>2. c \in Copy /\ c.mid = tx.job /\ c.to = "sender"
  BY <1>1 DEF Copy, CopyTo, Mid
<1>3. QueueOK(q)
  BY <1>1, <1>2, PostQueueOK, EnqueueOK DEF Which
<1>4. c \in Queued(q, "out") /\ \A d : d \in Copies(q) <=> d \in Copies(tx.queue) \/ d = c
  BY AddRow
<1>5. QED
  BY <1>3, <1>4 DEF Reply

LEMMA RejectPostStep ==
    ASSUME IInv, NEW l \in List, RejectPost(l)
    PROVE  IInv'
<1> DEFINE q == tx.queue \cup {Reply}
<1>1. tx \in PostTx /\ PostInv(tx) /\ tx.at = "list"
  BY PostFacts DEF RejectPost, Examined, At
<1>2. QueueOK(q) /\ CopyTo("sender", tx.job) \in Queued(q, "out")
  BY <1>1, ReplyOK
<1>3. /\ tx'.queue = q /\ tx'.posts = tx.posts /\ tx'.job = tx.job /\ tx'.at = "commit"
      /\ tx' \in PostTx
  BY <1>1, <1>2 DEF RejectPost, PostTx, QueueOK
<1>4. \A p \in tx.posts : \A a \in p.recipients : CopyTo(a, p.mid) \in Handled(q)
  BY <1>1, HandledGrows DEF PostInv
<1>5. PostInv(tx')
  BY <1>1, <1>2, <1>3, <1>4 DEF PostInv, QueueOK
<1>6. QED
  BY <1>3, <1>5, PostTxStep DEF RejectPost

\* A post that keeps the mail itself, in queue `q`, ends with the row that does.
LEMMA KeepStep ==
    ASSUME IInv, tx.at = "list", OnlyTx, NEW q, QueueOK(q), tx.queue \subseteq q,
           tx' = [tx EXCEPT !.at = "commit", !.queue = q],
           Header(tx.job.id) \in Queued(q, "hold") \cup Queued(q, "deferred")
    PROVE  IInv'
<1>1. tx \in PostTx /\ PostInv(tx)
  BY PostFacts
<1>2. /\ tx'.queue = q /\ tx'.posts = tx.posts /\ tx'.job = tx.job /\ tx'.at = "commit"
      /\ tx' \in PostTx
  BY <1>1 DEF PostTx, QueueOK
<1>3. \A p \in tx.posts : \A a \in p.recipients : CopyTo(a, p.mid) \in Handled(q)
  BY <1>1, HandledGrows DEF PostInv
<1>4. PostInv(tx')
  BY <1>1, <1>2, <1>3 DEF PostInv, QueueOK
<1>5. QED
  BY <1>2, <1>4, PostTxStep

LEMMA HeaderFacts ==
    ASSUME IInv, tx.at \in {"list", "error"}
    PROVE  LET c == Header(tx.job.id)
           IN  c \in Copy /\ c.mid = tx.job.id /\ c # CopyTo("sender", tx.job)
BY PostFacts DEF Header, CopyTo, Copy, Mid

LEMMA DeferPostStep ==
    ASSUME IInv, NEW l \in List, DeferPost(l)
    PROVE  IInv'
<1> DEFINE c == Header(tx.job.id)
           r == tx.queue \cup {Reply}
           q == r \cup {Entry("deferred", c)}
<1>1. tx \in PostTx /\ tx.at = "list"
  BY PostFacts DEF DeferPost, Examined, At
<1>2. CASE c \in Copies(tx.queue)
  BY <1>1, <1>2, RolledBackStep DEF DeferPost, Enqueue
<1>3. CASE c \notin Copies(tx.queue)
  <2>1. tx' = [tx EXCEPT !.at = "commit", !.queue = q] /\ OnlyTx
    BY <1>1, <1>3 DEF DeferPost, Enqueue, PostTx
  <2>2. c \in Copy /\ c.mid = tx.job.id /\ c # CopyTo("sender", tx.job)
    BY <1>1, HeaderFacts
  <2>3. QueueOK(r) /\ c \notin Copies(r)
    BY <1>1, <1>3, <2>2, ReplyOK
  <2>4. QueueOK(q)
    BY <1>1, <2>2, <2>3, EnqueueOK DEF Which
  <2>5. c \in Queued(q, "deferred")
    BY AddRow
  <2>6. QED
    BY <1>1, <2>1, <2>4, <2>5, KeepStep
<1>4. QED
  BY <1>2, <1>3

LEMMA HoldPostStep ==
    ASSUME IInv, NEW l \in List, HoldPost(l)
    PROVE  IInv'
<1> DEFINE c == Header(tx.job.id)
           q == tx.queue \cup {Entry("hold", c)}
<1>1. tx \in PostTx /\ tx.at = "list"
  BY PostFacts DEF HoldPost, Examined, At
<1>2. CASE c \in Copies(tx.queue)
  BY <1>1, <1>2, RolledBackStep DEF HoldPost, Enqueue
<1>3. CASE c \notin Copies(tx.queue)
  <2>1. tx' = [tx EXCEPT !.at = "commit", !.queue = q] /\ OnlyTx
    BY <1>1, <1>3 DEF HoldPost, Enqueue, PostTx
  <2>2. QueueOK(q)
    BY <1>1, <1>3, HeaderFacts, PostQueueOK, EnqueueOK DEF Which
  <2>3. c \in Queued(q, "hold")
    BY AddRow
  <2>4. QED
    BY <1>1, <2>1, <2>2, <2>3, KeepStep
<1>4. QED
  BY <1>2, <1>3

LEMMA RecordErrorStep ==
    ASSUME IInv, RecordError
    PROVE  IInv'
<1> DEFINE c == Header(tx.job.id)
           q == tx.queue \cup {Entry("error", c)}
<1>1. tx \in PostTx /\ PostInv(tx) /\ tx.at = "error" /\ tx.job.id \in Mail
  BY PostFacts DEF RecordError, At
<1>2. CASE c \in Copies(tx.queue)
  <2>1. \A job \in outside : job.try <= tries[job.id]
    BY DEF IInv, Committed
  <2>2. QED
    BY <1>1, <1>2, <2>1, DropStep DEF RecordError, IInv, TypeOK
<1>3. CASE c \notin Copies(tx.queue)
  <2>1. tx' = [tx EXCEPT !.at = "drop", !.queue = q] /\ OnlyTx
    BY <1>1, <1>3 DEF RecordError
  <2>2. QueueOK(q)
    BY <1>1, <1>3, HeaderFacts, PostQueueOK, EnqueueOK DEF Which
  <2>3. /\ tx'.queue = q /\ tx'.posts = tx.posts /\ tx'.job = tx.job /\ tx'.at = "drop"
        /\ tx' \in PostTx
    BY <1>1, <2>1, <2>2 DEF PostTx, QueueOK
  <2>4. \A p \in tx.posts : \A a \in p.recipients : CopyTo(a, p.mid) \in Handled(q)
    BY <1>1, HandledGrows DEF PostInv
  <2>5. PostInv(tx')
    BY <1>1, <2>2, <2>3, <2>4 DEF PostInv, QueueOK
  <2>6. QED
    BY <2>1, <2>3, <2>5, PostTxStep
<1>4. QED
  BY <1>2, <1>3

LEMMA CommitPostStep ==
    ASSUME IInv, CommitPost
    PROVE  IInv'
<1> USE DEF tables
<1>1. /\ TypeOK /\ tx \in PostTx /\ PostInv(tx) /\ tx.at = "commit"
      /\ tx.job \in Submission /\ tx.job.id \in Mail
  BY PostFacts DEF CommitPost, At
<1>2. TypeOK'
  BY <1>1 DEF CommitPost, TypeOK, PostTx
<1>3. Committed'
  <2>1. \A c : Known(c)' <=> Known(c)
    BY DEF CommitPost, Known
  <2>2. \A c : Resent(c)' <=> Resent(c)
    BY DEF CommitPost, Resent
  <2>3. QED
    BY <1>1, <2>1, <2>2 DEF CommitPost, IInv, Committed, PostInv
<1>4. PostIsDistributed'
  BY <1>1 DEF CommitPost, PostInv, PostIsDistributed, Handled
<1>5. SentIsArchived'
  BY <1>1 DEF CommitPost, PostInv, IInv, SentIsArchived
<1>6. AcceptedMailIsKept'
  <2>1. queue \subseteq queue' /\ posts \subseteq posts'
    BY <1>1 DEF CommitPost, PostInv
  <2>2. \A c : c \in Queued(queue, "hold") \cup Queued(queue, "deferred") \cup deleted =>
                c \in (Queued(queue, "hold") \cup Queued(queue, "deferred") \cup deleted)'
    BY <2>1, QueuedDef DEF CommitPost
  <2>3. \A c : c \in Handled(queue) => c \in Handled(queue)'
    BY <2>1, QueuedDef DEF CommitPost, Handled
  <2>4. ASSUME NEW m \in acked
        PROVE  (\/ \A l \in To[m] : \E p \in posts : p.list = l /\ p.mid = m
                \/ Kept(m)
                \/ Told(m))'
    BY <2>1, <2>2, <2>3, StaysKept DEF IInv
  <2>5. PICK m \in Mail, t \in Try : tx.job = [id |-> m, try |-> t]
    BY <1>1 DEF Submission
  <2>6. (\/ \A l \in To[m] : \E p \in posts : p.list = l /\ p.mid = m
         \/ Kept(m)
         \/ Told(m))'
    <3>1. tx.job.id = m
      BY <2>5
    <3>2. CASE Filed(tx.posts, m, To[m])
      BY <3>2 DEF CommitPost, Filed
    <3>3. CASE Header(m) \in Queued(tx.queue, "hold") \cup Queued(tx.queue, "deferred")
      BY <3>3 DEF CommitPost, Kept
    <3>4. CASE CopyTo("sender", tx.job) \in Queued(tx.queue, "out")
      <4>1. Told(m)'
        BY <2>5, <3>4 DEF CommitPost, Told
      <4>2. QED
        BY <4>1
    <3>5. QED
      BY <1>1, <3>1, <3>2, <3>3, <3>4 DEF PostInv
  <2>7. acked' = acked \cup {m}
    BY <2>5 DEF CommitPost
  <2>8. QED
    BY <2>4, <2>6, <2>7 DEF AcceptedMailIsKept
<1>7. QED
  BY <1>2, <1>3, <1>4, <1>5, <1>6, TxKinds DEF CommitPost, IInv

\* The ends of a transaction that commit nothing.
LEMMA EndStep ==
    ASSUME IInv, DropTx \/ Crash \/ FlushFails \/ EndDryFlush
    PROVE  IInv'
<1>1. \A job \in outside : job.try <= tries[job.id]
  BY DEF IInv, Committed
<1>2. CASE DropTx
  BY <1>1, <1>2, PostFacts, DropStep DEF DropTx, At, IInv, TypeOK
<1>3. CASE Crash \/ FlushFails \/ EndDryFlush
  BY <1>1, <1>3, DropStep DEF Crash, FlushFails, EndDryFlush, OnlyTx, history, IInv, TypeOK
<1>4. QED
  BY <1>2, <1>3

\* A step beside the open transaction, which it leaves as it was.
LEMMA BesideStep ==
    ASSUME IInv, UNCHANGED <<tables, tx, sent, settled, deleted, acked>>,
           tries' \in [Mail -> 0..MaxTries], \A m \in Mail : tries[m] <= tries'[m],
           outside' \subseteq outside, refused' \subseteq Mail
    PROVE  IInv'
<1> USE DEF tables
<1>1. TypeOK'
  BY DEF IInv, TypeOK
<1>2. /\ queue \subseteq Row /\ settled \subseteq Copy /\ outside \subseteq Submission
      /\ tx \in PostTx => tx.queue \subseteq Row /\ tx.job \in Submission
  BY DEF IInv, TypeOK, PostTx
<1>3. \A c \in Copy : (Known(c) => Known(c)') /\ (Resent(c) => Resent(c)')
  BY TriesGrow DEF IInv
<1>4. \A q : q \subseteq Row => Copies(q) \subseteq Copy
  BY CopiesDef DEF Row
<1>5. \A job \in Submission : job.try <= tries[job.id] => job.try <= tries'[job.id]
  BY MaxTriesAssumption DEF IInv, TypeOK, Submission, Try
<1>6. Committed'
  BY <1>2, <1>3, <1>4, <1>5 DEF IInv, Committed
<1>7. PostIsDistributed' /\ SentIsArchived' /\ AcceptedMailIsKept'
  BY DEF IInv, PostIsDistributed, SentIsArchived, AcceptedMailIsKept, Kept, Told
<1>8. tx \in PostTx => PostInv(tx)'
  <2> SUFFICES ASSUME tx \in PostTx PROVE PostInv(tx)'
    OBVIOUS
  <2>1. \A c \in Copies(tx.queue) : Known(c)'
    BY <1>2, <1>3, <1>4 DEF IInv, PostInv
  <2>2. \A c \in settled :
          Resent(c)' \/ (c \notin Copies(tx.queue) /\ c.mid # tx.job /\ c.mid # tx.job.id)
    BY <1>2, <1>3 DEF IInv, PostInv
  <2>3. QED
    BY <1>2, <1>5, <2>1, <2>2 DEF IInv, PostInv, Handled
<1>9. tx \in FlushTx => FlushInv(tx)'
  BY DEF IInv, FlushInv
<1>10. QED
  BY <1>1, <1>6, <1>7, <1>8, <1>9 DEF IInv

LEMMA SubmitBusyStep ==
    ASSUME IInv, NEW m \in Mail, SubmitBusy(m)
    PROVE  IInv'
<1>1. tries' \in [Mail -> 0..MaxTries] /\ \A k \in Mail : tries[k] <= tries'[k]
  BY MaxTriesAssumption DEF SubmitBusy, IInv, TypeOK
<1>2. QED
  BY <1>1, BesideStep DEF SubmitBusy, history, IInv, TypeOK

LEMMA RecordOutsideStep ==
    ASSUME IInv, NEW job \in outside, RecordOutside(job) \/ CrashOutside(job)
    PROVE  IInv'
<1> DEFINE c == Header(job.id)
<1>1. TypeOK /\ job \in Submission /\ job.id \in Mail
  BY DEF IInv, TypeOK, Submission
<1>2. tries \in [Mail -> 0..MaxTries] /\ \A m \in Mail : tries[m] <= tries[m]
  BY <1>1, MaxTriesAssumption DEF TypeOK
<1>3. CASE queue' = queue
  BY <1>1, <1>2, <1>3, BesideStep DEF RecordOutside, CrashOutside, tables, history, TypeOK
<1>4. CASE RecordOutside(job) /\ queue' # queue
  <2>1. /\ tx = NoTx /\ tx' = NoTx /\ c \notin Copies(queue)
        /\ queue' = queue \cup {Entry("error", c)}
    BY <1>1, <1>4, TxIs DEF RecordOutside
  <2>2. c \in Copy /\ c.mid = job.id /\ c.to = "header"
    BY <1>1 DEF Header, CopyTo, Copy, Mid
  <2>3. TypeOK'
    BY <1>1, <1>4, <2>1, <2>2 DEF RecordOutside, TypeOK, Entry, Row, Which
  <2>4. Known(c)
    <3>1. job.try \in Try /\ job.try <= tries[job.id] /\ job.id \notin Submission
      BY <1>1, MailAssumption DEF Submission, IInv, Committed
    <3>2. QED
      BY <1>1, <2>2, <3>1, MaxTriesAssumption DEF Known, Try, TypeOK
  <2>5. /\ Unique(queue') /\ \A d : d \in Copies(queue') <=> d \in Copies(queue) \/ d = c
        /\ \A w, d : w # "error" => (d \in Queued(queue', w) <=> d \in Queued(queue, w))
    BY <2>1, AddRow DEF IInv, Committed
  <2>6. Committed'
    <3>1. Outgoing(queue', posts)
      BY <2>1, EntryFields DEF IInv, Committed, Outgoing
    <3>2. \A d \in Copies(queue') \cup settled : Known(d)
      BY <2>4, <2>5 DEF IInv, Committed
    <3>3. \A d \in settled : d.to # "header" /\ (d \in Copies(queue') => Resent(d))
      BY <2>2, <2>5 DEF IInv, Committed
    <3>4. \A k \in outside' : k.try <= tries[k.id]
      BY <1>4 DEF RecordOutside, IInv, Committed
    <3>5. QED
      BY <1>4, <2>5, <3>1, <3>2, <3>3, <3>4 DEF RecordOutside, Committed, Known, Resent
  <2>7. PostIsDistributed' /\ SentIsArchived' /\ AcceptedMailIsKept'
    BY <1>4, <2>5 DEF RecordOutside, IInv, PostIsDistributed, SentIsArchived,
                      AcceptedMailIsKept, Kept, Told
  <2>8. QED
    BY <2>1, <2>3, <2>6, <2>7, TxKinds DEF IInv
<1>5. QED
  BY <1>3, <1>4 DEF CrashOutside, tables

-------------------------------------------------------------------------------
(***************************************************************************)
(* Flushing and deleting                                                   *)
(***************************************************************************)

LEMMA FlushFacts ==
    ASSUME IInv, At("flush")
    PROVE  /\ TypeOK /\ tx \in FlushTx /\ FlushInv(tx)
           /\ Unique(queue) /\ Outgoing(queue, posts)
BY TxIs DEF IInv, Committed

LEMMA OpenFlushStep ==
    ASSUME IInv, NEW dry \in DryRuns, OpenFlush(dry)
    PROVE  IInv'
<1>1. TypeOK /\ Unique(queue)
  BY DEF IInv, Committed
<1>2. Queued(queue, "out") \subseteq Copy /\ queue \ Rows(queue, "out") \subseteq Row
  BY <1>1, QueuedDef DEF TypeOK, Row
<1>3. tx' \in FlushTx
  BY <1>2, DryRunsAssumption DEF OpenFlush, FlushTx
<1>4. /\ tx'.queue = queue \ Rows(queue, "out") /\ tx'.batch = Queued(queue, "out")
      /\ tx'.failed = {}
  BY DEF OpenFlush
<1>5. UNCHANGED <<queue, posts, outside, tries, sent, settled, deleted, acked, refused>>
  BY DEF OpenFlush, OnlyTx, tables, history
<1>6. Queued(queue, "out") \cap Copies(queue \ Rows(queue, "out")) = {}
  BY <1>1, QueuedDef, CopiesDef DEF Unique, Rows
<1>7. FlushInv(tx)'
  BY <1>1, <1>4, <1>5, <1>6 DEF FlushInv, Unique, Rows
<1>8. QED
  BY <1>3, <1>5, <1>7, FlushTxStep DEF tables

\* A copy leaves the batch, sent or failed.
LEMMA SubmitCopyStep ==
    ASSUME IInv, NEW c \in Copy, SendCopy(c) \/ SendFails(c)
    PROVE  IInv'
<1>1. tx \in FlushTx /\ FlushInv(tx) /\ c \in tx.batch /\ c \in Queued(queue, "out")
  BY FlushFacts DEF SendCopy, SendFails, FlushInv
<1>2. UNCHANGED <<queue, posts, outside, tries, settled, deleted, acked, refused>>
  BY DEF SendCopy, SendFails, tables
<1>3. sent \subseteq sent' /\ sent' \subseteq sent \cup {c}
  BY DEF SendCopy, SendFails
<1>4. tx' \in FlushTx /\ tx'.queue = tx.queue /\ tx'.dry = tx.dry /\ tx'.batch = tx.batch \ {c}
  <2>1. CASE SendCopy(c)
    <3>1. tx' = [tx EXCEPT !.batch = tx.batch \ {c}]
      BY <2>1 DEF SendCopy
    <3>2. QED
      BY <1>1, <3>1 DEF FlushTx
  <2>2. CASE SendFails(c)
    <3>1. tx' = [tx EXCEPT !.batch = tx.batch \ {c}, !.failed = tx.failed \cup {c}]
      BY <2>2 DEF SendFails
    <3>2. QED
      BY <1>1, <3>1 DEF FlushTx
  <2>3. QED
    BY <2>1, <2>2
<1>5. tx'.failed = tx.failed \/ tx'.failed = tx.failed \cup {c}
  BY <1>1 DEF SendCopy, SendFails, FlushTx
<1>6. tx.dry \/ c \in sent' \/ c \in tx'.failed
  BY <1>1 DEF SendCopy, SendFails, FlushTx
<1>7. FlushInv(tx)'
  BY <1>1, <1>2, <1>3, <1>4, <1>5, <1>6 DEF FlushInv
<1>8. QED
  BY <1>1, <1>2, <1>3, <1>4, <1>7, FlushTxStep DEF tables

LEMMA ReinsertStep ==
    ASSUME IInv, NEW c \in Copy, Reinsert(c)
    PROVE  IInv'
<1> DEFINE q == tx.queue \cup {Entry("deferred", c)}
<1>1. /\ tx \in FlushTx /\ FlushInv(tx) /\ tx.batch = {} /\ c \in tx.failed
      /\ c \in Queued(queue, "out") /\ c \notin Copies(tx.queue)
  BY FlushFacts DEF Reinsert, FlushInv
<1>2. UNCHANGED <<queue, posts, outside, tries, sent, settled, deleted, acked, refused>>
  BY DEF Reinsert, OnlyTx, tables, history
<1>3. Entry("deferred", c) \in Row
  BY DEF Entry, Row, Which
<1>4. /\ tx' \in FlushTx /\ tx'.queue = q /\ tx'.dry = tx.dry /\ tx'.batch = {}
      /\ tx'.failed = tx.failed \ {c}
  BY <1>1, <1>3 DEF Reinsert, FlushTx
<1>5. /\ Unique(q) /\ \A d : d \in Copies(q) <=> d \in Copies(tx.queue) \/ d = c
      /\ \A d : d \in Queued(q, "deferred") <=> d \in Queued(tx.queue, "deferred") \/ d = c
  <2>1. Unique(q)
    BY <1>1, CopiesDef, EntryFields DEF FlushInv, Unique
  <2>2. \A d : d \in Copies(q) <=> d \in Copies(tx.queue) \/ d = c
    BY CopiesDef, EntryFields
  <2>3. \A d : d \in Queued(q, "deferred") <=> d \in Queued(tx.queue, "deferred") \/ d = c
    BY QueuedDef, EntryFields
  <2>4. QED
    BY <2>1, <2>2, <2>3
<1>6. \A r \in q : \/ r \in queue /\ r.which # "out"
                   \/ r.which = "deferred" /\ r.copy \in Queued(queue, "out")
  BY <1>1, EntryFields DEF FlushInv
<1>7. FlushInv(tx)'
  BY <1>1, <1>2, <1>4, <1>5, <1>6 DEF FlushInv
<1>8. QED
  BY <1>2, <1>4, <1>7, FlushTxStep DEF tables

\* What the commit of a flush does to the queue.
LEMMA FlushEffect ==
    ASSUME IInv, CommitFlush
    PROVE  /\ \A c : c \in Queued(queue, "out") => c \in sent \/ c \in Queued(queue', "deferred")
           /\ \A c, w : w # "out" /\ c \in Queued(queue, w) => c \in Queued(queue', w)
           /\ \A r \in queue' : \/ r \in queue /\ r.which # "out"
                                \/ r.which = "deferred" /\ r.copy \in Queued(queue, "out")
           /\ Unique(queue')
           /\ settled' = settled \cup (Queued(queue, "out") \ Queued(queue', "deferred"))
<1>1. /\ tx \in FlushTx /\ FlushInv(tx) /\ tx.batch = {} /\ tx.failed = {} /\ ~tx.dry
      /\ queue' = tx.queue
  BY FlushFacts DEF CommitFlush, Flushed
<1>2. \A c, w : w # "out" /\ c \in Queued(queue, w) => c \in Queued(queue', w)
  BY <1>1, QueuedDef DEF FlushInv, Rows
<1>3. QED
  BY <1>1, <1>2 DEF FlushInv, CommitFlush

LEMMA CommitFlushStep ==
    ASSUME IInv, CommitFlush
    PROVE  IInv'
<1>1. TypeOK /\ tx \in FlushTx /\ tx' = NoTx /\ queue' = tx.queue
      /\ UNCHANGED <<posts, outside, tries, sent, deleted, acked, refused>>
  BY FlushFacts DEF CommitFlush, Flushed
<1>2. \A c : c \in Queued(queue, "out") => c \in Copy /\ c \in Copies(queue) /\ c.to # "header"
  BY <1>1, QueuedDef, CopiesDef DEF TypeOK, Row, IInv, Committed, Outgoing
<1>3. TypeOK'
  BY <1>1, <1>2, FlushEffect DEF TypeOK, FlushTx
<1>4. Committed'
  <2>1. \A c \in Copies(queue') : c \in Copies(queue)
    BY FlushEffect, CopiesDef, QueuedDef
  <2>2. \A c \in settled' : c.to # "header" /\ Known(c) /\ (c \in Copies(queue') => Resent(c))
    <3> SUFFICES ASSUME NEW c \in settled'
                 PROVE  c.to # "header" /\ Known(c) /\ (c \in Copies(queue') => Resent(c))
      OBVIOUS
    <3>1. CASE c \in settled
      BY <2>1, <3>1 DEF IInv, Committed
    <3>2. CASE c \in Queued(queue, "out") /\ c \notin Queued(queue', "deferred")
      <4>1. c \notin Copies(queue')
        BY <3>2, FlushEffect, CopiesDef, QueuedDef DEF IInv, Committed, Unique
      <4>2. QED
        BY <1>2, <3>2, <4>1 DEF IInv, Committed
    <3>3. QED
      BY <3>1, <3>2, FlushEffect
  <2>3. Outgoing(queue', posts)
    BY FlushEffect DEF Outgoing
  <2>4. QED
    BY <1>1, <2>1, <2>2, <2>3, FlushEffect DEF IInv, Committed, Known, Resent
<1>5. PostIsDistributed' /\ AcceptedMailIsKept'
  <2>1. \A c : c \in Queued(queue, "hold") \cup Queued(queue, "deferred") \cup deleted =>
                c \in (Queued(queue, "hold") \cup Queued(queue, "deferred") \cup deleted)'
    BY <1>1, FlushEffect
  <2>2. \A c : c \in Handled(queue) => c \in Handled(queue)'
    BY <1>1, FlushEffect DEF Handled
  <2>3. QED
    BY <1>1, <2>1, <2>2, StaysKept DEF IInv, AcceptedMailIsKept
<1>6. SentIsArchived'
  BY <1>1 DEF IInv, SentIsArchived
<1>7. QED
  BY <1>1, <1>3, <1>4, <1>5, <1>6, TxKinds DEF IInv

LEMMA DeleteStep ==
    ASSUME IInv, NEW w \in Which, NEW S \in SUBSET Rows(queue, w), DeleteFromQueue(w, S)
    PROVE  IInv'
<1>1. /\ TypeOK /\ tx = NoTx /\ tx' = NoTx /\ queue' = queue \ S /\ S \subseteq queue
      /\ deleted' = deleted \cup Copies(S)
      /\ UNCHANGED <<posts, outside, tries, sent, settled, acked, refused>>
  BY TxIs DEF IInv, DeleteFromQueue, Rows
<1>2. TypeOK'
  BY <1>1, CopiesDef DEF TypeOK, Row
<1>3. \A c \in Copies(queue') : c \in Copies(queue)
  BY <1>1, CopiesDef
<1>4. Committed'
  BY <1>1, <1>3 DEF IInv, Committed, Unique, Outgoing, Known, Resent
<1>5. \A c, v : c \in Queued(queue, v) => c \in Queued(queue', v) \/ c \in deleted'
  BY <1>1, QueuedDef, CopiesDef
<1>6. PostIsDistributed' /\ AcceptedMailIsKept'
  <2>1. \A c : c \in Queued(queue, "hold") \cup Queued(queue, "deferred") \cup deleted =>
                c \in (Queued(queue, "hold") \cup Queued(queue, "deferred") \cup deleted)'
    BY <1>1, <1>5
  <2>2. \A c : c \in Handled(queue) => c \in Handled(queue)'
    BY <1>1, <1>5 DEF Handled
  <2>3. QED
    BY <1>1, <2>1, <2>2, StaysKept DEF IInv, AcceptedMailIsKept
<1>7. SentIsArchived'
  BY <1>1 DEF IInv, SentIsArchived
<1>8. QED
  BY <1>1, <1>2, <1>4, <1>6, <1>7, TxKinds DEF IInv

-------------------------------------------------------------------------------
(***************************************************************************)
(* The invariant                                                           *)
(***************************************************************************)

LEMMA NextIInv == IInv /\ [Next]_vars => IInv'
<1> SUFFICES ASSUME IInv, [Next]_vars PROVE IInv'
  OBVIOUS
<1>1. CASE \E m \in Mail : SubmitBusy(m) \/ \E dry \in DryRuns : Submit(m, dry)
  BY <1>1, SubmitBusyStep, SubmitStep
<1>2. CASE PostStep
  <2>1. CASE PostFails \/ ListDone \/ RecordError \/ DropTx \/ CommitPost
    BY <2>1, PostFailsStep, ListDoneStep, RecordErrorStep, EndStep, CommitPostStep
  <2>2. CASE \E l \in List : \/ \E S \in SUBSET Address : AcceptPost(l, S)
                            \/ RejectPost(l) \/ DeferPost(l) \/ HoldPost(l)
    BY <2>2, AcceptPostStep, RejectPostStep, DeferPostStep, HoldPostStep
  <2>3. CASE \E a \in Address : EnqueueCopy(a)
    BY <2>3, EnqueueCopyStep
  <2>4. QED
    BY <1>2, <2>1, <2>2, <2>3 DEF PostStep
<1>3. CASE \E job \in outside : RecordOutside(job) \/ CrashOutside(job)
  BY <1>3, RecordOutsideStep
<1>4. CASE \E dry \in DryRuns : OpenFlush(dry)
  BY <1>4, OpenFlushStep
<1>5. CASE FlushStep \/ FlushFails \/ Crash
  BY <1>5, SubmitCopyStep, ReinsertStep, CommitFlushStep, EndStep DEF FlushStep
<1>6. CASE \E w \in Which : \E S \in SUBSET Rows(queue, w) : DeleteFromQueue(w, S)
  BY <1>6, DeleteStep
<1>7. CASE UNCHANGED vars
  <2>1. UNCHANGED <<queue, posts, tx, outside, tries, sent, settled, deleted, acked, refused>>
    BY <1>7 DEF vars, tables, history
  <2>2. tries \in [Mail -> 0..MaxTries] /\ refused \subseteq Mail
    BY DEF IInv, TypeOK
  <2>3. \A m \in Mail : tries[m] <= tries[m]
    BY <2>2, MaxTriesAssumption
  <2>4. QED
    BY <2>1, <2>2, <2>3, BesideStep DEF tables
<1>8. QED
  BY <1>1, <1>2, <1>3, <1>4, <1>5, <1>6, <1>7 DEF Next

LEMMA Invariance == Spec => []IInv
BY InitIInv, NextIInv, PTL DEF Spec

-------------------------------------------------------------------------------
(***************************************************************************)
(* Theorems                                                                *)
(***************************************************************************)

\* The state is well-typed.
THEOREM TypeCorrect == Spec => []TypeOK
<1>1. IInv => TypeOK
  BY DEF IInv
<1>2. QED
  BY <1>1, Invariance, PTL

\* However posts, flushes, crashes and deletions interleave, an archived post
\* is distributed: no rolled back or interrupted command leaves part of its
\* work in the tables.
THEOREM EveryPostIsDistributed == Spec => []PostIsDistributed
<1>1. IInv => PostIsDistributed
  BY DEF IInv
<1>2. QED
  BY <1>1, Invariance, PTL

\* No copy is handed to the outgoing mail server for a mail that the archive
\* does not hold.
THEOREM OnlyArchivedIsSent == Spec => []SentIsArchived
<1>1. IInv => SentIsArchived
  BY DEF IInv
<1>2. QED
  BY <1>1, Invariance, PTL

\* If `mpot post` reports success, the mail is archived for all of its lists,
\* or kept, or the sender gets an answer.
THEOREM SuccessIsKept == Spec => []AcceptedMailIsKept
<1>1. IInv => AcceptedMailIsKept
  BY DEF IInv
<1>2. QED
  BY <1>1, Invariance, PTL

\* The inserts by which a flush puts its failures back never find their key
\* taken, so that a flush is never rolled back after it has sent mail.
THEOREM DeferIsSafe == Spec => []DeferNeverConflicts
<1>1. IInv => DeferNeverConflicts
  <2> SUFFICES ASSUME IInv, At("flush") PROVE (tx.batch \cup tx.failed) \cap Copies(tx.queue) = {}
    BY DEF DeferNeverConflicts
  <2>1. QED
    BY FlushFacts DEF FlushInv
<1>2. QED
  BY <1>1, Invariance, PTL

\* A copy that was settled by a committed flush is in a later flush only if its
\* mail was submitted again.
THEOREM SettledOnceHolds == Spec => []SettledOnce
<1>1. IInv => SettledOnce
  <2> SUFFICES ASSUME IInv, At("flush"), NEW c \in tx.batch \cap settled
               PROVE  c.mid \in Mail /\ tries[c.mid] > 1
    BY DEF SettledOnce
  <2>1. c \in Copies(queue)
    BY FlushFacts, QueuedDef, CopiesDef DEF FlushInv
  <2>2. QED
    BY <2>1 DEF IInv, Committed, Resent
<1>2. QED
  BY <1>1, Invariance, PTL

\* A dry flush neither sends a copy nor changes a table, whatever happens.
THEOREM DryFlushIsHarmless == Spec => DryFlushChangesNothing
<1>1. TypeOK /\ [Next]_vars => (At("flush") /\ tx.dry => UNCHANGED <<tables, sent>>)
  <2> SUFFICES ASSUME TypeOK, [Next]_vars, At("flush"), tx.dry
               PROVE  UNCHANGED <<queue, posts, sent>>
    BY DEF tables
  <2>1. tx \in FlushTx /\ tx.at = "flush" /\ Open
    BY TxIs, TxKinds DEF At, Open
  <2>2. CASE \E m \in Mail : SubmitBusy(m) \/ \E dry \in DryRuns : Submit(m, dry)
    BY <2>1, <2>2 DEF SubmitBusy, Submit, tables, history
  <2>3. CASE PostStep
    BY <2>1, <2>3 DEF PostStep, PostFails, ListDone, RecordError, DropTx, CommitPost,
         AcceptPost, RejectPost, DeferPost, HoldPost, EnqueueCopy, Examined, At
  <2>4. CASE \E job \in outside : RecordOutside(job) \/ CrashOutside(job)
    BY <2>1, <2>4 DEF RecordOutside, CrashOutside, tables, history
  <2>5. CASE \E dry \in DryRuns : OpenFlush(dry)
    BY <2>1, <2>5 DEF OpenFlush
  <2>6. CASE FlushStep \/ FlushFails \/ Crash
    BY <2>1, <2>6 DEF FlushStep, FlushFails, Crash, SendCopy, SendFails, Reinsert,
         CommitFlush, EndDryFlush, OnlyTx, tables, history
  <2>7. CASE \E w \in Which : \E S \in SUBSET Rows(queue, w) : DeleteFromQueue(w, S)
    BY <2>1, <2>7 DEF DeleteFromQueue
  <2>8. CASE UNCHANGED vars
    BY <2>8 DEF vars, tables, history
  <2>9. QED
    BY <2>2, <2>3, <2>4, <2>5, <2>6, <2>7, <2>8 DEF Next
<1>2. QED
  BY <1>1, TypeCorrect, PTL DEF Spec, DryFlushChangesNothing

-------------------------------------------------------------------------------
(***************************************************************************)
(* The commands implement Delivery                                         *)
(***************************************************************************)

LEMMA StartsEmpty == Init => Outbox!Init
<1> SUFFICES ASSUME Init PROVE Queued(queue, "out") = {} /\ Queued(queue, "deferred") = {}
  BY DEF Init, Outbox!Init
<1>1. QED
  BY QueuedDef DEF Init

\* Committing a post adds copies to both queues.
LEMMA CommitPostDistributes ==
    ASSUME IInv, CommitPost
    PROVE  Outbox!Distribute
<1>1. tx \in PostTx /\ PostInv(tx) /\ queue' = tx.queue /\ UNCHANGED <<sent, deleted>>
  BY PostFacts DEF CommitPost, At
<1>2. queue \subseteq queue' /\ Unique(queue')
  BY <1>1 DEF PostInv
<1>3. \A c, w : c \in Queued(queue, w) => c \in Queued(queue', w)
  BY <1>2, QueuedDef
<1>4. Queued(queue', "out") \cap Queued(queue', "deferred") = {}
  BY <1>2, QueuedDef DEF Unique
<1>5. QED
  BY <1>1, <1>3, <1>4 DEF Outbox!Distribute

LEMMA CommitFlushFlushes ==
    ASSUME IInv, CommitFlush
    PROVE  Outbox!Flush
<1>1. \A c : c \notin Queued(queue', "out")
  BY FlushEffect, QueuedDef
<1>2. \A c : c \in Queued(queue, "deferred") => c \in Queued(queue', "deferred")
  BY FlushEffect
<1>3. \A c : c \in Queued(queue', "deferred") =>
              c \in Queued(queue, "deferred") \/ c \in Queued(queue, "out")
  BY FlushEffect, QueuedDef
<1>4. \A c : c \in Queued(queue, "out") =>
              c \in sent \/ (c \in Queued(queue', "deferred") /\ c \notin Queued(queue, "deferred"))
  BY FlushEffect, QueuedDef DEF IInv, Committed, Unique
<1>5. UNCHANGED <<sent, deleted>>
  BY DEF CommitFlush
<1>6. QED
  BY <1>1, <1>2, <1>3, <1>4, <1>5 DEF Outbox!Flush

LEMMA DeleteDiscards ==
    ASSUME NEW w \in Which, NEW S \in SUBSET Rows(queue, w), DeleteFromQueue(w, S)
    PROVE  Outbox!Discard
<1>1. queue' = queue \ S /\ deleted' = deleted \cup Copies(S) /\ UNCHANGED sent
  BY DEF DeleteFromQueue
<1>2. \A c, v : c \in Queued(queue', v) => c \in Queued(queue, v)
  BY <1>1, QueuedDef
<1>3. \A c, v : c \in Queued(queue, v) => c \in Queued(queue', v) \/ c \in deleted'
  BY <1>1, QueuedDef, CopiesDef
<1>4. QED
  BY <1>1, <1>2, <1>3 DEF Outbox!Discard

\* A copy that is submitted was waiting.
LEMMA SubmitSends ==
    ASSUME IInv, NEW c \in Copy, SendCopy(c) \/ SendFails(c)
    PROVE  \/ \E d \in Queued(queue, "out") : Outbox!Send(d)
           \/ UNCHANGED <<queue, sent, deleted>>
<1>1. c \in Queued(queue, "out")
  BY FlushFacts DEF FlushInv, SendCopy, SendFails
<1>2. UNCHANGED <<queue, deleted>> /\ (sent' = sent \/ sent' = sent \cup {c})
  BY DEF SendCopy, SendFails, tables
<1>3. CASE sent' = sent \cup {c}
  BY <1>1, <1>2, <1>3 DEF Outbox!Send
<1>4. QED
  BY <1>2, <1>3

\* A mail recorded in the error queue is no business of Delivery.
LEMMA RecordStutters ==
    ASSUME NEW job \in outside, RecordOutside(job) \/ CrashOutside(job)
    PROVE  /\ Queued(queue', "out") = Queued(queue, "out")
           /\ Queued(queue', "deferred") = Queued(queue, "deferred")
           /\ UNCHANGED <<sent, deleted>>
<1>1. queue' = queue \/ queue' = queue \cup {Entry("error", Header(job.id))}
  BY DEF RecordOutside, CrashOutside, tables
<1>2. \A c, w : w # "error" => (c \in Queued(queue', w) <=> c \in Queued(queue, w))
  BY <1>1, QueuedDef, EntryFields
<1>3. UNCHANGED <<sent, deleted>>
  BY DEF RecordOutside, CrashOutside, history
<1>4. \A w : w # "error" => Queued(queue', w) = Queued(queue, w)
  BY <1>2 DEF Queued, Copies
<1>5. QED
  BY <1>3, <1>4

LEMMA DeliveryStep ==
    IInv /\ [Next]_vars =>
      [Outbox!Next]_<<Queued(queue, "out"), Queued(queue, "deferred"), sent, deleted>>
<1> DEFINE Stutters == UNCHANGED <<Queued(queue, "out"), Queued(queue, "deferred"), sent, deleted>>
<1> SUFFICES ASSUME IInv, [Next]_vars PROVE Outbox!Next \/ Stutters
  OBVIOUS
<1>1. ASSUME UNCHANGED <<queue, sent, deleted>> PROVE Stutters
  BY <1>1
<1>2. CASE \E m \in Mail : SubmitBusy(m) \/ \E dry \in DryRuns : Submit(m, dry)
  BY <1>1, <1>2 DEF SubmitBusy, Submit, tables, history
<1>3. CASE PostStep
  <2>1. CASE CommitPost
    BY <2>1, CommitPostDistributes DEF Outbox!Next
  <2>2. CASE PostFails \/ ListDone \/ RecordError \/ DropTx
    BY <1>1, <2>2 DEF PostFails, ListDone, RecordError, DropTx, OnlyTx, tables, history
  <2>3. CASE \E l \in List : \/ \E S \in SUBSET Address : AcceptPost(l, S)
                            \/ RejectPost(l) \/ DeferPost(l) \/ HoldPost(l)
    BY <1>1, <2>3 DEF AcceptPost, RejectPost, DeferPost, HoldPost, Enqueue, RolledBack,
                      OnlyTx, tables, history
  <2>4. CASE \E a \in Address : EnqueueCopy(a)
    BY <1>1, <2>4 DEF EnqueueCopy, Enqueue, RolledBack, OnlyTx, tables, history
  <2>5. QED
    BY <1>3, <2>1, <2>2, <2>3, <2>4 DEF PostStep
<1>4. CASE \E job \in outside : RecordOutside(job) \/ CrashOutside(job)
  BY <1>4, RecordStutters
<1>5. CASE \E dry \in DryRuns : OpenFlush(dry)
  BY <1>1, <1>5 DEF OpenFlush, OnlyTx, tables, history
<1>6. CASE FlushStep \/ FlushFails \/ Crash
  <2>1. CASE \E c \in Copy : SendCopy(c) \/ SendFails(c)
    BY <1>1, <2>1, SubmitSends DEF Outbox!Next
  <2>2. CASE \E c \in Copy : Reinsert(c)
    BY <1>1, <2>2 DEF Reinsert, OnlyTx, tables, history
  <2>3. CASE CommitFlush
    BY <2>3, CommitFlushFlushes DEF Outbox!Next
  <2>4. CASE EndDryFlush \/ FlushFails \/ Crash
    BY <1>1, <2>4 DEF EndDryFlush, FlushFails, Crash, OnlyTx, tables, history
  <2>5. QED
    BY <1>6, <2>1, <2>2, <2>3, <2>4 DEF FlushStep
<1>7. CASE \E w \in Which : \E S \in SUBSET Rows(queue, w) : DeleteFromQueue(w, S)
  BY <1>7, DeleteDiscards DEF Outbox!Next
<1>8. CASE UNCHANGED vars
  BY <1>1, <1>8 DEF vars, tables, history
<1>9. QED
  BY <1>2, <1>3, <1>4, <1>5, <1>6, <1>7, <1>8 DEF Next

\* `mpot post`, `mpot flush-queue` and `mpot queue delete` together deliver as
\* Delivery says: a committed flush forgets no copy, and nothing else takes a
\* copy out of the queue but an administrator.
THEOREM DeliversAsPromised == Spec => ImplementsDelivery
<1>1. QED
  BY StartsEmpty, DeliveryStep, Invariance, PTL DEF Spec, ImplementsDelivery, Outbox!Spec
=============================================================================
