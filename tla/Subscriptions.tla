----------------------------- MODULE Subscriptions -----------------------------
(***************************************************************************)
(* Everyone who changes list membership in one database file:              *)
(*                                                                         *)
(*  - `Writer`: processes that hold an explicit transaction.  `mpot post`  *)
(*    serves an e-mail request (+subscribe, +unsubscribe, password) for    *)
(*    every address of its From header; `mpot list import-members` adds a  *)
(*    sequence of addresses;                                               *)
(*  - `mpot` commands of one statement (CliAddSubscription and so on);     *)
(*  - a list owner or `mpot` accepting a subscription request, which is    *)
(*    one INSERT and two SELECTs, each its own transaction;                *)
(*  - web sessions, whose handler reads the account, then the account's    *)
(*    subscriptions, and only then writes.                                 *)
(*                                                                         *)
(* SQLite allows one write transaction at a time (`lock`), and readers see *)
(* the committed image `db`.  Both UNIQUE (list, address) constraints say  *)
(* ON CONFLICT ROLLBACK: a duplicate aborts the WHOLE transaction, the     *)
(* connection falls back to autocommit, and the handler, which treats the  *)
(* error as one failed insert, goes on with its next address.              *)
(***************************************************************************)
EXTENDS SubscriptionTables, Sequences

CONSTANTS
    WebUser,    \* addresses whose owners log in to the web interface
    Writer,     \* processes that run explicit transactions
    NoWriter,   \* the value of `lock` when no write transaction is open
    Jobs,       \* the kinds of transaction they run
    Froms       \* the From headers (and import lists) considered

ASSUME WebUserAssumption == WebUser \subseteq Address
ASSUME WriterAssumption == NoWriter \notin Writer
ASSUME JobsAssumption == Jobs \subseteq {"subscribe", "unsubscribe", "password", "import"}
ASSUME FromsAssumption == Froms \subseteq Seq(Address)
ASSUME ListAssumption == List # {}

VARIABLES
    db,         \* the committed database image
    lock,       \* the process that holds SQLite's write lock
    writer,     \* per Writer: the transaction or message it is working on
    web,        \* per user address: the web request being served
    accept,     \* the acceptance of a subscription request being served
    approval    \* per list: there is a subscription policy that is not open

vars == <<db, lock, writer, web, accept, approval>>

AnyList == CHOOSE l \in List : TRUE

IdleWriter == [pc |-> "idle", job |-> "import", list |-> AnyList,
               froms |-> << >>, approval |-> FALSE, work |-> EmptyDb]
IdleWeb    == [pc |-> "idle", acc |-> NoPk, list |-> AnyList]
IdleAccept == [pc |-> "idle", cand |-> NoPk, sub |-> NoPk, list |-> AnyList]

WriterState == [pc : {"idle", "tx", "auto", "insert"}, job : {"import"} \cup Jobs, list : List,
                froms : Seq(Address), approval : BOOLEAN, work : Db]
WebState    == [pc : {"idle", "account", "insert", "delete"}, acc : Pk \cup {NoPk}, list : List]
AcceptState == [pc : {"idle", "fetch", "assert", "panic"}, cand : Pk \cup {NoPk},
                sub : Pk \cup {NoPk}, list : List]

Init ==
    /\ db = EmptyDb
    /\ lock = NoWriter
    /\ writer = [w \in Writer |-> IdleWriter]
    /\ web = [u \in WebUser |-> IdleWeb]
    /\ accept = IdleAccept
    /\ approval = [l \in List |-> FALSE]

Unlocked == lock = NoWriter

-------------------------------------------------------------------------------
(***************************************************************************)
(* A writer inside its transaction: `work` is the image it sees.           *)
(***************************************************************************)

\* Connection::transaction.  The request's list policy is read once, first.
Begin(w) ==
    /\ Unlocked
    /\ writer[w].pc = "idle"
    /\ \E job \in Jobs, l \in List, f \in Froms :
         writer' = [writer EXCEPT ![w] =
                      [pc |-> "tx", job |-> job, list |-> l, froms |-> f,
                       approval |-> approval[l], work |-> db]]
    /\ lock' = w
    /\ UNCHANGED <<db, web, accept, approval>>

\* The address being served.
Sender(w) == Head(writer[w].froms)

InTx(w, job) ==
    /\ writer[w].pc = "tx"
    /\ writer[w].job = job
    /\ writer[w].froms # << >>

\* Serving an address ends with a reply.  When the reply cannot be rendered or
\* queued the request returns Err and the remaining addresses are not served.
Served(w, image) ==
    /\ \E rest \in {Tail(writer[w].froms), << >>} :
         writer' = [writer EXCEPT ![w].froms = rest, ![w].work = image]
    /\ UNCHANGED <<db, lock, web, accept, approval>>

MailAlreadySubscribed(w) ==
    /\ InTx(w, "subscribe")
    /\ Subscribed(writer[w].work, writer[w].list, Sender(w))
    /\ Served(w, writer[w].work)

MailJoin(w) ==
    /\ InTx(w, "subscribe")
    /\ ~writer[w].approval
    /\ \E p \in Pk :
         /\ CanInsertSub(writer[w].work, p, writer[w].list, Sender(w), NoPk)
         /\ Served(w, InsertSub(writer[w].work, p, writer[w].list, Sender(w), NoPk))

\* Mutant: the handler does not look for an existing subscription first.
MailAsk_NoCheck(w) ==
    /\ InTx(w, "subscribe")
    /\ writer[w].approval
    /\ \E p \in Pk :
         /\ CanInsertCand(writer[w].work, p, writer[w].list, Sender(w))
         /\ Served(w, InsertCand(writer[w].work, p, writer[w].list, Sender(w)))

MailAsk(w) ==
    /\ InTx(w, "subscribe")
    /\ writer[w].approval
    /\ ~Subscribed(writer[w].work, writer[w].list, Sender(w))
    /\ \E p \in Pk :
         /\ CanInsertCand(writer[w].work, p, writer[w].list, Sender(w))
         /\ Served(w, InsertCand(writer[w].work, p, writer[w].list, Sender(w)))

\* A second request of the same address: ON CONFLICT ROLLBACK ends the
\* transaction, everything the message did so far is gone, the handler goes on.
MailAskAgain(w) ==
    /\ InTx(w, "subscribe")
    /\ writer[w].approval
    /\ ~Subscribed(writer[w].work, writer[w].list, Sender(w))
    /\ Candidate(writer[w].work, writer[w].list, Sender(w))
    /\ \E rest \in {Tail(writer[w].froms), << >>} :
         writer' = [writer EXCEPT ![w].pc = "auto", ![w].froms = rest, ![w].work = EmptyDb]
    /\ lock' = NoWriter
    /\ UNCHANGED <<db, web, accept, approval>>

\* Removing someone who is not subscribed only sends a failure notice.
MailLeave(w) ==
    /\ InTx(w, "unsubscribe")
    /\ Served(w, DeleteSub(writer[w].work, writer[w].list, Sender(w)))

\* Only a subscriber can set a password; the first one creates the account.
MailPassword(w) ==
    /\ InTx(w, "password")
    /\ IF /\ Subscribed(writer[w].work, writer[w].list, Sender(w))
          /\ ~HasAccount(writer[w].work, Sender(w))
       THEN \E p \in Pk :
              /\ CanInsertAccount(writer[w].work, p, Sender(w))
              /\ Served(w, InsertAccount(writer[w].work, p, Sender(w)))
       ELSE Served(w, writer[w].work)

ImportOne(w) ==
    /\ InTx(w, "import")
    /\ \E p \in Pk :
         /\ CanInsertSub(writer[w].work, p, writer[w].list, Sender(w), NoPk)
         /\ writer' = [writer EXCEPT ![w].froms = Tail(@),
                         ![w].work = InsertSub(@, p, writer[w].list, Sender(w), NoPk)]
    /\ UNCHANGED <<db, lock, web, accept, approval>>

\* Mutant: the transaction handle is dropped without ending the transaction.
Release_KeepsLock(w) ==
    /\ writer' = [writer EXCEPT ![w] = IdleWriter]
    /\ UNCHANGED <<lock, web, accept, approval>>

Release(w) ==
    /\ writer' = [writer EXCEPT ![w] = IdleWriter]
    /\ lock' = IF lock = w THEN NoWriter ELSE lock
    /\ UNCHANGED <<web, accept, approval>>

\* The first address already subscribed ends the import: `?` returns the error.
ImportConflict(w) ==
    /\ InTx(w, "import")
    /\ Subscribed(writer[w].work, writer[w].list, Sender(w))
    /\ Release(w)
    /\ UNCHANGED db

Commit(w) ==
    /\ writer[w].pc = "tx"
    /\ writer[w].froms = << >>
    /\ db' = writer[w].work
    /\ Release(w)

\* The process dies or is killed: an open transaction is rolled back.
Crash(w) ==
    /\ writer[w].pc # "idle"
    /\ Release(w)
    /\ UNCHANGED db

-------------------------------------------------------------------------------
(***************************************************************************)
(* The same request handler after its transaction was rolled back: every   *)
(* statement now commits on its own.  Only a subscription request to a     *)
(* list that needs approval gets here.                                     *)
(***************************************************************************)
AutoCheck(w) ==
    /\ writer[w].pc = "auto"
    /\ writer[w].froms # << >>
    /\ IF Subscribed(db, writer[w].list, Sender(w))
       THEN \E rest \in {Tail(writer[w].froms), << >>} :
              writer' = [writer EXCEPT ![w].froms = rest]
       ELSE writer' = [writer EXCEPT ![w].pc = "insert"]
    /\ UNCHANGED <<db, lock, web, accept, approval>>

\* A conflict here undoes only the insert itself; another writer's lock makes
\* the insert fail with SQLITE_BUSY.  Both send a failure notice.
AutoAsk(w) ==
    /\ writer[w].pc = "insert"
    /\ \/ /\ Unlocked
          /\ \E p \in Pk :
               /\ CanInsertCand(db, p, writer[w].list, Sender(w))
               /\ db' = InsertCand(db, p, writer[w].list, Sender(w))
       \/ /\ ~Unlocked \/ Candidate(db, writer[w].list, Sender(w))
          /\ UNCHANGED db
    /\ \E rest \in {Tail(writer[w].froms), << >>} :
         writer' = [writer EXCEPT ![w].pc = "auto", ![w].froms = rest]
    /\ UNCHANGED <<lock, web, accept, approval>>

\* COMMIT fails with "no transaction is active" and the process exits.
AutoEnd(w) ==
    /\ writer[w].pc = "auto"
    /\ writer[w].froms = << >>
    /\ Release(w)
    /\ UNCHANGED db

-------------------------------------------------------------------------------
(***************************************************************************)
(* mpot commands of one statement.  A statement that fails (conflict, not  *)
(* found, busy) changes nothing and is left out.                           *)
(***************************************************************************)
CliAddSubscription(l, a) ==
    /\ Unlocked
    /\ \E p \in Pk :
         /\ CanInsertSub(db, p, l, a, NoPk)
         /\ db' = InsertSub(db, p, l, a, NoPk)
    /\ UNCHANGED <<lock, writer, web, accept, approval>>

CliRemoveSubscription(l, a) ==
    /\ Unlocked
    /\ Subscribed(db, l, a)
    /\ db' = DeleteSub(db, l, a)
    /\ UNCHANGED <<lock, writer, web, accept, approval>>

CliAddAccount(a) ==
    /\ Unlocked
    /\ \E p \in Pk :
         /\ CanInsertAccount(db, p, a)
         /\ db' = InsertAccount(db, p, a)
    /\ UNCHANGED <<lock, writer, web, accept, approval>>

CliRemoveAccount(a) ==
    /\ Unlocked
    /\ HasAccount(db, a)
    /\ db' = DeleteAccounts(db, {x \in DOMAIN db.account : db.account[x] = a})
    /\ UNCHANGED <<lock, writer, web, accept, approval>>

\* set_list_subscription_policy and remove_list_subscription_policy.
SetApproval(l, needed) ==
    /\ Unlocked
    /\ approval' = [approval EXCEPT ![l] = needed]
    /\ UNCHANGED <<db, lock, writer, web, accept>>

-------------------------------------------------------------------------------
(***************************************************************************)
(* accept_candidate_subscription: insert, read the subscription back, then *)
(* (debug builds) read the candidacy back and assert that the trigger set  *)
(* its `accepted` column.                                                  *)
(***************************************************************************)
AcceptInsert(c) ==
    /\ accept.pc = "idle"
    /\ Unlocked
    /\ c \in DOMAIN db.cand
    /\ \E p \in Pk :
         /\ CanInsertSub(db, p, db.cand[c].list, db.cand[c].address, NoPk)
         /\ db' = InsertSub(db, p, db.cand[c].list, db.cand[c].address, NoPk)
         /\ accept' = [pc |-> "fetch", cand |-> c, sub |-> p, list |-> db.cand[c].list]
    /\ UNCHANGED <<lock, writer, web, approval>>

\* list_subscription(list, pk): not found returns the error.
AcceptFetch ==
    /\ accept.pc = "fetch"
    /\ accept' = IF /\ accept.sub \in DOMAIN db.sub
                    /\ db.sub[accept.sub].list = accept.list
                 THEN [accept EXCEPT !.pc = "assert"]
                 ELSE IdleAccept
    /\ UNCHANGED <<db, lock, writer, web, approval>>

\* debug_assert_eq!(Some(ret.pk), self.candidate_subscription(pk)?.accepted)
AcceptAssert ==
    /\ accept.pc = "assert"
    /\ accept' = IF /\ accept.cand \in DOMAIN db.cand
                    /\ db.cand[accept.cand].accepted # accept.sub
                 THEN [accept EXCEPT !.pc = "panic"]
                 ELSE IdleAccept
    /\ UNCHANGED <<db, lock, writer, web, approval>>

\* A panic ends the process or the request task.
AcceptUnwind ==
    /\ accept.pc = "panic"
    /\ accept' = IdleAccept
    /\ UNCHANGED <<db, lock, writer, web, approval>>

-------------------------------------------------------------------------------
(***************************************************************************)
(* settings_POST of a logged-in user: account_by_address, then             *)
(* account_subscriptions, then the write, with nothing held in between.    *)
(***************************************************************************)
WebAccount(u) ==
    /\ web[u].pc = "idle"
    /\ HasAccount(db, u)
    /\ web' = [web EXCEPT ![u].pc = "account", ![u].acc = AccountOf(db, u)]
    /\ UNCHANGED <<db, lock, writer, accept, approval>>

\* `acc` has a subscription to l, whoever's address that subscription is for.
LinkedTo(d, acc, l) == \E k \in DOMAIN d.sub : d.sub[k].account = acc /\ d.sub[k].list = l

WebCheckSubscribe(u, l) ==
    /\ web[u].pc = "account"
    /\ web' = [web EXCEPT ![u] = IF LinkedTo(db, web[u].acc, l) THEN IdleWeb
                                 ELSE [pc |-> "insert", acc |-> web[u].acc, list |-> l]]
    /\ UNCHANGED <<db, lock, writer, accept, approval>>

WebCheckUnsubscribe(u, l) ==
    /\ web[u].pc = "account"
    /\ web' = [web EXCEPT ![u] = IF LinkedTo(db, web[u].acc, l)
                                 THEN [pc |-> "delete", acc |-> web[u].acc, list |-> l]
                                 ELSE IdleWeb]
    /\ UNCHANGED <<db, lock, writer, accept, approval>>

WebSubscribe(u) ==
    /\ web[u].pc = "insert"
    /\ Unlocked
    /\ \E p \in Pk :
         /\ CanInsertSub(db, p, web[u].list, u, web[u].acc)
         /\ db' = InsertSub(db, p, web[u].list, u, web[u].acc)
    /\ web' = [web EXCEPT ![u] = IdleWeb]
    /\ UNCHANGED <<lock, writer, accept, approval>>

\* Mutant: the missing account is not an error but is waited for.
WebSubscribeFails_WaitsForAccount(u) ==
    /\ web[u].pc = "insert"
    /\ ~Unlocked \/ Subscribed(db, web[u].list, u)
    /\ web' = [web EXCEPT ![u] = IdleWeb]
    /\ UNCHANGED <<db, lock, writer, accept, approval>>

\* Busy, already subscribed, or the account's row is gone (foreign key).
WebSubscribeFails(u) ==
    /\ web[u].pc = "insert"
    /\ \/ ~Unlocked
       \/ Subscribed(db, web[u].list, u)
       \/ web[u].acc \notin DOMAIN db.account
    /\ web' = [web EXCEPT ![u] = IdleWeb]
    /\ UNCHANGED <<db, lock, writer, accept, approval>>

\* remove_subscription by address; busy or not found returns the error.
WebUnsubscribe(u) ==
    /\ web[u].pc = "delete"
    /\ db' = IF Unlocked THEN DeleteSub(db, web[u].list, u) ELSE db
    /\ web' = [web EXCEPT ![u] = IdleWeb]
    /\ UNCHANGED <<lock, writer, accept, approval>>

-------------------------------------------------------------------------------
WriterStep(w) ==
    \/ MailAlreadySubscribed(w) \/ MailJoin(w) \/ MailAsk(w) \/ MailAskAgain(w)
    \/ MailLeave(w) \/ MailPassword(w)
    \/ ImportOne(w) \/ ImportConflict(w)
    \/ Commit(w)
    \/ AutoCheck(w) \/ AutoAsk(w) \/ AutoEnd(w)

WebStep(u) ==
    \/ \E l \in List : WebCheckSubscribe(u, l) \/ WebCheckUnsubscribe(u, l)
    \/ WebSubscribe(u) \/ WebSubscribeFails(u) \/ WebUnsubscribe(u)

AcceptStep == AcceptFetch \/ AcceptAssert \/ AcceptUnwind

Next ==
    \/ \E w \in Writer : Begin(w) \/ WriterStep(w) \/ Crash(w)
    \/ \E u \in WebUser : WebAccount(u) \/ WebStep(u)
    \/ \E c \in Pk : AcceptInsert(c)
    \/ AcceptStep
    \/ \E l \in List, a \in Address : CliAddSubscription(l, a) \/ CliRemoveSubscription(l, a)
    \/ \E a \in Address : CliAddAccount(a) \/ CliRemoveAccount(a)
    \/ \E l \in List, needed \in BOOLEAN : SetApproval(l, needed)

Spec == Init /\ [][Next]_vars

\* A started process keeps running: nothing a step waits for is held for ever.
Fairness ==
    /\ \A w \in Writer : WF_vars(WriterStep(w))
    /\ \A u \in WebUser : WF_vars(WebStep(u))
    /\ WF_vars(AcceptStep)

FairSpec == Spec /\ Fairness

-------------------------------------------------------------------------------
(***************************************************************************)
(* Properties                                                              *)
(***************************************************************************)

\* Type correctness, and: the lock is held exactly by the one process whose
\* transaction is open.
TypeOK ==
    /\ db \in Db
    /\ lock \in Writer \cup {NoWriter}
    /\ writer \in [Writer -> WriterState]
    /\ \A w \in Writer : writer[w].pc = "tx" <=> lock = w
    /\ \A w \in Writer : writer[w].pc = "insert" => writer[w].froms # << >>
    /\ web \in [WebUser -> WebState]
    /\ accept \in AcceptState
    /\ approval \in [List -> BOOLEAN]

\* Every image a process can see, committed or inside a transaction.
Images == {db} \cup {writer[w].work : w \in Writer}

\* The foreign keys that carry meaning survive key reuse: an accepted
\* candidacy names the live subscription of its own list and address, and a
\* linked account exists.
KeysNameTheirRows == \A d \in Images : AcceptedIsSubscribed(d) /\ NoDanglingAccount(d)

\* Only one interleaving can link a subscription to somebody else's account or
\* leave it unlinked from its own: settings_POST inserting with an account key
\* it read before that account was removed (and its key given to another).
LinkBreaksOnlyByStaleAccount ==
    [][ LinkedToOwnAccount(db) /\ ~LinkedToOwnAccount(db)' =>
          \E u \in WebUser :
             /\ web[u].pc = "insert"
             /\ web[u].acc \in DOMAIN db.account
             /\ db.account[web[u].acc] # u ]_vars

\* Only a request served after its transaction was rolled back can leave a
\* subscriber waiting for approval: it checks and inserts in two transactions.
WaitingSubscriberOnlyAfterRollback ==
    [][ NoSubscriberWaits(db) /\ ~NoSubscriberWaits(db)' =>
          \E w \in Writer : writer[w].pc = "insert" /\ writer[w].approval ]_vars

\* Who is on a list and who waits, as seen from outside.
Members(d) == {m \in List \X Address : Subscribed(d, m[1], m[2])}
Waiting(d) == {m \in List \X Address :
                 \E c \in DOMAIN d.cand : At(d.cand[c], m[1], m[2]) /\ d.cand[c].accepted = NoPk}

Mship == INSTANCE Membership WITH members <- Members(db), waiting <- Waiting(db)

\* What one message, command or click commits is one kind of change: it never
\* both adds and removes members, and nobody stops waiting without having
\* become a member, even though requests, subscriptions and their keys are
\* deleted and reused by other processes.
ImplementsMembership == Mship!Spec

\* The key bound of the model is not hit.
KeysLeft == \A d \in Images : \A t \in {d.sub, d.cand, d.account} : MaxPk \notin DOMAIN t

\* Every request in progress ends: no handler waits for something that another
\* process can keep from happening.
RequestsEnd ==
    /\ \A w \in Writer : []<>(writer[w].pc = "idle" \/ ~KeysLeft)
    /\ \A u \in WebUser : []<>(web[u].pc = "idle" \/ ~KeysLeft)
    /\ []<>(accept.pc = "idle")

\* schema.sql, tag add_account: "Update list subscription entries with
\* 'account' foreign key, if addresses match."  A subscription is linked to the
\* account of its address.
AccountsMatch == LinkedToOwnAccount(db)
=============================================================================
