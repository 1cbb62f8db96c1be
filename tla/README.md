# A specification of mailpot

TLA+ modules that model [mailpot](../src/README.md), a mailing list
manager written in Rust over one SQLite database, with TLC configurations that
check them on small instances and TLAPS proofs of their main properties for
every instance. Paths below are relative to `src/`.

## The system

### How it runs

There is no daemon for mail. The mail server pipes each incoming mail into a new
process `mpot post`; cron runs `mpot flush-queue`; an administrator runs other
`mpot` commands; `mailpot-web` serves HTTP requests, each handler opening the
database anew. All of them share one SQLite file and nothing else, so every
interaction of the system goes through its tables and SQLite's lock. What makes
it hard:

- most handlers are sequences of autocommitted statements: what one of them read
  may be gone when it writes;
- three UNIQUE constraints say `ON CONFLICT ROLLBACK`, so one failed insert ends
  the transaction of its caller, which goes on without noticing;
- primary keys are reused after the newest row is deleted;
- mail leaves the process before the transaction that records it is committed;
- the mail server submits a mail again when `mpot post` failed.

### Inventory

| Component | State | Operations | Interacts through | What makes it correct |
|---|---|---|---|---|
| Subscription tables (`mailpot/src/schema.sql`, `subscriptions.rs`) | `subscription`, `candidate_subscription`, `account`; triggers accept_candidate, add_account, add_account_to_subscription | insert and delete of each, with cascades | statements of every process | keys never name the wrong row; a subscription is linked to its own account; a subscriber does not wait for approval |
| Requests by mail (`posts.rs`, `request`) | one exclusive transaction | subscribe, unsubscribe, password, for each From address | tables, reply queue | all or nothing per mail; the effect of each request |
| Acceptance (`subscriptions.rs`) | none between its statements | insert, two reads | tables | accepts the request it was asked to |
| Updates of subscriptions (`subscriptions.rs`, `update_subscription`) | key read before the savepoint | one UPDATE per column | tables | the row that was read is the row that changes |
| Web settings (`mailpot-web/src/settings.rs`) | account read at the start | subscribe, unsubscribe, change account, change options | tables, user cache | acts on the account it read |
| Archive of a list (`posts.rs`, `months`; `mailpot-web/src/lists.rs`) | none | months, then posts | tables | every post is in a month of the page |
| Posting (`posts.rs`) | one exclusive transaction | per list: filter, then accept, reject, defer or hold | `post`, `queue` | an accepted mail is archived and a copy queued for everyone, or the sender is told |
| Queues (`queue.rs`, `mailpot-cli/src/commands.rs`) | `queue` in four parts | insert, delete by key, flush | outgoing server | a copy is sent, deferred or still waiting, never lost |
| Transactions (`connection.rs`) | handles, SQLite's savepoint stack | open, commit, rollback, drop | every write above | nesting; nothing visible before the outermost commit |
| Filters and distribution (`message_filters.rs`, `mail.rs`) | the mail and list context | a chain of filters | posting | the post policy decides; every eligible subscriber is served once |
| Policies (`policies.rs`, `models.rs`) | `post_policy`, `subscription_policy` | set, remove | posting, requests | exactly one kind of policy |
| Lists, owners (`connection.rs`) | `list`, `owner` | create, update, add, remove | all | a reference to a list is to a live one |
| Migrations (`connection.rs`, `migrations.rs.inc`) | `user_version`, schema | redo, undo, on opening | all | version and schema change together |
| Creation of the database (`connection.rs`, `open_or_create_db`) | the file | test, create, fill by a `sqlite3` child | file | a file is created once and completely |
| Limits of web connections (`connection.rs`, `untrusted`) | authorizer of the connection | allow or deny | web handlers | handlers can do what they need and no more |
| Templates (`templates.rs`) | `template` | add, remove, render with fallbacks | replies | the most specific template is used |
| Repair (`mailpot-cli/src/lints.rs`) | none | five checks, each with a fix | tables | removes what it says |
| Web authentication (`mailpot-web/src/auth.rs`) | session token, user cache | sign in, sign out | sessions, accounts | a token is good for its lifetime |
| Web list administration (`mailpot-web/src/lists.rs`) | owners read at the start | edit policies and owners, accept requests | tables | only owners edit |
| Postfix configuration (`postfix.rs`) | `master.cf`, maps | save, replace in place | files | the entry is replaced once, the rest kept |
| Static archive (`mailpot-archives/src/gen.rs`) | the files of the site | one run: index, list pages, post pages | files | links lead to pages, pages show their posts |
| Threads (`connection.rs`, `list_thread`; `mailpot-web/src/utils.rs`) | none | pure functions | pages | each reply shown once |
| Calendar, paths, rendering (`mailpot-web`, `mailpot-archives`) | none | pure functions | pages | each day shown once |
| REST server (`mailpot-http`), configuration, errors, test server | | | | |

`PROJECT.json` lists each with its status, and all hazards at their lines with
the properties aimed at them.

## The modules

| Module | Models | Extends / instances |
|---|---|---|
| `SubscriptionTables` | the three tables as one database image, and what each SQL statement with its triggers and foreign-key actions makes of an image | |
| `Subscriptions` | everyone who runs those statements, interleaved: transactions, commands, acceptances, web handlers | `SubscriptionTables`, instances `Membership` |
| `Membership` | abstract: who is on a list and who waits, and how one message or command may change that | |
| `MailPipeline` | `mpot post` (what is not a request), `mpot flush-queue`, deletion from queues, the mail server's retries, crashes | instances `Delivery` |
| `Delivery` | abstract: copies wait, are sent, deferred or deleted | |
| `Transactions` | the handles `Transaction` and `Savepoint` over SQLite's stack of savepoints | |
| `Tables` | a table as a function from the keys in use to the rows: `NextKey` (SQLite's choice), `Put`, `Without` | |
| `ListPosting` | one list: a post and its transaction against changes of the policy, the owners and the subscriptions; `update_subscription`; the page of the list | `Tables` |
| `ListAdministration` | lists, owners and both kinds of policy, changed by commands and by `list_edit_POST` | `Tables` |
| `WebSessions` | tokens, logins, sessions, `user_store`, the settings form, a server that restarts, a clock that is set | `Tables` |
| `Repairs` | `mpot repair` while rows come and go | `Tables` |
| `QueueAdmin` | `mpot queue list / delete` while entries come and go; reply templates | `Tables` |
| `Migrations` | `open_or_create_db`, `open_db` and `migrate` in processes of different versions on one file | |
| `PostfixFiles` | pure: the map of addresses, and the search for and replacement of the entry in `master.cf` | |
| `Postfix` | `mpot update-postfix-config` against editors, other runs and failures | `PostfixFiles` |
| `Archives` | runs of `mailpot-archives` over what earlier runs left | `Tables` |
| `Administration` | the eight machines from `ListPosting` to `Archives` side by side | those eight |
| `PostFilters` | pure: the policy CHECKs, the filter chain, what a list announces of itself | |
| `Threads` | pure: the thread below a post, in the web archive and in an export | |
| `PostingRules` | the inputs of the pure functions, and what they promise | `PostFilters`, `PostfixFiles`, `Threads` |
| `MC*` | the constants of the instances TLC checks | the module named |
| `*_proofs` | theorems with proofs | the module named, `TLAPS` |

### SubscriptionTables and Subscriptions

A database image is a record of three partial functions from primary keys to
rows. `IsNextPk` is SQLite's choice of a key (largest + 1, so that the key of a
deleted newest row is used again). `InsertSub`, `InsertCand`, `InsertAccount`,
`DeleteSub`, `DeleteAccounts` return the image after a statement and everything
the schema runs with it; `Can...` are the constraints.

In `Subscriptions`, `db` is the committed image. A `Writer` is a process inside
an explicit transaction (`pc = "tx"`), whose own image is `writer[w].work`;
`lock` is the process that holds the write lock. `Begin` is
`Connection::transaction`; each `Mail...` action serves one From address of a
request mail (`posts.rs`, `request`); `ImportOne` is one round of
`import-members`. `MailAskAgain` is the conflict that makes SQLite roll back:
the writer goes to `"auto"`, where `AutoCheck` and `AutoAsk` are separate
transactions, and at the end its COMMIT fails (`AutoEnd`). `CliAdd...` and
`CliRemove...` are one-statement commands. `Accept...` are the three statements
of `accept_candidate_subscription`; `Web...` those of `settings_POST`. `Crash`
is the end of a process that had a transaction open.

The reply to a request is not modelled, except that drafting or queueing it may
fail, which ends the request (`Served`). Names, settings columns and time
stamps are left out.

### MailPipeline

`queue` and `posts` are the committed tables. A row of the queue is the queue it
is in and its unique key, the pair of recipient and Message-ID; the mail's own
To header is the recipient `"header"`, replies are addressed to `"sender"` and
have a Message-ID of their own. `tx` is the one open transaction: of a post
(with its images of the tables, the lists still to be examined and, while
copies are being queued, the recipients left) or of a flush (with the image of
the queue, the copies not yet submitted and the failures). `outside` are posts
whose transaction SQLite rolled back and which still want to record the error.
Processes need no names, since nothing else distinguishes them.

The choice of the filters (accept, reject, defer, hold) and the recipients are
left open, so the properties hold whatever the filters do. Unparseable mail,
which `mpot post` saves to a file, is the case of a submission that crashes: it
changes no table. `sent`, `settled`, `deleted`, `acked` and `refused` are
history that the program does not keep.

### Transactions

`conn` is the SQLite connection: whether a transaction is open, whether BEGIN
began it, the stack of savepoint marks with the image each returns to, and the
stored image. `handles` are the live Rust handles, closed by `CommitTop`,
`RollbackTop` or `DropTop` (which is also `finish`); each ends with the handle's
`Drop` (`Finish`). `InsertConflicts` is ON CONFLICT ROLLBACK. `lost` records
that SQLite ended the transaction under a live handle.

### The machines around the pipeline

Eight small modules share no state with each other: each is about one file, or a
few tables with what is done to them, so that its key, lock or file is the only
thing its actors meet at. All follow one form. A process, browser or command
that is between two of its steps is a record with a `pc` and what it has read
so far; each statement, file operation or lock it does in one go is one action;
a process may stop between any two (the record goes back to idle), and what
others do in between are actions of their own. Variables and record fields
called bookkeeping in the modules (`since`, `arrived`, `overtaken`, `begun`) are
not in the code.

- `ListPosting`. `poster` holds the database exclusively from BEGIN to the end of
  `mpot post`, so `Writable` guards every other change; `updater` is an
  `update_subscription` that has read its key; `listPage` is a request for the
  page of the list, which reads the months and then the posts, and panics
  (answer 500) when a post whose date is written as RFC 2822 says, and for which a
  thread is named, is of a month that is not among them. `enabled` stands for the
  settings columns; `Options` are the changesets of the four callers of
  `update_subscription`, which differ in what they say of it.
- `ListAdministration`. Two ways to find a list: commands by id and then by key
  (`CliList`), the web by key if the name is a number and by id otherwise
  (`WebList`). `editor[p]` is a `list_edit_POST` from its read of the owners to
  its write. The description stands for the columns that may be null; `policies`
  has the rows of both policy tables. The fourth form of the page, which accepts
  a request, is `accept_candidate_subscription` of `Subscriptions`.
- `WebSessions`. `GetLogin`, `PostLogin` with `LoginStore` and `LoginSession`,
  `Logout` are the login handlers; `BeginSettings`, `WriteSettings` and
  `StoreSettings` are `settings_POST`. One request per browser is in progress,
  and the login page may be open in two tabs. A signature is known by the token
  it signs. The password and the key change the way the name does.
- `Repairs`. `ReadLint` and `WriteLint` are the two transactions of a lint, for
  the lints selected, in their order; one list, one repair at a time. A date is
  one of five forms, a Message-ID has up to two pairs of brackets.
- `QueueAdmin`. `command` is a `mpot queue delete` between its listing and its
  deletion; templates are those of one name.
- `Migrations`. `schema.sql` is a sequence of groups of pieces (`Groups`), each of
  which the child makes in one step, in autocommit; `Migrate` is the savepoint. A
  binary is the newest migration it knows. `set_settings` stores the list settings which migrations may
  delete.
- `Postfix`. `master.cf` is a sequence of lines of eight kinds, enough to tell
  apart the own entry, a commented copy, a longer service name, other services
  and their options. A write may be torn after any line (`zeros` are the bytes of
  a hole), and an editor may add a service at any moment. Writing the maps is
  one step: the map is a pure function (`GenerateMaps`).
- `Archives`. Every file is one step: truncated when opened, then written.
  `site.pages` says which post a page shows. Posts are inserted one by one, by
  `mpot post` or by `mpot import-maildir`, and have the date their author gave
  them, so a late one can be listed before others (`ByTime`); equal dates come in
  any order. `dated` says whether characters 8 to 10 of the date header, as it
  was written, are a number: only then does `run_app` count the post in a month,
  and panic if it did not read that month (`ReadPosts`). `RepairDates` is the
  lint that writes such dates anew.

`PostFilters`, `PostfixFiles` and `Threads` are functions without state. A mail is
its author, its headers, whose values are sequences of words, and its line ends; a policy
is the set of its flags, and the subscriptions of a list are a set. The author may have
written any headers, the list's own among them. A thread is a set of rows, of which each
is named by the way it was found, the posts that were joined one by one; a post that is
found in two ways has two rows, as in SQL's UNION ALL. A way that is longer than the table
comes to a post again and goes on for ever (`Endless`): then the query returns nothing,
and `ListThread` has no value. The order of the rows of one depth is not determined.
`PostingRules` makes an input of the filters, the policies of two lists, a thread or a tree
the state of a specification, so that what is promised of it can be an invariant;
`MCAlgorithms` takes small sets of those inputs, and `MCAdministration` has them beside the
eight machines: `part` is "none" in a behaviour that is about an input, and `rule` is "none"
in all others.

## What TLC checks

| Run | Instance | Shows |
|---|---|---|
| `subscriptions_races` | 1 list, 2 addresses, 2 writers, From headers of up to 2, keys up to 2 | `TypeOK`, `KeysNameTheirRows`, `WaitingSubscriberOnlyAfterRollback`, `ImplementsMembership` |
| `subscriptions_web` | 2 addresses, one of which logs in, 1 writer | `KeysNameTheirRows`, `LinkBreaksOnlyByStaleAccount`, `RequestsEnd` |
| `pipeline_crosspost` | a mail to 2 lists, 2 recipients, submitted twice | `TypeOK`, `DeferNeverConflicts`, `PostIsDistributed`, `SentIsArchived`, `AcceptedMailIsKept`, `SettledOnce` |
| `pipeline_refine` | the same with 1 recipient, and dry runs | `DryFlushChangesNothing`, `ImplementsDelivery`, `OutboxDrains` |
| `transactions_nested` | 3 nested handles, 2 names, 3 writes, all drop behaviours | `TypeOK`, `InnerCommitStoresNothing`, `RollbackUndoesTheHandle`, `CommittedTransactionIsStored` |
| `administration` | the eight machines, one of which moves in a behaviour (`part`): 3 processes, one of which has a newer version; 2 lists, one called "2"; 2 authors; 2 browsers; 2 rows of each table; 2 runs of the Postfix command over 17 files; 2 lists and 2 posts of 2 dates to archive. And every input of small sets: mails of one author with four shapes of line ends and headers, a reply to a tagged mail and a mail that was on a list before among them; lists with every set of flags that its table accepts, every owner set and table of up to 2 subscriptions; every set of policy flags with 3 lengths of addresses; every table of up to 4 posts in 2 lists in which the first is a root and the others reply to it, to each other or to what is not there, and of up to 3 posts that repeat ids or reply in circles; three shapes of trees of 4 nodes, any of which have a message | `TypesOK` and the 18 properties below |

What `administration` shows, by module:

| Module | Property | The hazard |
|---|---|---|
| `ListPosting` | `ArchivedByRight` | the rights to post change while a mail is being posted |
| | `OnlyLeavingMisdirectsUpdate` | an update by a key that was read before the savepoint |
| `ListAdministration` | `NamesFindTheirList` | an id that spells another list's key |
| | `OnlyRemovalLeavesStrangersWriting` | an owner who is removed between the check and the write |
| | `DescriptionLostOnlyOnRequest` | a form that leaves a field alone clears it |
| `WebSessions` | `TokenOutlivesVisits` | the two handlers judge a token's age differently |
| | `UserLostOnlyToAnotherLogin` | two logins, and a copy of the user that is written back |
| | `MemoryFalseOnlyWhenOvertaken` | users in memory differ from the table, or outlive it |
| `Repairs` | `OnlyLateRowsAreLost` | rows deleted by keys that were read before |
| `QueueAdmin` | `UnseenDeletedOnlyIfLate` | the same, with keys that are given again |
| `Migrations` | `OnlyCreationSpoilsDatabases` | processes create the file together, or go on from a version that one of them read before |
| | `SettingsSurviveUpgrades` | a migration repeated by, or undone for, another binary |
| `Postfix` | `OtherServicesAreKept` | the search finds a comment or another service |
| | `LastCopyLostOnlyByLaterRun` | a torn file is copied over its backup |
| `Archives` | `CompletedSiteIsSound` | a run over the remains of an interrupted one, while mails of any date arrive |
| `PostFilters` | `FilteredPosts` | seven filters that stop each other, and rewrite headers that the author may have written like them |
| | `AnnouncementsHold` | help mail, headers and map derive from the flags what the filters decide by a cascade of their own |
| `Threads` | `ThreadsShowReplies` | one message in two lists, repeated ids, replies in circles |

`MCAdministration.cfg`, `MCAlgorithms_thread_export.cfg` and
`MCAlgorithms_policies.cfg` turn off the check for deadlock. The machines of the
first do stop: when the bounds of keys, posts or lines are reached, and a run of
the Postfix command that ended is over. An input has no steps at all.

**Bounds.** Two addresses and keys 1 and 2 are enough for a key to be deleted and
reused for another row, for a message that serves one address and rolls back on
the next, and for two writers to race for one address. A second list adds no
interaction: every statement is restricted to one list, except those on
accounts, which `subscriptions_web` reaches through two addresses. Two lists and
two recipients are the smallest case of a cross-posted mail that conflicts after
part of it was queued; two submissions that of a retry. Three handles are one
more than the code nests (a savepoint in a transaction, as `delete_from_queue`
in a flush). `MaxPk`, `MaxTries`, `MaxHandles` and `MaxMarks` are bounds of the
models only. So are, in `administration`, `MaxLists`, `MaxOwners`, `MaxSub`,
`MaxAccounts`, `MaxTokens`, `MaxTime`, `MaxRows`, `MaxPosts`, `MaxEntries`,
`MaxTemplates`, `MaxLines`, `MaxListNo`, `MaxArchived`, `MaxAddress` and `MaxTable`. Two keys let one be reused; two accounts' addresses
share the one key of `WebSessions`, which makes reuse certain; a clock of three
values with a lifetime of two has tokens that are new, valid, expired and of the
future; two posts can be two of one id, the second dated before the first, and, like two
lists, one that comes while a run is at the other; four posts are a thread of a root, a
reply in both lists and a reply to it, and with three posts of two ids a circle below a
root is reached (without one the query ends, `ConsistentEnds`). Three processes open the database, one with a binary of version 6 and two
of version 5, on files of any version: with two, nobody is there to create the file anew between another's
two steps and be overtaken itself. The second case of `MisjudgesVersion`, a
process that undoes migrations because it took the version of a file that has been
replaced since, needs three different versions, which the run has no room for: TLC
was run once on that module alone with versions 7, 6 and 5 (826,460 states), and
`MigrationsSpoilNothing` covers it. One selection of lints is run, all that find
rows, in their order: the one that deletes requests comes after those that correct
dates and delete accounts, and before the one that corrects Message-IDs. The posts
which are archived there (`Incoming`) are of two kinds, from which the lints make, in two
repairs, dates of the epoch, good dates and ids without brackets. `Author`,
`Browser`, `Letter`, `Updater` and the older processes are given the values of `Member`, and
`ListAddress` and `MessageId` those of `Address`, because only the part that moves has any of them
in its state: that is what lets one symmetry set serve all. Symmetry is used on
addresses, browsers, runs of commands, writers and writes, never in a run that
checks liveness: `subscriptions_web` and `pipeline_refine` have none.

**Fairness.** `Subscriptions` assumes that a process that runs takes its next step
(weak fairness of each writer, web handler and the acceptance); nothing is
assumed of new requests. `RequestsEnd` asks it only while keys are left, because
running out of them is an effect of `MaxPk`. `MailPipeline` assumes the same of
the open transaction, and strong fairness of two actions: that cron starts a
flush again and again and does not find the database locked every time, and
that a flush is not killed at its COMMIT every time. `OutboxDrains` is stated
for behaviours in which flushes do not break off half-way for ever: a server
that cannot be reached, or a process killed each time, does keep the queue full.

### Disagreements with the code's own statements

Each of these runs is expected to find a counterexample, and does:

| Run | Statement | What happens |
|---|---|---|
| `stale_account` | `schema.sql:405`: accounts are linked "if addresses match" | a web handler inserts a key that was removed and reused after it read it |
| `error_queue` | `README.md:86`: mail not handled "end[s] up in the error queue" | the entry is rolled back with the transaction the error drops |
| `dry_post` | `args.rs:101`: "without actually consuming it" | the flag is never read |
| `savepoint_commit` | `connection.rs:1078`: "Commit and consume savepoint" | a dropped savepoint leaves its transaction open, the next commit stores nothing |
| `thread_export` | `connection.rs:701`: "Export a list, message, or thread", `:596`: "the contents of a single thread" | `skip(1)` leaves out the message the thread begins with |
| `policies` | `models.rs:548`, `:669`: "Only one of the [policy] boolean flags must be set to true" | the CHECKs are chains of XORs and count parity: three flags are accepted in both tables |
| | `models.rs:413`, `:432` (help mail): "This list does not allow posting." | anyone may post to a list with an open, a custom or no policy |
| | `models.rs:394` (help mail): "Anyone can subscribe [...] Send an e-mail to [+request]" | a list with an open post policy has no +request address in the map, one without has no address at all |
| | `models.rs:564`: "open", "approval from list owners is required" | no post to an open list is deferred |

`policies` has one state, in which each of these four is false (`OneFlag` in both
tables, `NobodyPosts`, `RequestsArrive`, `OpenNeedsApproval` of `PostingRules`): TLC
refutes the conjunction, and refutes each of them alone when it is given that one.

Two more of the code's own checks can fail in the models, which have the state
but no run for it: the assertion on `subscriptions.rs:319` (the rows are removed
and requested again between the insert and the assertion: `accept.pc = "panic"`)
and the panic of a handle with `DropBehavior::Panic`, which follows a rollback or
an inner commit as well as a drop (`panicked`). No caller in the repository uses
that behaviour.

More were met while modelling, and the models have them as the code does:

- Commands. `mpot list update` clears the columns it is not given (`string_opts!`);
  `mpot list update-subscription` resets the flags it is not given to defaults.
- Posting. A list without a subscription policy subscribes directly although its
  help mail says that nobody may subscribe. A reply whose subject bears the tag is
  sent with two, and a mail that has a List-Id with two of these.
  `enabled` and `verified` do not keep anybody from receiving posts. Digests are
  drafted (`StoreDigest`) and then dropped. `MimeReject` never rejects.
  `ArchivedAtLink` panics without the optional `preserve_carets`. (`FixCRLF` would on
  bytes that are not UTF-8, but `mpot post` refuses these before.)
- Opening. Creation that is interrupted leaves a file that cannot be opened or
  that lacks parts of the schema.
- Web. An account that is not `enabled` can sign in; a second login signs the
  first out; a removed account stays signed in until the server stops; builds
  with debug assertions skip the signature. A thread lacks
  its root; a reply is shown several times when one above it is in two lists, and
  when the root is in another list, a reply is left out in its place. Where one mail
  has the id of another that replies to nothing, and answers a reply to it, the
  recursive query of `list_thread` never ends, for any thread of any list.
- Repairs. The lint on accounts compares the subscription's address with itself,
  so it finds accounts only while there is no subscription at all.
- Postfix. The entry is found by its text, in a comment too; it is appended without a look at the file's last
  byte; each run overwrites the backup.
- Archives. Posts of one list with one id share a page. The breadcrumb of a page
  points to `/lists/`, the pages are in `/list/`.

## What is proved

`tlapm` checks every leaf of the proofs below; there are no assumptions but the
named `ASSUME`s on the constants, which TLC evaluates in every run. The proofs
hold for every number of lists, addresses, processes and mails, whatever the
To and From headers, and for every value of the bounds. (`BoundsAssumption` of
`Transactions` asks for one handle at least: without any, the connection would be
nobody's.)

| Theorem | States |
|---|---|
| `Subscriptions_proofs!TypeCorrect` | `TypeOK`; the lock belongs to the writer whose transaction is open |
| `...!ReferencesSurviveKeyReuse` | `KeysNameTheirRows`: no key ever names the wrong row although keys are reused |
| `...!OnlyStaleAccountsBreakLinks` | `LinkBreaksOnlyByStaleAccount` |
| `...!OnlyRollbackMakesSubscribersWait` | `WaitingSubscriberOnlyAfterRollback` |
| `MailPipeline_proofs!TypeCorrect` | `TypeOK` |
| `...!EveryPostIsDistributed` | `PostIsDistributed` |
| `...!OnlyArchivedIsSent` | `SentIsArchived` |
| `...!SuccessIsKept` | `AcceptedMailIsKept` |
| `...!DeferIsSafe` | `DeferNeverConflicts` |
| `...!SettledOnceHolds` | `SettledOnce` |
| `...!DryFlushIsHarmless` | `DryFlushChangesNothing` |
| `...!DeliversAsPromised` | `ImplementsDelivery`: the commands refine `Delivery` |
| `Administration_proofs!PostsAreByRight` | `ArchivedByRight` |
| `...!UpdatesKeepTheirRow` | `OnlyLeavingMisdirectsUpdate` |
| `...!DeletionsAreOfListed` | `UnseenDeletedOnlyIfLate` |
| `...!NamesAreFound` | `NamesFindTheirList` |
| `...!StrangersWriteOnlyAfterRemoval` | `OnlyRemovalLeavesStrangersWriting` |
| `...!DescriptionsAreKept` | `DescriptionLostOnlyOnRequest` |
| `...!RepairsAreHarmless` | `OnlyLateRowsAreLost` |
| `...!TokensOutliveVisits` | `TokenOutlivesVisits` |
| `...!UsersAreLostToLogins` | `UserLostOnlyToAnotherLogin` |
| `...!MemoryStaysTrue` | `MemoryFalseOnlyWhenOvertaken` |
| `...!LastCopiesAreKept` | `LastCopyLostOnlyByLaterRun` |
| `...!ServicesAreKept` | `OtherServicesAreKept` |
| `...!TypesHold` | `TypesOK` of all the machines |
| `...!PartsKeepTheirPromises` | the 15 properties of the eight machines in the run `administration`, of their composition |
| `Membership_proofs!ChangesMembershipAsPromised` | `ImplementsMembership`: everyone who changes subscriptions refines `Membership` |
| `Transactions_proofs!TypeCorrect` | `TypeOK` |
| `...!InnerCommitsStoreNothing` | `InnerCommitStoresNothing` |
| `...!RollbackUndoes` | `RollbackUndoesTheHandle` |
| `...!TransactionCommitStores` | `CommittedTransactionIsStored` |
| `Archives_proofs!CompletedSites` | `CompletedSiteIsSound` |
| `PostingRules_proofs!PostsAreFilteredAsPromised` | `FilteredPosts` |
| `...!AnnouncementsAreKept` | `AnnouncementsHold` |
| `...!ThreadsAreAsPromised` | `ThreadsShowReplies` |
| `Migrations_proofs!MigrationsSpoilNothing` | `OnlyCreationSpoilsDatabases` |
| `...!UpgradesKeepSettings` | `SettingsSurviveUpgrades` |

**Subscriptions.** The properties speak of the stored image, but a commit stores
whatever a transaction has built, so they are not inductive. `IInv` adds that the
image inside every transaction satisfies the same `GoodDb`, and `Carried`: what
held of the stored image at BEGIN is still held by the transaction's image. The
latter works because the lock keeps `db` still while a transaction is open, which
`TypeOK` says. The first part of `Subscriptions_proofs` shows once for each statement that it
preserves `GoodDb`; that is where reuse of keys matters: a cascade has to clear
every reference before the key is free again. With those lemmas each action is a
short case. The two action properties need the third part of `IInv`: a writer
outside its transaction (`"auto"`, `"insert"`) serves a list that asks for
approval.

**MailPipeline.** None of the properties is inductive either, for the same
reason. `IInv` describes an open post by `PostInv` (its images extend the stored
ones; each archived post is distributed but for the recipients still in hand;
each list examined is archived; a reply of this run is not there yet) and an
open flush by `FlushInv` (what it took is all in its batch, among its failures,
sent, or put back). `Unique`, the table's UNIQUE constraint, is what
makes `DeferNeverConflicts` and the disjointness of `Delivery`'s queues hold;
`Outgoing` says that what waits in the out queue was archived; `Known` ties a
reply's Message-ID to the run that drafted it, without which a reply could be
taken for one that was settled before. Steps fall into four kinds with a
lemma each: a post prepares something (`PostTxStep`), a flush does
(`FlushTxStep`), a transaction ends without effect (`DropStep`), something
happens beside the open transaction (`BesideStep`); the two commits, the record
outside a transaction and the deletion are treated one by one. The
refinement maps `CommitPost` to `Distribute`, a submission to `Send`,
`CommitFlush` to `Flush`, a deletion to `Discard` and all else to stuttering.

`IInv` of both modules was checked by TLC on the small instances before.

**Membership_proofs.** A statement in autocommit is one step of `Membership`, but
a commit stores the work of many. `BuiltInv` adds to `IInv` of
`Subscriptions_proofs` that the image inside every transaction is, seen from the
stored one, one step of the abstract specification: `Joins`, `Leaves` or `Asks`
for some set of addresses of the request's one list, or `SameMembership`. That is
kept by each statement because the lock holds `db` still, and because the request
reads its list and its policy once. What each statement does to the members and
to those who wait is a lemma (`InsertSubJoins` and the others after it).

**Transactions_proofs.** Rust has a stack of handles, SQLite one of marks, and the
second may hold marks of handles that are gone: a savepoint that is dropped to be
ignored stays. `IInv` says how the two agree unless SQLite has ended the
transaction itself (`~lost`): the last mark of a live savepoint's name is the one
it set and holds the image of that moment (`Holds`), and those marks lie in the
order of the handles (`Below`). Only the outermost handle is a transaction, and
live savepoints differ in name (`Nested`). `RELEASE` and `ROLLBACK TO` look for the last mark
of a name, so the lemmas about marks need a largest element of a set of numbers,
which is proved by well-founded induction.

**Archives_proofs.** Nothing that a run finds on the disk can be assumed to be
right, so `ArchiveInvariant` follows the run: the index names the lists it began with,
the lists it has done are `Finished` (their page has every post the run began with, and
for each post that it links to, the page of its id shows that post or a listed one as young),
and of the current list the pages of the posts before `next` show them (`FirstRead`).
The posts that were read need not be the first of their list, since a mail that comes later
may be dated before them; but they are its posts for ever, those of the beginning are among
them, and they are in the order of their dates (`ReadInOrder`), so that each page that is
written over an earlier one of the same id shows a post that is as young. Inserting a post
or repairing a date keeps ids and dates, on which all this rests (`GrowInvariant`). A run
writes no page of another list than the current one, which keeps what is finished.

**Migrations_proofs.** `Redone` and `Undone` are recursive functions: that a chain of
scripts adds, or takes away, exactly the pieces between the two versions and keeps the
settings of the others (`RedoneFacts`, `UndoneFacts`) is proved by induction over
the versions, through a set of those that satisfy the claim (`SetInduction`,
from the least element of a set). The invariant is
small: settings belong to tables that exist, and a table `templates` to a
schema that has its base. The attempt at the proof refuted an earlier form of
`OnlyCreationSpoilsDatabases`, which TLC had found true for two processes: a
process that has read the version of a file, which a second then creates anew
and a third migrates or has half made, goes on to redo or undo migrations from
a version that is not the file's. `MisjudgesVersion` is that case, and the
run now has three processes.

**PostingRules_proofs.** The state never changes, so what is to be shown is shown of
every input: mails with any number of lines and any headers, any owners and subscribers,
every set of flags, addresses of any length. That the padding of the map does not underflow
follows from its width being a maximum (`WidthSuffices`). Of the filters, a job that was
stopped passes unchanged (`StoppedStays`), so a mail without right keeps its contents;
otherwise the author's headers stay at the front in their places while the list's are
appended (`Extended`). Of what is appended, only the second is a List-Id and none is a
subject (`OnlySecond`), until the tag goes to the author's first subject or to one at the
end (`WithTag`). The first subject is the least element of a set of numbers (`LeastExists`,
by well-founded induction).

For threads the table may be of any length, with any ids and any replies (`PostTables`).
The reference is a least set, `Reached`, of which two facts suffice: it goes on along the
relation, and lies in every set that does (`ReachedGoesOn`, `ReachedLeast`). That rows lead
only to the conversation goes by induction over the row above a row (`RowInduction`). The
other direction needs that a row that is as long as the table has nothing below it, which is
what it means that the query ends (`LongestHasNoReply`). That it does end if mails with the
same id reply to the same mail is `ConsistentEnds`: of two equal ids on a way those before
them are equal, and so on up to the root, which replies to nothing; so the ids of a way
differ, the posts with them, and there are no more of these than the table has rows. A way
over posts that are there under their ids once is the only one to its end (`OneWay`), and
when the root is in the list `skip(1)` takes it and nothing else (`RootIsSkipped`). The loop
of `thread_roots` is a recursive function: that the first message on the way down solves its
equation (`FirstMessagesAreFound`), and nothing else does in a tree (`FoundOnce`), makes them
equal.

What is proved of announcements and threads leaves out what is not so:
`PoliciesAreAsDocumented` and `ExportsWholeThread` are the statements that the runs
`policies` and `thread_export` refute.

**Administration_proofs.** Each theorem is about the specification of one module
(`PostingSpec`, `ListSpec`, `QueueSpec`, `RepairSpec`, `SessionSpec`, `PostfixSpec`),
of which the run `administration` has all behaviours within its bounds; `TypesHold`
and `PartsKeepTheirPromises` are about `Administration`, whose behaviours are behaviours
of each (`PartsRunAlone`): only one part moves in each, and they share no variable.
What the code relies on is in the invariants. `ReadIsCurrent`: what an open post has read
is what the tables say, because nobody else can write. `KeyAboveIsFree`: a new
row never gets a key in use, so what a stale key leads to changes only when its
row goes. `TakesListed`: what a deletion in progress would take now is what it has
listed or what arrived since. `ListInvariant`: ids and addresses stay unique
under renames, and an edit in progress is about a list with a key in range.
`FoundIsStale`: whatever a lint is about to delete is still what it objects to, unless something came since about that address.
`TokensInvariant` keeps tokens and the clock numbers, from which the comparison
of the two handlers follows. For the users in memory it takes three more:
`UsersInvariant` (what is in `user_store` and in a request was signed with a token
that was issued), `OwnSignatures` (no two browsers have a token in common, so the
copy that one writes back never passes for the other's user), and `AccountsAgree`
(a request that no change has overtaken agrees with the account it is about, even
when its key was reused before). For `master.cf`, `PostfixInvariant` says of a run that
nobody has overtaken that its backup is what it has read, and that the lines it has
written are those of the new contents; the rest is what the search and the replacement
make of a file (`PositionFound`, `EndFound`, `PlainReplaced`): in a plain file the entry
is found where it is, and what replaces it is the same entry.

Some of the types are not inductive alone. `RepairTypes` needs that the posts that
a lint is about to correct still have brackets (`RepairProgress`): posts are never
deleted, so the keys it has read do not come to mean others. `SessionTypes` needs the
bound on the tokens, `ListTypes` that no list is ever deleted, `PostingTypes` the types
of the post and the update in progress.

### Only model-checked

- Liveness (`RequestsEnd`, `OutboxDrains`): fairness and ENABLED are beyond the
  prover.

## What is not modelled

- The wording of mails, templates, replies and pages, names and time stamps: no
  property depends on them. Which reply is sent is modelled, its text is not.
- Routing, rendering, formatting and configuration files; the test server. They
  have no state of their own.
- The calendar of the archives: arithmetic on days without state or interaction,
  with unit tests.
- The limits of untrusted connections: a fixed table of allowed statements.
- The REST server: it reads, and refuses to write.
- The client of Mailman 3's HTTP interface. The transaction of `import-members` and
  the inserts of `import-maildir` are modelled.
- The triggers that set `last_modified`.
- The processes of `MailPipeline` have no identity, and SQLite's waiting for a
  lock is one failed attempt (`SubmitBusy`), with the busy timeout left out.
- SQLite, the mail servers, Postfix and `ssh-keygen` are modelled from their use
  only.

## Plan

What is left, in this order:

| Next | Models or proves | Aimed at |
|---|---|---|
| `Authorizer` | statements a limited connection may run against those its handlers need | handlers are not refused half-way |
| `Distribution` | `PostFilters` in place of the open choices of `MailPipeline` | the policy decides, through retries and crashes |
