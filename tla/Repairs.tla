-------------------------------- MODULE Repairs --------------------------------
(***************************************************************************)
(* `mpot repair`: the lints that look for rows to correct, and with --fix  *)
(* correct them.                                                           *)
(*                                                                         *)
(* Each lint reads the rows it objects to with one statement and writes in *)
(* a transaction that it opens afterwards, by primary key; the tables are  *)
(* in use in between, and a key that becomes free is given to a new row.   *)
(* One list is modelled.                                                   *)
(***************************************************************************)
EXTENDS Tables

CONSTANTS
    Member,         \* addresses
    MaxRows,        \* bound on the keys of accounts and of requests
    MaxPosts,       \* bound on the keys of posts
    Selections,     \* the sets of lints that are selected together
    Incoming        \* the posts that are archived

ASSUME RowBounds == MaxRows \in Nat /\ MaxPosts \in Nat

VARIABLES
    account,    \* table `account`: key -> address
    subscribed, \* table `subscription`: the addresses on the list
    candidate,  \* table `candidate_subscription`: key -> address, accepted
    posts,      \* table `post`: key -> the form of its date, and how many pairs
                \* of angle brackets its Message-ID has
    repair      \* the `mpot repair` in progress

repairVars == <<account, subscribed, candidate, posts, repair>>

RowKey  == 1 .. MaxRows
PostKey == 1 .. MaxPosts

\* What the `datetime` of a post may be; "epoch" is RFC 822 for the second 0.
DateForm == {"rfc822", "epoch", "rfc3339", "rfc3339 epoch", "junk"}
Post     == [date : DateForm, brackets : 0 .. 2]

ASSUME IncomingAssumption == Incoming \subseteq Post

\* The lints, in the order in which `repair` runs those that were selected.
Lint == [datetime |-> 1, accounts |-> 2, requests |-> 3, owners |-> 4, ids |-> 5]
LintNo == Range(Lint)

ASSUME SelectionAssumption == Selections \subseteq SUBSET (1 .. 5)

NoRepair == [pc |-> "idle"]

RepairInit ==
    /\ account = << >>
    /\ subscribed = {}
    /\ candidate = << >>
    /\ posts = << >>
    /\ repair = NoRepair

-------------------------------------------------------------------------------
(***************************************************************************)
(* What the lints find, and what they write                                *)
(***************************************************************************)

\* rfc822_to_timestamp fails, or gives 0.
BadDates == {k \in DOMAIN posts : posts[k].date # "rfc822"}

\* A date in RFC 3339 is rewritten; another is made from the timestamp of the
\* post or of its row.
CorrectDate(date) == IF date = "rfc3339 epoch" THEN "epoch" ELSE "rfc822"

\* Mutant: accounts are not compared with subscriptions at all.
EmptyAccounts_All == DOMAIN account

\* `WHERE s.address = address`: both are the address of the subscription, so an
\* account counts as empty only while there is no subscription of anybody.
EmptyAccounts == IF subscribed = {} THEN DOMAIN account ELSE {}

AcceptedRequests == {k \in DOMAIN candidate : candidate[k].accepted = "yes"}

\* message_id LIKE '<%' OR message_id LIKE '%>'
BracketedIds == {k \in DOMAIN posts : posts[k].brackets > 0}

\* warn_list_no_owner only prints.
Found(lint) ==
    CASE lint = Lint.datetime -> BadDates
      [] lint = Lint.accounts -> EmptyAccounts
      [] lint = Lint.requests -> AcceptedRequests
      [] lint = Lint.owners   -> {}
      [] lint = Lint.ids      -> BracketedIds

NextLint(todo) == IF todo = {} THEN NoRepair ELSE [repair EXCEPT !.pc = "read", !.todo = todo]

-------------------------------------------------------------------------------
(***************************************************************************)
(* mpot repair                                                             *)
(***************************************************************************)

\* At least one lint, in the order of the table.  `since` is bookkeeping: the
\* addresses that got a new row after the lint read the tables.
BeginRepair(lints, fix) ==
    /\ repair = NoRepair
    /\ lints # {}
    /\ repair' = [pc |-> "read", todo |-> lints, fix |-> fix, found |-> {}, since |-> {}]
    /\ UNCHANGED <<account, subscribed, candidate, posts>>

ReadLint ==
    /\ repair.pc = "read"
    /\ repair' = [repair EXCEPT !.pc = "write", !.found = Found(Min(repair.todo)), !.since = {}]
    /\ UNCHANGED <<account, subscribed, candidate, posts>>

\* The transaction of the lint, or nothing in a dry run.
WriteLint ==
    /\ repair.pc = "write"
    /\ LET lint  == Min(repair.todo)
           found == IF repair.fix = "yes" THEN repair.found ELSE {}
           touched(no) == IF lint = no THEN found ELSE {}
       IN  /\ posts' = [k \in DOMAIN posts |->
                 [date |-> IF k \in touched(Lint.datetime)
                           THEN CorrectDate(posts[k].date) ELSE posts[k].date,
                  brackets |-> IF k \in touched(Lint.ids)
                               THEN posts[k].brackets - 1 ELSE posts[k].brackets]]
           /\ account' = Without(account, touched(Lint.accounts))
           /\ candidate' = Without(candidate, touched(Lint.requests))
           /\ repair' = NextLint(repair.todo \ {lint})
    /\ UNCHANGED subscribed

\* A statement fails, the database is busy, or the process dies: the lints that
\* finished stay done.
AbortRepair ==
    /\ repair # NoRepair
    /\ repair' = NoRepair
    /\ UNCHANGED <<account, subscribed, candidate, posts>>

-------------------------------------------------------------------------------
(***************************************************************************)
(* Meanwhile                                                               *)
(***************************************************************************)
Since(a) ==
    IF repair.pc = "write" THEN [repair EXCEPT !.since = @ \cup {a}] ELSE repair

\* add_account
OpenAccount(a) ==
    /\ a \notin Range(account)
    /\ NextKey(account) \in RowKey
    /\ account' = Put(account, NextKey(account), a)
    /\ repair' = Since(a)
    /\ UNCHANGED <<subscribed, candidate, posts>>

\* remove_account
CloseAccount(a) ==
    /\ a \in Range(account)
    /\ account' = Without(account, {k \in DOMAIN account : account[k] = a})
    /\ UNCHANGED <<subscribed, candidate, posts, repair>>

RequestsOf(a) == {k \in DOMAIN candidate : candidate[k].address = a}

\* add_candidate_subscription
Ask(a) ==
    /\ a \notin subscribed /\ RequestsOf(a) = {}
    /\ NextKey(candidate) \in RowKey
    /\ candidate' = Put(candidate, NextKey(candidate), [address |-> a, accepted |-> "no"])
    /\ repair' = Since(a)
    /\ UNCHANGED <<account, subscribed, posts>>

\* add_subscription, or accept_candidate_subscription when there is a request:
\* the trigger of the insertion marks the request.
Subscribe(a) ==
    /\ a \notin subscribed
    /\ subscribed' = subscribed \cup {a}
    /\ candidate' = [k \in DOMAIN candidate |->
                        IF k \in RequestsOf(a) THEN [candidate[k] EXCEPT !.accepted = "yes"]
                        ELSE candidate[k]]
    /\ repair' = Since(a)
    /\ UNCHANGED <<account, posts>>

\* Mutant: the request that led to the subscription stays.
Unsubscribe_KeepsRequest(a) ==
    /\ a \in subscribed
    /\ subscribed' = subscribed \ {a}
    /\ UNCHANGED <<account, candidate, posts, repair>>

\* remove_subscription; the request that led to it goes too (ON DELETE CASCADE).
Unsubscribe(a) ==
    /\ a \in subscribed
    /\ subscribed' = subscribed \ {a}
    /\ candidate' = Without(candidate, RequestsOf(a))
    /\ UNCHANGED <<account, posts, repair>>

\* insert_post, with whatever date and Message-ID the mail has
ArchivePost(post) ==
    /\ NextKey(posts) \in PostKey
    /\ posts' = Put(posts, NextKey(posts), post)
    /\ UNCHANGED <<account, subscribed, candidate, repair>>

RepairNext ==
    \/ \E lints \in Selections, fix \in {"yes", "no"} : BeginRepair(lints, fix)
    \/ ReadLint \/ WriteLint \/ AbortRepair
    \/ \E a \in Member : \/ OpenAccount(a) \/ CloseAccount(a)
                         \/ Ask(a) \/ Subscribe(a) \/ Unsubscribe(a)
    \/ \E post \in Incoming : ArchivePost(post)

RepairSpec == RepairInit /\ [][RepairNext]_repairVars

-------------------------------------------------------------------------------
(***************************************************************************)
(* Properties                                                              *)
(***************************************************************************)

\* Type correctness; an accepted request has its subscription, and nobody has
\* two requests or two accounts.
RepairTypeOK ==
    /\ DOMAIN account \subseteq RowKey /\ account \in [DOMAIN account -> Member]
    /\ \A k, m \in DOMAIN account : account[k] = account[m] => k = m
    /\ subscribed \subseteq Member
    /\ DOMAIN candidate \subseteq RowKey
    /\ candidate \in [DOMAIN candidate -> [address : Member, accepted : {"yes", "no"}]]
    /\ \A k, m \in DOMAIN candidate : candidate[k].address = candidate[m].address => k = m
    /\ \A k \in DOMAIN candidate :
          candidate[k].accepted = "yes" => candidate[k].address \in subscribed
    /\ DOMAIN posts \subseteq PostKey /\ posts \in [DOMAIN posts -> Post]
    /\ repair # NoRepair => repair.todo \subseteq LintNo /\ repair.found \subseteq RowKey \cup PostKey

\* A step of the repair, and not of anybody else.
Repairing == repair.pc = "write" /\ repair'.pc # "write"

\* The repair takes the account of a subscriber, or a request that nobody
\* accepted, only if that account, subscription or request was made after the
\* lint had read the tables: an account counts as empty only while there is no
\* subscription at all, and a request can get the key of an accepted one that
\* went with its subscription.
OnlyLateRowsAreLost ==
    [][ Repairing =>
          /\ \A k \in DOMAIN account \ DOMAIN account' :
               account[k] \in subscribed => account[k] \in repair.since
          /\ \A k \in DOMAIN candidate \ DOMAIN candidate' :
               candidate[k].accepted = "no" => candidate[k].address \in repair.since ]_repairVars
=============================================================================
