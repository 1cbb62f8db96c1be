------------------------------ MODULE ListPosting ------------------------------
(***************************************************************************)
(* One list while it is used: who may post to it, what its page shows, and *)
(* the options of its subscriptions.                                       *)
(*                                                                         *)
(* `mpot post` reads the policy, the owners and the subscriptions, runs    *)
(* the filters on what it read and archives the post, all in one EXCLUSIVE *)
(* transaction.  The web interface and the commands change policy, owners  *)
(* and subscriptions with statements of their own, which wait for the lock *)
(* and do nothing when they do not get it.                                 *)
(***************************************************************************)
EXTENDS Tables

CONSTANTS
    Author,         \* addresses that post, own the list or subscribe to it
    MailDates,      \* dates of mails: [month, written]
    PostPolicies,   \* "none" and the policies a list can have
    MaxSub          \* bound on the keys of subscriptions

\* The Date header is stored as it was written, which is what RFC 2822 says or something
\* else; the month is that of the time stamp.
ASSUME DateAssumption == \A dated \in MailDates : dated.written \in {"rfc2822", "other"}
ASSUME SubBound == MaxSub \in Nat
ASSUME PolicyAssumption ==
    /\ "none" \in PostPolicies
    /\ PostPolicies \subseteq {"none", "announce_only", "subscription_only",
                              "approval_needed", "open", "custom"}

VARIABLES
    rights,     \* the post policy and the owners
    subs,       \* table `subscription`: key -> address, enabled
    archive,    \* table `post`: the dates of its posts
    poster,     \* the `mpot post` in progress
    updater,    \* the update_subscription in progress
    listPage    \* the list page that is being built

postingVars == <<rights, subs, archive, poster, updater, listPage>>

SubKey == 1 .. MaxSub
Flag   == {"on", "off"}

NoPost   == [pc |-> "idle"]
NoUpdate == [pc |-> "idle"]
NoPage   == [pc |-> "idle"]

PostingInit ==
    /\ rights = [policy |-> "none", owners |-> {}]
    /\ subs = << >>
    /\ archive = {}
    /\ poster = NoPost
    /\ updater = NoUpdate
    /\ listPage = NoPage

Subscribers == {subs[k].address : k \in DOMAIN subs}

\* Another connection can write: no EXCLUSIVE transaction is open.
Writable == poster.pc = "idle"

-------------------------------------------------------------------------------
(***************************************************************************)
(* mpot post                                                               *)
(***************************************************************************)

\* PostRightsCheck on what the transaction read.
PostRightsCheck(read, author) ==
    CASE read.policy = "announce_only"     -> IF author \in read.owners THEN "accept" ELSE "reject"
      [] read.policy = "subscription_only" -> IF author \in read.subscribers THEN "accept" ELSE "reject"
      [] read.policy = "approval_needed"   -> IF author \in read.subscribers THEN "accept" ELSE "defer"
      [] OTHER                             -> "accept"

Read == [policy |-> rights.policy, owners |-> rights.owners, subscribers |-> Subscribers]

\* BEGIN EXCLUSIVE, then the reads of inner_post.
BeginPost(author, dated) ==
    /\ poster.pc = "idle"
    /\ poster' = [pc |-> "filter", author |-> author, dated |-> dated, read |-> Read]
    /\ UNCHANGED <<rights, subs, archive, updater, listPage>>

\* The filters decide, the post is archived, and the transaction commits.
EndPost ==
    /\ poster.pc = "filter"
    /\ archive' = archive \cup
         (IF PostRightsCheck(poster.read, poster.author) = "accept"
          THEN {poster.dated} ELSE {})
    /\ poster' = NoPost
    /\ UNCHANGED <<rights, subs, updater, listPage>>

\* An error or the death of the process: the transaction is rolled back.
AbortPost ==
    /\ poster.pc = "filter"
    /\ poster' = NoPost
    /\ UNCHANGED <<rights, subs, archive, updater, listPage>>

-------------------------------------------------------------------------------
(***************************************************************************)
(* Policy, owners and subscriptions                                        *)
(***************************************************************************)

\* Mutant: the policy changes under an open transaction.
SetPostPolicy_AnyTime(policy) ==
    /\ rights' = [rights EXCEPT !.policy = policy]
    /\ UNCHANGED <<subs, archive, poster, updater, listPage>>

\* set_list_post_policy and remove_list_post_policy
SetPostPolicy(policy) ==
    /\ Writable
    /\ rights' = [rights EXCEPT !.policy = policy]
    /\ UNCHANGED <<subs, archive, poster, updater, listPage>>

\* add_list_owner and remove_list_owner
SetOwners(owners) ==
    /\ Writable
    /\ rights' = [rights EXCEPT !.owners = owners]
    /\ UNCHANGED <<subs, archive, poster, updater, listPage>>

\* add_subscription, by whichever way; the rowid is one above the highest.
JoinList(a) ==
    /\ Writable
    /\ a \notin Subscribers
    /\ LET k == NextKey(subs)
       IN  /\ k \in SubKey
           /\ subs' = Put(subs, k, [address |-> a, enabled |-> "on"])
    /\ UNCHANGED <<rights, archive, poster, updater, listPage>>

\* remove_subscription
LeaveList(a) ==
    /\ Writable
    /\ a \in Subscribers
    /\ subs' = Without(subs, {k \in DOMAIN subs : subs[k].address = a})
    /\ UNCHANGED <<rights, archive, poster, updater, listPage>>

-------------------------------------------------------------------------------
(***************************************************************************)
(* update_subscription                                                     *)
(***************************************************************************)

\* What the callers ask for; a column that is not in the changeset is kept.  Of the
\* columns, `enabled` is the one the callers treat differently: the form of the web
\* interface does not have it, the options of `mpot list update-subscription` have
\* defaults, so it sets all the columns, and `mpot list enable-subscription` and
\* `disable-subscription` set no other.
WebOptions     == [enabled : {"keep"}]
CliOptions     == [enabled : Flag]
EnableOptions  == [enabled : {"on"}]
DisableOptions == [enabled : {"off"}]
Options        == WebOptions \cup CliOptions \cup EnableOptions \cup DisableOptions

\* Mutant: the key is read once and used for whoever comes next.
ReadKey_AnyAddress(a, options) ==
    /\ updater.pc = "idle"
    /\ \E k \in DOMAIN subs :
          updater' = [pc |-> "write", address |-> a, key |-> k, options |-> options]
    /\ UNCHANGED <<rights, subs, archive, poster, listPage>>

\* The key of the row, read on its own.
ReadKey(a, options) ==
    /\ updater.pc = "idle"
    /\ \E k \in DOMAIN subs :
         /\ subs[k].address = a
         /\ updater' = [pc |-> "write", address |-> a, key |-> k, options |-> options]
    /\ UNCHANGED <<rights, subs, archive, poster, listPage>>

OptionsSet(row, options) ==
    [row EXCEPT !.enabled = IF options.enabled = "keep" THEN @ ELSE options.enabled]

\* The savepoint with one UPDATE per column, WHERE list = ? AND pk = ?
WriteOptions ==
    /\ updater.pc = "write"
    /\ Writable
    /\ subs' = IF updater.key \in DOMAIN subs
               THEN [subs EXCEPT ![updater.key] = OptionsSet(@, updater.options)] ELSE subs
    /\ updater' = NoUpdate
    /\ UNCHANGED <<rights, archive, poster, listPage>>

\* The database stays locked for longer than the handler waits.
UpdateFails ==
    /\ updater.pc = "write"
    /\ ~Writable
    /\ updater' = NoUpdate
    /\ UNCHANGED <<rights, subs, archive, poster, listPage>>

-------------------------------------------------------------------------------
(***************************************************************************)
(* The page of the list                                                    *)
(***************************************************************************)

\* months()
ReadMonths ==
    /\ listPage.pc = "idle"
    /\ listPage' = [pc |-> "posts", months |-> {post.month : post \in archive}]
    /\ UNCHANGED <<rights, subs, archive, poster, updater>>

\* list_posts(), then the count of the posts of each day of the months read before, of
\* the posts that threads are named for: it panics on a date it can read that is of another
\* month.  Which posts those are is decided by their references.
ShowPosts ==
    /\ listPage.pc = "posts"
    /\ \E named \in SUBSET archive :
         listPage' = IF \E post \in named : post.written = "rfc2822" /\ post.month \notin listPage.months
                     THEN [pc |-> "panicked"] ELSE NoPage
    /\ UNCHANGED <<rights, subs, archive, poster, updater>>

\* The server answers the next request.
NextPage ==
    /\ listPage.pc = "panicked"
    /\ listPage' = NoPage
    /\ UNCHANGED <<rights, subs, archive, poster, updater>>

PostingNext ==
    \/ \E a \in Author, dated \in MailDates : BeginPost(a, dated)
    \/ EndPost \/ AbortPost
    \/ \E policy \in PostPolicies : SetPostPolicy(policy)
    \/ \E owners \in SUBSET Author : SetOwners(owners)
    \/ \E a \in Author : JoinList(a) \/ LeaveList(a)
    \/ \E a \in Author, options \in Options : ReadKey(a, options)
    \/ WriteOptions \/ UpdateFails
    \/ ReadMonths \/ ShowPosts \/ NextPage

PostingSpec == PostingInit /\ [][PostingNext]_postingVars

-------------------------------------------------------------------------------
(***************************************************************************)
(* Properties                                                              *)
(***************************************************************************)

\* Type correctness; no address is subscribed twice.
PostingTypeOK ==
    /\ rights \in [policy : PostPolicies, owners : SUBSET Author]
    /\ DOMAIN subs \subseteq SubKey
    /\ subs \in [DOMAIN subs -> [address : Author, enabled : Flag]]
    /\ \A k, m \in DOMAIN subs : subs[k].address = subs[m].address => k = m
    /\ archive \subseteq MailDates
    /\ poster.pc \in {"idle", "filter"}
    /\ updater.pc = "idle" \/ updater.key \in SubKey
    /\ listPage.pc \in {"idle", "posts", "panicked"}

\* The policy says yes, as the tables are now.
MayPost(a) ==
    /\ rights.policy = "announce_only" => a \in rights.owners
    /\ rights.policy \in {"subscription_only", "approval_needed"} => a \in Subscribers

\* A post enters the archive only while the policy, the owners and the
\* subscriptions of that moment allow its author to post: nobody can change
\* them between the read and the commit of `mpot post`.
ArchivedByRight ==
    [][ archive' # archive => MayPost(poster.author) ]_postingVars

\* The update in progress is about the row it was made for.
UpdateHasItsRow ==
    updater.pc = "write" =>
        updater.key \in DOMAIN subs /\ subs[updater.key].address = updater.address

\* The key that update_subscription reads before its savepoint stops leading to
\* the row it was read from only when that row is removed (after which the key may
\* be given to somebody else's subscription): no other subscription, update or
\* removal misdirects the update.
OnlyLeavingMisdirectsUpdate ==
    [][ UpdateHasItsRow /\ ~UpdateHasItsRow' =>
            updater'.key \in DOMAIN subs \ DOMAIN subs' ]_postingVars
=============================================================================
