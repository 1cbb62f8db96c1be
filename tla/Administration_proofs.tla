------------------------- MODULE Administration_proofs -------------------------
(***************************************************************************)
(* Theorems about the small machines around the pipeline: posting under    *)
(* changing rights, administering lists, deleting from queues, repairs,    *)
(* signing in and the Postfix configuration.  Each part has an inductive   *)
(* invariant of its own.                                                   *)
(***************************************************************************)
EXTENDS Administration, Migrations_proofs, Archives_proofs, SequenceTheorems, FiniteSetTheorems

-------------------------------------------------------------------------------
(***************************************************************************)
(* SQLite's choice of a key                                                *)
(***************************************************************************)

\* The key above the highest is free.
LEMMA KeyAboveIsFree ==
    ASSUME NEW n \in Nat, NEW S, S \subseteq 1 .. n
    PROVE  Max({0} \cup S) + 1 \in Nat \ S
<1> DEFINE U == {0} \cup S
           T == {n - x : x \in U}
<1>1. U \subseteq 0 .. n
  OBVIOUS
<1>2. T \subseteq Nat /\ T # {}
  BY <1>1
<1>3. PICK d \in T : \A e \in T : ~(<<e, d>> \in OpToRel(<, Nat))
  BY <1>2, NatLessThanWellFounded, WFMin
<1>4. PICK m \in U : d = n - m
  OBVIOUS
<1>5. \A y \in U : m >= y
  <2> TAKE y \in U
  <2>1. n - y \in T /\ n - y \in Nat /\ d \in Nat
    BY <1>2
  <2>2. ~(n - y < d)
    BY <1>3, <2>1 DEF OpToRel
  <2>3. QED
    BY <2>2, <1>1, <1>4
<1>6. Max(U) \in U /\ (\A y \in U : Max(U) >= y)
  BY <1>5 DEF Max
<1>7. PICK k \in U : k = Max(U)
  BY <1>6
<1>8. k + 1 \in Nat \ U
  BY <1>1, <1>6, <1>7
<1>9. QED
  BY <1>7, <1>8

-------------------------------------------------------------------------------
(***************************************************************************)
(* Posting                                                                 *)
(***************************************************************************)

\* What an open transaction has read is still so: nobody else can write.
ReadIsCurrent == poster.pc = "filter" => poster.read = Read

LEMMA PostingInvariant == PostingSpec => []ReadIsCurrent
<1>1. PostingInit => ReadIsCurrent
  BY DEF PostingInit, ReadIsCurrent, NoPost
<1>2. ReadIsCurrent /\ [PostingNext]_postingVars => ReadIsCurrent'
  <2> SUFFICES ASSUME ReadIsCurrent, [PostingNext]_postingVars PROVE ReadIsCurrent'
    OBVIOUS
  <2> USE DEF ReadIsCurrent
  <2>1. ASSUME UNCHANGED <<rights, subs, poster>> PROVE ReadIsCurrent'
    BY <2>1 DEF Read, Subscribers
  <2>2. ASSUME Writable, UNCHANGED poster PROVE ReadIsCurrent'
    BY <2>2 DEF Writable
  <2>3. ASSUME poster' = NoPost PROVE ReadIsCurrent'
    BY <2>3 DEF NoPost
  <2>4. CASE \E a \in Author, dated \in MailDates : BeginPost(a, dated)
    BY <2>4 DEF BeginPost, Read, Subscribers
  <2>5. CASE EndPost \/ AbortPost
    BY <2>5, <2>3 DEF EndPost, AbortPost
  <2>6. CASE \/ \E policy \in PostPolicies : SetPostPolicy(policy)
             \/ \E new \in SUBSET Author : SetOwners(new)
             \/ \E a \in Author : JoinList(a) \/ LeaveList(a)
    BY <2>6, <2>2 DEF SetPostPolicy, SetOwners, JoinList, LeaveList
  <2>7. CASE \E a \in Author, options \in Options : ReadKey(a, options)
    BY <2>7, <2>1 DEF ReadKey
  <2>8. CASE WriteOptions
    BY <2>8, <2>2 DEF WriteOptions
  <2>9. CASE UpdateFails \/ ReadMonths \/ ShowPosts \/ NextPage
    BY <2>9, <2>1 DEF UpdateFails, ReadMonths, ShowPosts, NextPage
  <2>10. CASE UNCHANGED postingVars
    BY <2>10, <2>1 DEF postingVars
  <2>11. QED
    BY <2>4, <2>5, <2>6, <2>7, <2>8, <2>9, <2>10 DEF PostingNext
<1>3. QED
  BY <1>1, <1>2, PTL DEF PostingSpec

\* A post enters the archive only while the rights of that moment allow its
\* author to post, whoever changes policies, owners and subscriptions beside
\* `mpot post`.
THEOREM PostsAreByRight == PostingSpec => ArchivedByRight
<1>1. ReadIsCurrent /\ [PostingNext]_postingVars
        => (archive' # archive => MayPost(poster.author))
  <2> SUFFICES ASSUME ReadIsCurrent, [PostingNext]_postingVars, archive' # archive
               PROVE  MayPost(poster.author)
    OBVIOUS
  <2>1. EndPost
    BY DEF PostingNext, BeginPost, AbortPost, SetPostPolicy, SetOwners, JoinList, LeaveList,
           ReadKey, WriteOptions, UpdateFails, ReadMonths, ShowPosts, NextPage, postingVars
  <2>2. PostRightsCheck(Read, poster.author) = "accept"
    BY <2>1 DEF EndPost, ReadIsCurrent
  <2>3. QED
    BY <2>2 DEF PostRightsCheck, Read, MayPost
<1>2. QED
  BY <1>1, PostingInvariant, PTL DEF PostingSpec, ArchivedByRight

LEMMA SubKeysInvariant == PostingSpec => [](DOMAIN subs \subseteq SubKey)
<1>1. PostingInit => DOMAIN subs \subseteq SubKey
  BY DEF PostingInit
<1>2. DOMAIN subs \subseteq SubKey /\ [PostingNext]_postingVars => (DOMAIN subs \subseteq SubKey)'
  <2> SUFFICES ASSUME DOMAIN subs \subseteq SubKey, [PostingNext]_postingVars
               PROVE  DOMAIN subs' \subseteq SubKey
    BY DEF SubKey
  <2>1. CASE \E a \in Author : JoinList(a)
    BY <2>1 DEF JoinList, Put
  <2>2. CASE \E a \in Author : LeaveList(a)
    BY <2>2 DEF LeaveList, Without, Restrict
  <2>3. CASE WriteOptions
    BY <2>3 DEF WriteOptions
  <2>4. CASE UNCHANGED subs
    BY <2>4
  <2>5. QED
    BY <2>1, <2>2, <2>3, <2>4
       DEF PostingNext, BeginPost, EndPost, AbortPost, SetPostPolicy, SetOwners, ReadKey,
           UpdateFails, ReadMonths, ShowPosts, NextPage, postingVars
<1>3. QED
  BY <1>1, <1>2, PTL DEF PostingSpec

\* The key that update_subscription has read stops naming the row it was read from
\* only in the step that removes that row.
THEOREM UpdatesKeepTheirRow == PostingSpec => OnlyLeavingMisdirectsUpdate
<1>1. DOMAIN subs \subseteq SubKey /\ [PostingNext]_postingVars
        => (UpdateHasItsRow /\ ~UpdateHasItsRow' =>
                updater'.key \in DOMAIN subs \ DOMAIN subs')
  <2> SUFFICES ASSUME DOMAIN subs \subseteq SubKey, [PostingNext]_postingVars,
                      UpdateHasItsRow, updater'.key \notin DOMAIN subs \ DOMAIN subs'
               PROVE  UpdateHasItsRow'
    OBVIOUS
  <2>1. ASSUME UNCHANGED <<subs, updater>> PROVE UpdateHasItsRow'
    BY <2>1 DEF UpdateHasItsRow
  <2>2. ASSUME updater' = NoUpdate PROVE UpdateHasItsRow'
    BY <2>2 DEF UpdateHasItsRow, NoUpdate
  <2>3. ASSUME NEW a \in Author, JoinList(a) PROVE UpdateHasItsRow'
    <3> DEFINE k == NextKey(subs)
    <3>1. k \notin DOMAIN subs
      BY KeyAboveIsFree, SubBound DEF SubKey, NextKey
    <3>2. updater' = updater /\ subs' = Put(subs, k, [address |-> a, enabled |-> "on"])
      BY <2>3 DEF JoinList
    <3> HIDE DEF k
    <3>3. QED
      BY <3>1, <3>2 DEF Put, UpdateHasItsRow
  <2>4. ASSUME NEW a \in Author, LeaveList(a) PROVE UpdateHasItsRow'
    BY <2>4 DEF LeaveList, Without, Restrict, UpdateHasItsRow
  <2>5. ASSUME NEW a \in Author, NEW options, ReadKey(a, options) PROVE UpdateHasItsRow'
    BY <2>5 DEF ReadKey, UpdateHasItsRow
  <2>6. CASE WriteOptions \/ UpdateFails
    BY <2>6, <2>2 DEF WriteOptions, UpdateFails
  <2>7. QED
    BY <2>1, <2>3, <2>4, <2>5, <2>6
       DEF PostingNext, BeginPost, EndPost, AbortPost, SetPostPolicy, SetOwners,
           ReadMonths, ShowPosts, NextPage, postingVars
<1>2. QED
  BY <1>1, SubKeysInvariant, PTL DEF PostingSpec, OnlyLeavingMisdirectsUpdate

\* The types of the post and of the update in progress, on which the rows they write
\* depend
InProgressTypes ==
    /\ updater \in {NoUpdate} \cup [pc : {"write"}, address : Author, key : SubKey,
                                   options : Options]
    /\ poster.pc = "filter" => poster.dated \in MailDates

\* No address is subscribed twice, and a row that an update writes keeps its address.
LEMMA PostingTypes == PostingSpec => []PostingTypeOK
<1> DEFINE Inv == PostingTypeOK /\ InProgressTypes
<1>1. PostingInit => Inv
  BY PolicyAssumption
     DEF PostingInit, PostingTypeOK, InProgressTypes, NoPost, NoUpdate, NoPage
<1>2. Inv /\ [PostingNext]_postingVars => Inv'
  <2> SUFFICES ASSUME Inv, [PostingNext]_postingVars PROVE Inv'
    OBVIOUS
  <2>1. ASSUME UNCHANGED <<rights, subs, archive, updater>>, poster'.pc \in {"idle", "filter"},
               poster'.pc = "filter" => poster'.dated \in MailDates,
               listPage'.pc \in {"idle", "posts", "panicked"}
        PROVE  Inv'
    BY <2>1 DEF PostingTypeOK, InProgressTypes
  <2>2. ASSUME NEW a \in Author, NEW dated \in MailDates, BeginPost(a, dated) PROVE Inv'
    BY <2>1, <2>2 DEF BeginPost, PostingTypeOK
  <2>3. CASE EndPost
    <3>1. archive' \subseteq MailDates
      BY <2>3 DEF EndPost, PostingTypeOK, InProgressTypes
    <3>2. QED
      BY <2>3, <3>1 DEF EndPost, NoPost, PostingTypeOK, InProgressTypes
  <2>4. CASE AbortPost
    BY <2>1, <2>4 DEF AbortPost, NoPost, PostingTypeOK
  <2>5. ASSUME NEW policy \in PostPolicies, SetPostPolicy(policy) PROVE Inv'
    BY <2>5 DEF SetPostPolicy, PostingTypeOK, InProgressTypes
  <2>6. ASSUME NEW o \in SUBSET Author, SetOwners(o) PROVE Inv'
    BY <2>6 DEF SetOwners, PostingTypeOK, InProgressTypes
  <2>7. ASSUME NEW a \in Author, JoinList(a) PROVE Inv'
    BY <2>7 DEF JoinList, Put, Subscribers, Flag, PostingTypeOK, InProgressTypes
  <2>8. ASSUME NEW a \in Author, LeaveList(a) PROVE Inv'
    BY <2>8 DEF LeaveList, Without, Restrict, PostingTypeOK, InProgressTypes
  <2>9. ASSUME NEW a \in Author, NEW options \in Options, ReadKey(a, options) PROVE Inv'
    BY <2>9 DEF ReadKey, PostingTypeOK, InProgressTypes
  <2>10. CASE WriteOptions
    <3>1. updater \in [pc : {"write"}, address : Author, key : SubKey, options : Options]
      BY <2>10 DEF WriteOptions, InProgressTypes, NoUpdate
    <3>2. updater.options.enabled \in Flag \cup {"keep"}
      BY <3>1 DEF Options, WebOptions, CliOptions, EnableOptions, DisableOptions, Flag
    <3>3. \A row \in [address : Author, enabled : Flag] :
             /\ OptionsSet(row, updater.options) \in [address : Author, enabled : Flag]
             /\ OptionsSet(row, updater.options).address = row.address
      BY <3>2 DEF OptionsSet
    <3>4. /\ DOMAIN subs' = DOMAIN subs
          /\ subs' \in [DOMAIN subs -> [address : Author, enabled : Flag]]
          /\ \A k \in DOMAIN subs : subs'[k].address = subs[k].address
      BY <2>10, <3>3 DEF WriteOptions, PostingTypeOK
    <3>5. QED
      BY <2>10, <3>4 DEF WriteOptions, NoUpdate, PostingTypeOK, InProgressTypes
  <2>11. CASE UpdateFails
    BY <2>11 DEF UpdateFails, NoUpdate, PostingTypeOK, InProgressTypes
  <2>12. CASE ReadMonths
    BY <2>1, <2>12 DEF ReadMonths, PostingTypeOK, InProgressTypes
  <2>13. CASE ShowPosts
    BY <2>1, <2>13 DEF ShowPosts, NoPage, PostingTypeOK, InProgressTypes
  <2>14. CASE NextPage
    BY <2>1, <2>14 DEF NextPage, NoPage, PostingTypeOK, InProgressTypes
  <2>15. CASE UNCHANGED postingVars
    BY <2>1, <2>15 DEF postingVars, PostingTypeOK, InProgressTypes
  <2> HIDE DEF Inv
  <2>16. QED
    BY <2>2, <2>3, <2>4, <2>5, <2>6, <2>7, <2>8, <2>9, <2>10, <2>11, <2>12, <2>13, <2>14, <2>15
       DEF PostingNext
<1>3. QED
  BY <1>1, <1>2, PTL DEF PostingSpec

-------------------------------------------------------------------------------
(***************************************************************************)
(* Queues                                                                  *)
(***************************************************************************)

\* A deletion in progress will take what it has read, or what arrived since.
TakesListed ==
    /\ command \in {NoCommand} \cup [pc : {"delete"}, queue : QueueName, index : SUBSET EntryKey,
                                     listed : SUBSET Int, arrived : SUBSET Int]
    /\ DOMAIN entries \subseteq EntryKey
    /\ command.pc = "delete" =>
          DeleteFromQueue(command.queue, command.index) \subseteq command.listed \cup command.arrived

LEMMA QueueInvariant == QueueSpec => []TakesListed
<1>1. QueueInit => TakesListed
  BY DEF QueueInit, TakesListed, NoCommand
<1>2. TakesListed /\ [QueueNext]_queueVars => TakesListed'
  <2> SUFFICES ASSUME TakesListed, [QueueNext]_queueVars PROVE TakesListed'
    OBVIOUS
  <2> USE DEF TakesListed, DeleteFromQueue, KeysOf, NoCommand
  <2>1. ASSUME NEW queue \in QueueName, NEW letter \in Letter, InsertToQueue(queue, letter)
        PROVE  TakesListed'
    <3> DEFINE k == NextKey(entries)
    <3>1. k \in EntryKey /\ k \in Int
      BY <2>1, QueueBounds DEF InsertToQueue, EntryKey
    <3>2. DOMAIN entries' = {k} \cup DOMAIN entries
      BY <2>1 DEF InsertToQueue, Put
    <3>3. \A e \in DOMAIN entries' \ {k} : entries'[e] = entries[e]
      BY <2>1 DEF InsertToQueue, Put
    <3>4. CASE command.pc = "delete"
      <4>1. command' = [command EXCEPT !.arrived = @ \cup {k}]
        BY <2>1, <3>4 DEF InsertToQueue
      <4>2. QED
        BY <3>1, <3>2, <3>3, <3>4, <4>1
    <3>5. CASE command.pc # "delete"
      BY <2>1, <3>1, <3>2, <3>5 DEF InsertToQueue
    <3>6. QED
      BY <3>4, <3>5
  <2>2. ASSUME NEW queue \in QueueName, Flush(queue) PROVE TakesListed'
    BY <2>2 DEF Flush, Without, Restrict
  <2>3. ASSUME NEW queue \in QueueName, NEW index \in SUBSET EntryKey, BeginDelete(queue, index)
        PROVE  TakesListed'
    BY <2>3 DEF BeginDelete, EntryKey
  <2>4. CASE EndDelete
    BY <2>4 DEF EndDelete, Without, Restrict
  <2>5. CASE AbortDelete
    BY <2>5 DEF AbortDelete
  <2>6. CASE UNCHANGED <<entries, command>>
    BY <2>6
  <2>7. QED
    BY <2>1, <2>2, <2>3, <2>4, <2>5, <2>6 DEF QueueNext, AddTemplate, RemoveTemplate, queueVars
<1>3. QED
  BY <1>1, <1>2, PTL DEF QueueSpec

\* `mpot queue delete` deletes an entry that it has not read only if the entry
\* arrived after it read the queue, although it deletes by key, or everything, in
\* a transaction of its own.
THEOREM DeletionsAreOfListed == QueueSpec => UnseenDeletedOnlyIfLate
<1>1. TakesListed /\ [QueueNext]_queueVars
        => (command.pc = "delete" /\ command'.pc = "idle" =>
              DOMAIN entries \ DOMAIN entries' \subseteq command.listed \cup command.arrived)
  <2> SUFFICES ASSUME TakesListed, [QueueNext]_queueVars,
                      command.pc = "delete", command'.pc = "idle"
               PROVE  DOMAIN entries \ DOMAIN entries' \subseteq command.listed \cup command.arrived
    OBVIOUS
  <2>1. CASE EndDelete
    BY <2>1 DEF EndDelete, Without, Restrict, TakesListed
  <2>2. CASE AbortDelete
    BY <2>2 DEF AbortDelete
  <2>3. ASSUME NEW queue \in QueueName, NEW letter \in Letter, InsertToQueue(queue, letter)
        PROVE  FALSE
    BY <2>3 DEF InsertToQueue, TakesListed, NoCommand
  <2>4. QED
    BY <2>1, <2>2, <2>3
       DEF QueueNext, Flush, BeginDelete, AddTemplate, RemoveTemplate, queueVars, NoCommand
<1>2. QED
  BY <1>1, QueueInvariant, PTL DEF QueueSpec, UnseenDeletedOnlyIfLate

\* The entries of the queues and the templates keep their types.
LEMMA QueueTypes == QueueSpec => []QueueTypeOK
<1> DEFINE Inv == QueueTypeOK /\ TakesListed
<1>1. QueueInit => QueueTypeOK
  BY DEF QueueInit, QueueTypeOK, NoCommand
<1>2. QueueTypeOK /\ TakesListed /\ [QueueNext]_queueVars => QueueTypeOK'
  <2> SUFFICES ASSUME QueueTypeOK, TakesListed, [QueueNext]_queueVars PROVE QueueTypeOK'
    OBVIOUS
  <2>1. command # NoCommand =>
          command \in [pc : {"delete"}, queue : QueueName, index : SUBSET EntryKey,
                       listed : SUBSET Int, arrived : SUBSET Int]
    BY DEF TakesListed
  <2>2. ASSUME NEW queue \in QueueName, NEW letter \in Letter, InsertToQueue(queue, letter)
        PROVE  QueueTypeOK'
    <3>1. command # NoCommand =>
            command'.queue = command.queue /\ command'.index = command.index
              /\ command'.listed = command.listed
      BY <2>1, <2>2 DEF InsertToQueue
    <3>2. command = NoCommand => command' = NoCommand
      BY <2>2 DEF InsertToQueue, NoCommand
    <3>3. DOMAIN entries' \subseteq EntryKey
          /\ entries' \in [DOMAIN entries' -> [queue : QueueName, letter : Letter]]
      BY <2>2 DEF InsertToQueue, Put, QueueTypeOK
    <3>4. QED
      BY <2>2, <3>1, <3>2, <3>3 DEF InsertToQueue, QueueTypeOK, TemplatesFor
  <2>3. ASSUME NEW queue \in QueueName, Flush(queue) PROVE QueueTypeOK'
    BY <2>3 DEF Flush, Without, Restrict, QueueTypeOK
  <2>4. ASSUME NEW queue \in QueueName, NEW index \in SUBSET EntryKey, BeginDelete(queue, index)
        PROVE  QueueTypeOK'
    BY <2>4 DEF BeginDelete, KeysOf, QueueTypeOK
  <2>5. CASE EndDelete
    BY <2>5 DEF EndDelete, Without, Restrict, QueueTypeOK
  <2>6. CASE AbortDelete
    BY <2>6 DEF AbortDelete, QueueTypeOK
  <2>7. ASSUME NEW scope \in Scope, NEW text \in {"old", "new"}, AddTemplate(scope, text)
        PROVE  QueueTypeOK'
    BY <2>7 DEF AddTemplate, Put, TemplatesFor, QueueTypeOK
  <2>8. ASSUME NEW scope \in Scope, RemoveTemplate(scope) PROVE QueueTypeOK'
    BY <2>8 DEF RemoveTemplate, Without, Restrict, QueueTypeOK
  <2>9. CASE UNCHANGED queueVars
    BY <2>9 DEF queueVars, QueueTypeOK
  <2>10. QED
    BY <2>2, <2>3, <2>4, <2>5, <2>6, <2>7, <2>8, <2>9 DEF QueueNext
<1>3. QED
  BY <1>1, <1>2, QueueInvariant, PTL DEF QueueSpec

-------------------------------------------------------------------------------
(***************************************************************************)
(* Lists                                                                   *)
(***************************************************************************)
ListInvariant ==
    /\ Unique(lists)
    /\ DOMAIN owners \subseteq OwnerKey
    /\ editor \in [Person -> {NoEdit} \cup [pc : {"check", "write"}, list : ListKey, form : Form]]
    /\ DOMAIN lists \subseteq ListKey

\* What update_list makes of the lists keeps their names unique.
LEMMA UpdateKeepsNamesUnique ==
    ASSUME NEW l, NEW i, NEW address, NEW d, Unique(lists), UpdateList(l, i, address, d)
    PROVE  Unique(lists)' /\ DOMAIN lists' = DOMAIN lists
<1>1. CASE lists' = lists
  BY <1>1 DEF Unique
<1>2. CASE lists' = Updated(l, i, address, d) /\ Unique(Updated(l, i, address, d))
  BY <1>2 DEF Unique, Updated
<1>3. QED
  BY <1>1, <1>2 DEF UpdateList

\* A name that is a numeral is a list's key or no list's.
LEMMA NamedListsExist ==
    ASSUME NEW i
    PROVE  WebList(i) \subseteq DOMAIN lists
BY DEF WebList, ListByKey, ListById

LEMMA ListsInvariant == ListSpec => []ListInvariant
<1>1. ListInit => ListInvariant
  BY DEF ListInit, ListInvariant, Unique
<1>2. ListInvariant /\ [ListNext]_listVars => ListInvariant'
  <2> SUFFICES ASSUME ListInvariant, [ListNext]_listVars PROVE ListInvariant'
    OBVIOUS
  <2>1. ASSUME UNCHANGED <<lists, owners, editor>> PROVE ListInvariant'
    BY <2>1 DEF ListInvariant, Unique
  <2>2. ASSUME UNCHANGED <<lists, owners>>,
               editor' \in [Person -> {NoEdit} \cup
                                      [pc : {"check", "write"}, list : ListKey, form : Form]]
        PROVE  ListInvariant'
    BY <2>2 DEF ListInvariant, Unique
  <2>3. ASSUME NEW p \in Person, NEW i \in ListId, NEW form \in Form, OpenEdit(p, i, form)
        PROVE  ListInvariant'
    <3>1. PICK l \in ListKey :
             editor' = [editor EXCEPT ![p] = [pc |-> "check", list |-> l, form |-> form]]
      BY <2>3, NamedListsExist DEF OpenEdit, ListInvariant
    <3>2. QED
      BY <2>2, <2>3, <3>1 DEF OpenEdit, ListInvariant
  <2>4. ASSUME NEW p \in Person, CheckOwner(p) PROVE ListInvariant'
    <3>1. editor[p] \in [pc : {"check", "write"}, list : ListKey, form : Form]
      BY <2>4 DEF CheckOwner, ListInvariant, NoEdit
    <3>2. [editor[p] EXCEPT !.pc = "write"]
             \in [pc : {"check", "write"}, list : ListKey, form : Form]
      BY <3>1
    <3>3. QED
      BY <2>2, <2>4, <3>2 DEF CheckOwner, ListInvariant
  <2>5. ASSUME NEW p \in Person, WriteMetadata(p) PROVE ListInvariant'
    <3>1. Unique(lists)' /\ DOMAIN lists' = DOMAIN lists
      BY <2>5, UpdateKeepsNamesUnique DEF WriteMetadata, ListInvariant
    <3>2. QED
      BY <2>5, <3>1 DEF WriteMetadata, ListInvariant
  <2>6. ASSUME NEW p \in Person, WritePolicy(p) PROVE ListInvariant'
    BY <2>2, <2>6 DEF WritePolicy, ListInvariant
  <2>7. ASSUME NEW i, NEW address, NEW d, CreateList(i, address, d) PROVE ListInvariant'
    <3>1. Unique(lists)' /\ UNCHANGED <<owners, editor>>
      BY <2>7 DEF CreateList, Unique
    <3>2. DOMAIN lists' \subseteq {NextKey(lists)} \cup DOMAIN lists /\ NextKey(lists) \in ListKey
      BY <2>7 DEF CreateList, Put
    <3>3. QED
      BY <3>1, <3>2 DEF ListInvariant
  <2>8. ASSUME NEW i, NEW id, NEW address, NEW option, CliUpdate(i, id, address, option)
        PROVE  ListInvariant'
    <3>1. Unique(lists)' /\ DOMAIN lists' = DOMAIN lists
      BY <2>8, UpdateKeepsNamesUnique DEF CliUpdate, ListInvariant
    <3>2. QED
      BY <2>8, <3>1 DEF CliUpdate, ListInvariant
  <2>9. ASSUME NEW i, NEW p, AddOwner(i, p) PROVE ListInvariant'
    <3>1. DOMAIN owners' = {NextKey(owners)} \cup DOMAIN owners /\ NextKey(owners) \in OwnerKey
      BY <2>9 DEF AddOwner, Put
    <3>2. QED
      BY <2>9, <3>1 DEF AddOwner, ListInvariant, Unique
  <2>10. ASSUME NEW i, NEW o, RemoveOwner(i, o) PROVE ListInvariant'
    BY <2>10 DEF RemoveOwner, Without, Restrict, ListInvariant, Unique
  <2>11. QED
    BY <2>1, <2>3, <2>4, <2>5, <2>6, <2>7, <2>8, <2>9, <2>10
       DEF ListNext, CliSetPolicy, CliRemovePolicy, listVars
<1>3. QED
  BY <1>1, <1>2, PTL DEF ListSpec

\* Whatever lists are created and renamed, an id leads a command to its list, and
\* the web interface too unless it spells a number.
THEOREM NamesAreFound == ListSpec => []NamesFindTheirList
<1>1. ListInvariant => NamesFindTheirList
  <2> SUFFICES ASSUME ListInvariant, NEW l \in DOMAIN lists
               PROVE  /\ CliList(lists[l].id) = {l}
                      /\ lists[l].id \notin DOMAIN KeySpelledBy => WebList(lists[l].id) = {l}
    BY DEF NamesFindTheirList
  <2>1. ListById(lists[l].id) = {l}
    BY DEF ListById, ListInvariant, Unique
  <2>2. QED
    BY <2>1 DEF CliList, WebList
<1>2. QED
  BY <1>1, ListsInvariant, PTL

\* Between the check and the write of list_edit_POST, the writer stops being an
\* owner only by the removal of that very owner.
THEOREM StrangersWriteOnlyAfterRemoval == ListSpec => OnlyRemovalLeavesStrangersWriting
<1>1. ListInvariant /\ [ListNext]_listVars
        => (EditorsOwn /\ ~EditorsOwn' =>
              \E o \in DOMAIN owners \ DOMAIN owners', p \in Person :
                  /\ editor[p].pc = "write"
                  /\ owners[o] = [list |-> editor[p].list, address |-> p])
  <2> SUFFICES ASSUME ListInvariant, [ListNext]_listVars, EditorsOwn,
                      \A o \in DOMAIN owners \ DOMAIN owners', p \in Person :
                          editor[p].pc = "write" =>
                              owners[o] # [list |-> editor[p].list, address |-> p]
               PROVE  EditorsOwn'
    OBVIOUS
  <2>1. ASSUME UNCHANGED <<owners, editor>> PROVE EditorsOwn'
    BY <2>1 DEF EditorsOwn, Owns
  <2>2. ASSUME NEW p \in Person, NEW i, NEW form, OpenEdit(p, i, form) PROVE EditorsOwn'
    BY <2>2 DEF OpenEdit, EditorsOwn, Owns, ListInvariant
  <2>3. ASSUME NEW p \in Person, CheckOwner(p) PROVE EditorsOwn'
    <3>1. CASE Owns(editor[p].list, p) /\ editor' = [editor EXCEPT ![p].pc = "write"]
      <4>1. editor[p] \in [pc : {"check", "write"}, list : ListKey, form : Form]
        BY <2>3 DEF CheckOwner, ListInvariant, NoEdit
      <4>2. editor'[p].list = editor[p].list
        BY <3>1, <4>1 DEF ListInvariant
      <4>3. \A q \in Person \ {p} : editor'[q] = editor[q]
        BY <3>1 DEF ListInvariant
      <4>4. QED
        BY <2>3, <3>1, <4>2, <4>3 DEF CheckOwner, EditorsOwn, Owns
    <3>2. CASE editor' = [editor EXCEPT ![p] = NoEdit]
      BY <2>3, <3>2 DEF CheckOwner, EditorsOwn, Owns, ListInvariant, NoEdit
    <3>3. QED
      BY <2>3, <3>1, <3>2 DEF CheckOwner
  <2>4. ASSUME NEW p \in Person, WriteMetadata(p) \/ WritePolicy(p) PROVE EditorsOwn'
    BY <2>4 DEF WriteMetadata, WritePolicy, EditorsOwn, Owns, ListInvariant, NoEdit
  <2>5. ASSUME NEW i, NEW p, AddOwner(i, p) PROVE EditorsOwn'
    <3>1. NextKey(owners) \notin DOMAIN owners
      BY KeyAboveIsFree, ListBounds DEF NextKey, ListInvariant, OwnerKey
    <3>2. \A o \in DOMAIN owners : o \in DOMAIN owners' /\ owners'[o] = owners[o]
      BY <2>5, <3>1 DEF AddOwner, Put
    <3>3. QED
      BY <2>5, <3>2 DEF AddOwner, EditorsOwn, Owns
  <2>6. ASSUME NEW i, NEW o, RemoveOwner(i, o) PROVE EditorsOwn'
    <3>1. \A q \in DOMAIN owners' : q \in DOMAIN owners /\ owners'[q] = owners[q]
      BY <2>6 DEF RemoveOwner, Without, Restrict
    <3>2. editor' = editor
      BY <2>6 DEF RemoveOwner
    <3>3. ASSUME NEW p \in Person, editor[p].pc = "write" PROVE Owns(editor[p].list, p)'
      <4>1. PICK q \in DOMAIN owners : owners[q] = [list |-> editor[p].list, address |-> p]
        BY <3>3 DEF EditorsOwn, Owns
      <4>2. q \in DOMAIN owners'
        BY <3>3, <4>1
      <4>3. QED
        BY <3>1, <3>2, <4>1, <4>2 DEF Owns
    <3>4. QED
      BY <3>2, <3>3 DEF EditorsOwn
  <2>7. QED
    BY <2>1, <2>2, <2>3, <2>4, <2>5, <2>6
       DEF ListNext, CreateList, CliUpdate, CliSetPolicy, CliRemovePolicy, listVars
<1>2. QED
  BY <1>1, ListsInvariant, PTL DEF ListSpec, OnlyRemovalLeavesStrangersWriting

\* The web interface takes a list's description away only where its form says so.
THEOREM DescriptionsAreKept == ListSpec => DescriptionLostOnlyOnRequest
<1>1. ListInvariant /\ [ListNext]_listVars
        => \A l \in DOMAIN lists :
             /\ lists[l].description = "text"
             /\ lists'[l].description = "null"
             => \/ editor' = editor
                \/ \E p \in Person : /\ editor[p].pc = "write" /\ editor'[p].pc = "idle"
                                     /\ editor[p].form.type = "metadata"
                                     /\ editor[p].form.description = "null"
  <2> SUFFICES ASSUME ListInvariant, [ListNext]_listVars, NEW l \in DOMAIN lists,
                      lists[l].description = "text", lists'[l].description = "null",
                      editor' # editor
               PROVE  \E p \in Person : /\ editor[p].pc = "write" /\ editor'[p].pc = "idle"
                                        /\ editor[p].form.type = "metadata"
                                        /\ editor[p].form.description = "null"
    OBVIOUS
  <2>1. PICK p \in Person : WriteMetadata(p)
    BY DEF ListNext, OpenEdit, CheckOwner, WritePolicy, CreateList, CliUpdate, AddOwner,
           RemoveOwner, CliSetPolicy, CliRemovePolicy, listVars
  <2> DEFINE form == editor[p].form
  <2>2. UpdateList(editor[p].list, form.id, form.address, form.description) /\ lists' # lists
    BY <2>1 DEF WriteMetadata
  <2>3. lists' = Updated(editor[p].list, form.id, form.address, form.description)
    BY <2>2 DEF UpdateList
  <2>4. form.description = "null"
    BY <2>3 DEF Updated
  <2>5. QED
    BY <2>1, <2>4 DEF WriteMetadata, ListInvariant, NoEdit
<1>2. QED
  BY <1>1, ListsInvariant, PTL DEF ListSpec, DescriptionLostOnlyOnRequest

\* What update_list makes of the lists are rows of the same lists.
LEMMA UpdateKeepsRows ==
    ASSUME NEW l \in DOMAIN lists, lists \in [DOMAIN lists -> ListRow],
           NEW i \in ListId \cup {"keep"}, NEW address \in ListAddress \cup {"keep"},
           NEW d \in {"keep"} \cup Descriptions, UpdateList(l, i, address, d)
    PROVE  DOMAIN lists' = DOMAIN lists /\ lists' \in [DOMAIN lists -> ListRow]
<1> DEFINE row == [id          |-> IF i = "keep" THEN lists[l].id ELSE i,
                   address     |-> IF address = "keep" THEN lists[l].address ELSE address,
                   description |-> IF d = "keep" THEN lists[l].description ELSE d]
<1>1. row \in ListRow
  BY DEF ListRow
<1>2. Updated(l, i, address, d) = [lists EXCEPT ![l] = row]
  BY DEF Updated
<1> HIDE DEF row
<1>3. QED
  BY <1>1, <1>2 DEF UpdateList

\* A list that a command finds exists.
LEMMA CommandsFindLists ==
    ASSUME NEW i
    PROVE  CliList(i) \subseteq DOMAIN lists
BY DEF CliList, ListByKey, ListById

\* The owners, the policies and the edits in progress are of lists that exist: no list
\* is ever deleted.
LEMMA ListTypes == ListSpec => []ListTypeOK
<1> DEFINE Edit(table) == {NoEdit} \cup [pc : {"check", "write"}, list : DOMAIN table, form : Form]
<1>1. ListInit => ListTypeOK
  BY DEF ListInit, ListTypeOK
<1>2. ListInvariant /\ ListTypeOK /\ [ListNext]_listVars => ListTypeOK'
  <2> SUFFICES ASSUME ListInvariant, ListTypeOK, [ListNext]_listVars PROVE ListTypeOK'
    OBVIOUS
  <2>1. ASSUME DOMAIN lists' = DOMAIN lists, lists' \in [DOMAIN lists -> ListRow],
               UNCHANGED <<owners, policies>>,
               \A p \in Person : editor'[p] \in Edit(lists)
        PROVE  ListTypeOK'
    BY <2>1 DEF ListTypeOK
  <2>2. ASSUME NEW p \in Person, NEW i \in ListId, NEW form \in Form, OpenEdit(p, i, form)
        PROVE  ListTypeOK'
    <3>1. PICK l \in DOMAIN lists :
             editor' = [editor EXCEPT ![p] = [pc |-> "check", list |-> l, form |-> form]]
      BY <2>2, NamedListsExist DEF OpenEdit
    <3>2. QED
      BY <2>1, <2>2, <3>1 DEF OpenEdit, ListTypeOK, ListInvariant
  <2>3. ASSUME NEW p \in Person, CheckOwner(p) PROVE ListTypeOK'
    <3>1. editor[p] \in [pc : {"check", "write"}, list : DOMAIN lists, form : Form]
      BY <2>3 DEF CheckOwner, ListTypeOK, NoEdit
    <3>2. [editor[p] EXCEPT !.pc = "write"]
             \in [pc : {"check", "write"}, list : DOMAIN lists, form : Form]
      BY <3>1
    <3>3. QED
      BY <2>1, <2>3, <3>2 DEF CheckOwner, ListTypeOK, ListInvariant
  <2>4. ASSUME NEW p \in Person, WriteMetadata(p) PROVE ListTypeOK'
    <3>1. editor[p] \in [pc : {"check", "write"}, list : DOMAIN lists, form : Form]
      BY <2>4 DEF WriteMetadata, ListTypeOK, NoEdit
    <3>2. editor[p].form \in MetadataForm
      BY <2>4, <3>1 DEF WriteMetadata, Form, PolicyForm, PolicyTable
    <3>3. DOMAIN lists' = DOMAIN lists /\ lists' \in [DOMAIN lists -> ListRow]
      BY <2>4, <3>1, <3>2, UpdateKeepsRows DEF WriteMetadata, MetadataForm, ListTypeOK
    <3>4. QED
      BY <2>1, <2>4, <3>3 DEF WriteMetadata, ListTypeOK, ListInvariant
  <2>5. ASSUME NEW table \in PolicyTable, NEW l \in DOMAIN lists, NEW policy \in Policies,
               SetPolicy(table, l, policy)
        PROVE  /\ DOMAIN policies' \subseteq PolicyTable \X DOMAIN lists
               /\ policies' \in [DOMAIN policies' -> Policies]
    BY <2>5 DEF SetPolicy, Put, ListTypeOK
  <2>6. ASSUME NEW p \in Person, WritePolicy(p) PROVE ListTypeOK'
    <3>1. editor[p] \in [pc : {"check", "write"}, list : DOMAIN lists, form : Form]
      BY <2>6 DEF WritePolicy, ListTypeOK, NoEdit
    <3>2. editor[p].form \in PolicyForm
      BY <2>6, <3>1 DEF WritePolicy, Form, MetadataForm, PolicyTable
    <3>3. /\ DOMAIN policies' \subseteq PolicyTable \X DOMAIN lists
          /\ policies' \in [DOMAIN policies' -> Policies]
      BY <2>5, <2>6, <3>1, <3>2 DEF WritePolicy, PolicyForm
    <3>4. QED
      BY <2>6, <3>3 DEF WritePolicy, ListTypeOK, ListInvariant
  <2>7. ASSUME NEW i \in ListId, NEW address \in ListAddress, NEW d \in Descriptions,
               CreateList(i, address, d)
        PROVE  ListTypeOK'
    <3>1. /\ DOMAIN lists' = {NextKey(lists)} \cup DOMAIN lists
          /\ NextKey(lists) \in ListKey
          /\ lists' \in [DOMAIN lists' -> ListRow]
      BY <2>7 DEF CreateList, Put, ListRow, ListTypeOK
    <3>2. owners \in [DOMAIN owners -> [list : DOMAIN lists', address : Person]]
      BY <3>1 DEF ListTypeOK
    <3>3. \A p \in Person : editor[p] \in Edit(lists')
      BY <3>1 DEF ListTypeOK
    <3>4. QED
      BY <2>7, <3>1, <3>2, <3>3 DEF CreateList, ListTypeOK
  <2>8. ASSUME NEW i \in ListId, NEW id \in ListId \cup {"keep"},
               NEW address \in ListAddress \cup {"keep"}, NEW option \in {"absent", "empty", "text"},
               CliUpdate(i, id, address, option)
        PROVE  ListTypeOK'
    <3>1. PICK l \in DOMAIN lists : UpdateList(l, id, address, CliDescription(option))
      BY <2>8, CommandsFindLists DEF CliUpdate
    <3>2. CliDescription(option) \in {"keep"} \cup Descriptions
      BY DEF CliDescription, Descriptions
    <3>3. DOMAIN lists' = DOMAIN lists /\ lists' \in [DOMAIN lists -> ListRow]
      BY <3>1, <3>2, UpdateKeepsRows DEF ListTypeOK
    <3>4. QED
      BY <2>1, <2>8, <3>3 DEF CliUpdate, ListTypeOK
  <2>9. ASSUME NEW i \in ListId, NEW p \in Person, AddOwner(i, p) PROVE ListTypeOK'
    <3>1. PICK l \in DOMAIN lists : owners' = Put(owners, NextKey(owners), [list |-> l, address |-> p])
      BY <2>9, CommandsFindLists DEF AddOwner
    <3>2. /\ DOMAIN owners' \subseteq OwnerKey
          /\ owners' \in [DOMAIN owners' -> [list : DOMAIN lists, address : Person]]
      BY <2>9, <3>1 DEF AddOwner, Put, ListTypeOK
    <3>3. QED
      BY <2>9, <3>2 DEF AddOwner, ListTypeOK
  <2>10. ASSUME NEW i \in ListId, NEW o \in OwnerKey, RemoveOwner(i, o) PROVE ListTypeOK'
    BY <2>10 DEF RemoveOwner, Without, Restrict, ListTypeOK
  <2>11. ASSUME NEW i \in ListId, NEW table \in PolicyTable, NEW policy \in Policies,
                CliSetPolicy(i, table, policy)
         PROVE  ListTypeOK'
    <3>1. /\ DOMAIN policies' \subseteq PolicyTable \X DOMAIN lists
          /\ policies' \in [DOMAIN policies' -> Policies]
      BY <2>5, <2>11, CommandsFindLists DEF CliSetPolicy
    <3>2. QED
      BY <2>11, <3>1 DEF CliSetPolicy, ListTypeOK
  <2>12. ASSUME NEW i \in ListId, NEW table \in PolicyTable, CliRemovePolicy(i, table)
         PROVE  ListTypeOK'
    BY <2>12 DEF CliRemovePolicy, Without, Restrict, ListTypeOK
  <2>13. CASE UNCHANGED listVars
    BY <2>1, <2>13 DEF listVars, ListTypeOK
  <2>14. QED
    BY <2>2, <2>3, <2>4, <2>6, <2>7, <2>8, <2>9, <2>10, <2>11, <2>12, <2>13 DEF ListNext
<1>3. QED
  BY <1>1, <1>2, ListsInvariant, PTL DEF ListSpec

-------------------------------------------------------------------------------
(***************************************************************************)
(* Repairs                                                                 *)
(***************************************************************************)

\* What a lint has read and is about to delete is still what it objects to, but
\* for the rows that came since.
FoundIsStale ==
    /\ candidate \in [DOMAIN candidate -> [address : Member, accepted : {"yes", "no"}]]
    /\ \/ repair = NoRepair
       \/ repair = [pc |-> repair.pc, todo |-> repair.todo, fix |-> repair.fix,
                    found |-> repair.found, since |-> repair.since]
    /\ repair.pc = "write" =>
         /\ Min(repair.todo) = Lint.accounts =>
              \A k \in repair.found \cap DOMAIN account :
                 account[k] \in subscribed => account[k] \in repair.since
         /\ Min(repair.todo) = Lint.requests =>
              \A k \in repair.found \cap DOMAIN candidate :
                 candidate[k].accepted = "no" => candidate[k].address \in repair.since

\* A row is added while a lint is between its read and its write.
LEMMA SinceGrows ==
    ASSUME NEW a, FoundIsStale, repair' = Since(a)
    PROVE  /\ repair' = NoRepair \/
                repair' = [pc |-> repair'.pc, todo |-> repair'.todo, fix |-> repair'.fix,
                           found |-> repair'.found, since |-> repair'.since]
           /\ repair'.pc = repair.pc
           /\ repair.pc = "write" => /\ repair'.todo = repair.todo
                                     /\ repair'.found = repair.found
                                     /\ repair'.since = repair.since \cup {a}
<1>1. CASE repair.pc = "write"
  <2>1. repair = [pc |-> repair.pc, todo |-> repair.todo, fix |-> repair.fix,
                  found |-> repair.found, since |-> repair.since]
    BY <1>1 DEF FoundIsStale, NoRepair
  <2>2. repair' = [pc |-> repair.pc, todo |-> repair.todo, fix |-> repair.fix,
                   found |-> repair.found, since |-> repair.since \cup {a}]
    BY <1>1, <2>1 DEF Since
  <2>3. QED
    BY <1>1, <2>2
<1>2. CASE repair.pc # "write"
  BY <1>2 DEF Since, FoundIsStale
<1>3. QED
  BY <1>1, <1>2

LEMMA RepairInvariant == RepairSpec => []FoundIsStale
<1>1. RepairInit => FoundIsStale
  BY DEF RepairInit, FoundIsStale, NoRepair
<1>2. FoundIsStale /\ [RepairNext]_repairVars => FoundIsStale'
  <2> SUFFICES ASSUME FoundIsStale, [RepairNext]_repairVars PROVE FoundIsStale'
    OBVIOUS
  <2>1. ASSUME UNCHANGED <<account, subscribed, candidate, repair>> PROVE FoundIsStale'
    BY <2>1 DEF FoundIsStale
  <2>2. ASSUME UNCHANGED candidate, repair' = NoRepair PROVE FoundIsStale'
    BY <2>2 DEF FoundIsStale, NoRepair
  <2>3. ASSUME NEW lints, NEW fix, BeginRepair(lints, fix) PROVE FoundIsStale'
    BY <2>3 DEF BeginRepair, FoundIsStale
  <2>4. CASE ReadLint
    <3> DEFINE found == Found(Min(repair.todo))
    <3>1. /\ repair.pc = "read"
          /\ repair' = [repair EXCEPT !.pc = "write", !.found = found, !.since = {}]
          /\ UNCHANGED candidate /\ UNCHANGED account /\ UNCHANGED subscribed
      BY <2>4 DEF ReadLint
    <3>2. repair.todo = repair'.todo /\ repair'.found = found
          /\ repair' = [pc |-> "write", todo |-> repair.todo, fix |-> repair.fix,
                        found |-> found, since |-> {}]
      <4>1. repair = [pc |-> repair.pc, todo |-> repair.todo, fix |-> repair.fix,
                      found |-> repair.found, since |-> repair.since]
        BY <3>1 DEF FoundIsStale, NoRepair
      <4> HIDE DEF found
      <4>2. QED
        BY <3>1, <4>1
    <3>3. Found(Lint.accounts) = EmptyAccounts /\ Found(Lint.requests) = AcceptedRequests
      BY DEF Found, Lint
    <3>4. /\ Min(repair.todo) = Lint.accounts => found = EmptyAccounts
          /\ Min(repair.todo) = Lint.requests => found = AcceptedRequests
      BY <3>3
    <3> HIDE DEF found
    <3>5. QED
      BY <3>1, <3>2, <3>4 DEF FoundIsStale, EmptyAccounts, AcceptedRequests
  <2>5. CASE WriteLint
    <3>1. candidate' \in [DOMAIN candidate' -> [address : Member, accepted : {"yes", "no"}]]
      BY <2>5 DEF WriteLint, Without, Restrict, FoundIsStale
    <3>2. repair' = NoRepair \/
            repair' = [pc |-> "read", todo |-> repair'.todo, fix |-> repair.fix,
                       found |-> repair.found, since |-> repair.since]
      <4>1. repair = [pc |-> repair.pc, todo |-> repair.todo, fix |-> repair.fix,
                      found |-> repair.found, since |-> repair.since]
        BY <2>5 DEF WriteLint, FoundIsStale, NoRepair
      <4>2. PICK todo : repair' = NextLint(todo)
        BY <2>5 DEF WriteLint
      <4>3. QED
        BY <4>1, <4>2 DEF NextLint
    <3>3. QED
      BY <3>1, <3>2 DEF FoundIsStale, NoRepair
  <2>6. CASE AbortRepair
    BY <2>2, <2>6 DEF AbortRepair
  <2>7. ASSUME NEW a \in Member, OpenAccount(a) PROVE FoundIsStale'
    BY <2>7, SinceGrows DEF OpenAccount, Put, FoundIsStale
  <2>8. ASSUME NEW a \in Member, CloseAccount(a) PROVE FoundIsStale'
    BY <2>8 DEF CloseAccount, Without, Restrict, FoundIsStale
  <2>9. ASSUME NEW a \in Member, Ask(a) PROVE FoundIsStale'
    <3>1. candidate' \in [DOMAIN candidate' -> [address : Member, accepted : {"yes", "no"}]]
      BY <2>9 DEF Ask, Put, FoundIsStale
    <3>2. \A k \in DOMAIN candidate' :
             \/ candidate'[k].address = a
             \/ k \in DOMAIN candidate /\ candidate'[k] = candidate[k]
      BY <2>9 DEF Ask, Put
    <3>3. QED
      BY <2>9, <3>1, <3>2, SinceGrows DEF Ask, FoundIsStale
  <2>10. ASSUME NEW a \in Member, Subscribe(a) PROVE FoundIsStale'
    <3>1. /\ DOMAIN candidate' = DOMAIN candidate
          /\ \A k \in DOMAIN candidate :
               \/ candidate'[k] = candidate[k]
               \/ candidate'[k] \in [address : Member, accepted : {"yes"}]
      BY <2>10 DEF Subscribe, FoundIsStale
    <3>2. candidate' \in [DOMAIN candidate' -> [address : Member, accepted : {"yes", "no"}]]
      BY <2>10, <3>1 DEF Subscribe, FoundIsStale
    <3>3. QED
      BY <2>10, <3>1, <3>2, SinceGrows DEF Subscribe, FoundIsStale
  <2>11. ASSUME NEW a \in Member, Unsubscribe(a) PROVE FoundIsStale'
    BY <2>11 DEF Unsubscribe, Without, Restrict, FoundIsStale
  <2>12. QED
    BY <2>1, <2>3, <2>4, <2>5, <2>6, <2>7, <2>8, <2>9, <2>10, <2>11
       DEF RepairNext, ArchivePost, repairVars
<1>3. QED
  BY <1>1, <1>2, PTL DEF RepairSpec

\* The repair takes a subscriber's account, or a request that nobody accepted, only
\* if something about that address was added after the lint had read, although the
\* keys it deletes by may have been reused.
THEOREM RepairsAreHarmless == RepairSpec => OnlyLateRowsAreLost
<1>1. FoundIsStale /\ [RepairNext]_repairVars
        => (Repairing =>
              /\ \A k \in DOMAIN account \ DOMAIN account' :
                   account[k] \in subscribed => account[k] \in repair.since
              /\ \A k \in DOMAIN candidate \ DOMAIN candidate' :
                   candidate[k].accepted = "no" => candidate[k].address \in repair.since)
  <2> SUFFICES ASSUME FoundIsStale, [RepairNext]_repairVars, repair.pc = "write",
                      repair'.pc # "write"
               PROVE  /\ \A k \in DOMAIN account \ DOMAIN account' :
                           account[k] \in subscribed => account[k] \in repair.since
                      /\ \A k \in DOMAIN candidate \ DOMAIN candidate' :
                           candidate[k].accepted = "no" => candidate[k].address \in repair.since
    BY DEF Repairing
  <2>1. WriteLint \/ UNCHANGED <<account, candidate>>
    BY SinceGrows
       DEF RepairNext, BeginRepair, ReadLint, AbortRepair, OpenAccount, CloseAccount, Ask,
           Subscribe, Unsubscribe, ArchivePost, repairVars, NoRepair
  <2>2. CASE WriteLint
    <3>1. \A k \in DOMAIN account \ DOMAIN account' :
             Min(repair.todo) = Lint.accounts /\ k \in repair.found
      BY <2>2 DEF WriteLint, Without, Restrict
    <3>2. \A k \in DOMAIN candidate \ DOMAIN candidate' :
             Min(repair.todo) = Lint.requests /\ k \in repair.found
      BY <2>2 DEF WriteLint, Without, Restrict
    <3>3. QED
      BY <3>1, <3>2 DEF FoundIsStale
  <2>3. CASE UNCHANGED <<account, candidate>>
    BY <2>3
  <2>4. QED
    BY <2>1, <2>2, <2>3
<1>2. QED
  BY <1>1, RepairInvariant, PTL DEF RepairSpec, OnlyLateRowsAreLost

\* The lints have the numbers 1 to 5, and the next of them is one of those selected.
LEMMA NextIsSelected ==
    /\ LintNo = 1 .. 5
    /\ \A S \in SUBSET LintNo : S # {} => Min(S) \in S
<1>1. LintNo = 1 .. 5
  <2>1. DOMAIN Lint = {"datetime", "accounts", "requests", "owners", "ids"}
    BY DEF Lint
  <2>2. LintNo = {Lint[l] : l \in {"datetime", "accounts", "requests", "owners", "ids"}}
    BY <2>1 DEF LintNo, Range
  <2>3. LintNo = {1, 2, 3, 4, 5}
    BY <2>2 DEF Lint
  <2>4. QED
    BY <2>3
<1>2. ASSUME NEW S \in SUBSET (1 .. 5), S # {} PROVE Min(S) \in S
  <2>1. \E x \in S : \A y \in S : x =< y
    <3>1. CASE 1 \in S
      BY <3>1
    <3>2. CASE 1 \notin S /\ 2 \in S
      BY <3>2
    <3>3. CASE 1 \notin S /\ 2 \notin S /\ 3 \in S
      BY <3>3
    <3>4. CASE 1 \notin S /\ 2 \notin S /\ 3 \notin S /\ 4 \in S
      BY <3>4
    <3>5. CASE 1 \notin S /\ 2 \notin S /\ 3 \notin S /\ 4 \notin S
      <4>1. \A y \in S : y = 5
        BY <3>5
      <4>2. 5 \in S
        BY <1>2, <4>1
      <4>3. QED
        BY <4>1, <4>2
    <3>6. QED
      BY <3>1, <3>2, <3>3, <3>4, <3>5
  <2>2. QED
    BY <2>1 DEF Min
<1>3. QED
  BY <1>1, <1>2

\* The repair in progress has lints left to run, and the posts whose Message-ID it
\* is about to correct have brackets to remove.
RepairProgress ==
    /\ repair # NoRepair =>
         repair.pc \in {"read", "write"} /\ repair.todo # {} /\ repair.fix \in {"yes", "no"}
    /\ repair.pc = "write" /\ Min(repair.todo) = Lint.ids =>
         repair.found \subseteq BracketedIds

\* An accepted request has its subscription, nobody has two accounts or two requests,
\* and no repair takes a bracket from a Message-ID that has none.
LEMMA RepairTypes == RepairSpec => []RepairTypeOK
<1> DEFINE Inv == RepairTypeOK /\ RepairProgress
           Request == [address : Member, accepted : {"yes", "no"}]
<1>1. RepairInit => Inv
  BY DEF RepairInit, RepairTypeOK, RepairProgress, NoRepair
<1>2. FoundIsStale /\ Inv /\ [RepairNext]_repairVars => Inv'
  <2> SUFFICES ASSUME FoundIsStale, Inv, [RepairNext]_repairVars PROVE Inv'
    OBVIOUS
  <2>0. repair # NoRepair =>
          repair = [pc |-> repair.pc, todo |-> repair.todo, fix |-> repair.fix,
                    found |-> repair.found, since |-> repair.since]
    BY DEF FoundIsStale
  \* The tables change while the repair is at rest, or has one more row to know of.
  <2>1. ASSUME NEW a, repair' \in {repair, Since(a)}, UNCHANGED posts,
               DOMAIN account' \subseteq RowKey, account' \in [DOMAIN account' -> Member],
               \A k, m \in DOMAIN account' : account'[k] = account'[m] => k = m,
               subscribed' \subseteq Member,
               DOMAIN candidate' \subseteq RowKey, candidate' \in [DOMAIN candidate' -> Request],
               \A k, m \in DOMAIN candidate' : candidate'[k].address = candidate'[m].address => k = m,
               \A k \in DOMAIN candidate' :
                  candidate'[k].accepted = "yes" => candidate'[k].address \in subscribed'
        PROVE  Inv'
    <3>1. \/ repair' = repair
          \/ repair # NoRepair /\ repair' = [pc |-> repair.pc, todo |-> repair.todo, fix |-> repair.fix,
                         found |-> repair.found, since |-> repair'.since]
      BY <2>0, <2>1 DEF Since, NoRepair
    <3>2. RepairTypeOK'
      BY <2>1, <3>1 DEF RepairTypeOK
    <3>3. RepairProgress'
      BY <2>1, <3>1 DEF RepairProgress, BracketedIds
    <3>4. QED
      BY <3>2, <3>3
  <2>2. ASSUME NEW lints \in Selections, NEW fix \in {"yes", "no"}, BeginRepair(lints, fix)
        PROVE  Inv'
    <3>1. lints \subseteq LintNo /\ lints # {}
      BY <2>2, SelectionAssumption, NextIsSelected DEF BeginRepair
    <3>2. repair' = [pc |-> "read", todo |-> lints, fix |-> fix, found |-> {}, since |-> {}]
          /\ UNCHANGED <<account, subscribed, candidate, posts>>
      BY <2>2 DEF BeginRepair
    <3>3. QED
      BY <3>1, <3>2 DEF RepairTypeOK, RepairProgress, NoRepair
  <2>3. CASE ReadLint
    <3> DEFINE lint == Min(repair.todo)
               found == Found(lint)
    <3>1. lint \in 1 .. 5
      BY <2>3, NextIsSelected DEF ReadLint, RepairTypeOK, RepairProgress, NoRepair
    <3>2. found \subseteq RowKey \cup PostKey
      <4>1. /\ BadDates \subseteq PostKey /\ EmptyAccounts \subseteq RowKey
            /\ AcceptedRequests \subseteq RowKey /\ BracketedIds \subseteq PostKey
        BY DEF BadDates, EmptyAccounts, AcceptedRequests, BracketedIds, RepairTypeOK
      <4> HIDE DEF lint
      <4>2. lint \in {1, 2, 3, 4, 5}
        BY <3>1
      <4>3. QED
        BY <4>1, <4>2 DEF Found, Lint
    <3>3. lint = Lint.ids => found = BracketedIds
      BY DEF Found, Lint
    <3> HIDE DEF found
    <3>4. /\ repair' = [pc |-> "write", todo |-> repair.todo, fix |-> repair.fix,
                        found |-> found, since |-> {}]
          /\ repair # NoRepair /\ UNCHANGED <<account, subscribed, candidate, posts>>
      <4>1. repair # NoRepair
        BY <2>3 DEF ReadLint, NoRepair
      <4>2. QED
        BY <2>0, <2>3, <4>1 DEF ReadLint, found
    <3>5. QED
      BY <3>2, <3>3, <3>4 DEF RepairTypeOK, RepairProgress, NoRepair, BracketedIds
  <2>4. CASE WriteLint
    <3> DEFINE lint  == Min(repair.todo)
               found == IF repair.fix = "yes" THEN repair.found ELSE {}
               touched(no) == IF lint = no THEN found ELSE {}
    <3>1. repair # NoRepair
      BY <2>4 DEF WriteLint, NoRepair
    <3>2. /\ posts' = [k \in DOMAIN posts |->
                 [date |-> IF k \in touched(Lint.datetime)
                           THEN CorrectDate(posts[k].date) ELSE posts[k].date,
                  brackets |-> IF k \in touched(Lint.ids)
                               THEN posts[k].brackets - 1 ELSE posts[k].brackets]]
          /\ account' = Without(account, touched(Lint.accounts))
          /\ candidate' = Without(candidate, touched(Lint.requests))
          /\ repair' = NextLint(repair.todo \ {lint})
          /\ subscribed' = subscribed
      BY <2>4 DEF WriteLint
    <3>3. touched(Lint.ids) \subseteq BracketedIds
      BY <2>4 DEF WriteLint, RepairProgress
    <3> HIDE DEF touched, lint
    <3>4. posts' \in [DOMAIN posts -> Post]
      <4>1. ASSUME NEW k \in DOMAIN posts
            PROVE  /\ posts[k].date \in DateForm /\ CorrectDate(posts[k].date) \in DateForm
                   /\ posts[k].brackets \in 0 .. 2
                   /\ k \in touched(Lint.ids) => posts[k].brackets - 1 \in 0 .. 2
        <5>1. posts[k].date \in DateForm /\ posts[k].brackets \in 0 .. 2
          BY DEF RepairTypeOK, Post
        <5>2. CorrectDate(posts[k].date) \in DateForm
          BY DEF CorrectDate, DateForm
        <5>3. k \in touched(Lint.ids) => posts[k].brackets > 0
          BY <3>3 DEF BracketedIds
        <5>4. posts[k].brackets > 0 => posts[k].brackets - 1 \in 0 .. 2
          BY <5>1
        <5>5. QED
          BY <5>1, <5>2, <5>3, <5>4
      <4>2. QED
        BY <3>2, <4>1 DEF Post
    <3>5. /\ DOMAIN account' \subseteq DOMAIN account
          /\ account' = [k \in DOMAIN account' |-> account[k]]
          /\ DOMAIN candidate' \subseteq DOMAIN candidate
          /\ candidate' = [k \in DOMAIN candidate' |-> candidate[k]]
      BY <3>2 DEF Without, Restrict
    <3>6. \/ repair' = NoRepair
          \/ /\ repair' = [pc |-> "read", todo |-> repair.todo \ {lint}, fix |-> repair.fix,
                           found |-> repair.found, since |-> repair.since]
             /\ repair.todo \ {lint} # {}
      BY <2>0, <3>1, <3>2 DEF NextLint
    <3>7. RepairTypeOK'
      <4>1. /\ DOMAIN account' \subseteq RowKey /\ account' \in [DOMAIN account' -> Member]
            /\ \A k, m \in DOMAIN account' : account'[k] = account'[m] => k = m
        BY <3>5 DEF RepairTypeOK
      <4>2. \A k \in DOMAIN candidate' :
               k \in DOMAIN candidate /\ candidate'[k] = candidate[k]
        BY <3>5
      <4>3. candidate' \in [DOMAIN candidate' -> Request]
        BY <3>5, <4>2 DEF RepairTypeOK
      <4>4. /\ DOMAIN candidate' \subseteq RowKey
            /\ \A k, m \in DOMAIN candidate' : candidate'[k].address = candidate'[m].address => k = m
            /\ \A k \in DOMAIN candidate' :
                  candidate'[k].accepted = "yes" => candidate'[k].address \in subscribed'
        BY <3>2, <3>5, <4>2 DEF RepairTypeOK
      <4>5. DOMAIN posts' \subseteq PostKey /\ posts' \in [DOMAIN posts' -> Post]
        BY <3>4 DEF RepairTypeOK
      <4>6. repair' # NoRepair =>
              repair'.todo \subseteq LintNo /\ repair'.found \subseteq RowKey \cup PostKey
        BY <3>1, <3>6 DEF RepairTypeOK
      <4>7. QED
        BY <3>2, <4>1, <4>3, <4>4, <4>5, <4>6 DEF RepairTypeOK
    <3>8. RepairProgress'
      BY <3>1, <3>6 DEF RepairProgress, NoRepair
    <3>9. QED
      BY <3>7, <3>8
  <2>5. CASE AbortRepair
    BY <2>5 DEF AbortRepair, RepairTypeOK, RepairProgress, NoRepair
  <2>6. ASSUME NEW a \in Member, OpenAccount(a) PROVE Inv'
    <3>1. /\ DOMAIN account' \subseteq RowKey /\ account' \in [DOMAIN account' -> Member]
          /\ \A k, m \in DOMAIN account' : account'[k] = account'[m] => k = m
      BY <2>6 DEF OpenAccount, Put, Range, RepairTypeOK
    <3>2. QED
      BY <2>1, <2>6, <3>1 DEF OpenAccount, RepairTypeOK
  <2>7. ASSUME NEW a \in Member, CloseAccount(a) PROVE Inv'
    <3>1. /\ DOMAIN account' \subseteq RowKey /\ account' \in [DOMAIN account' -> Member]
          /\ \A k, m \in DOMAIN account' : account'[k] = account'[m] => k = m
      BY <2>7 DEF CloseAccount, Without, Restrict, RepairTypeOK
    <3>2. QED
      BY <2>1, <2>7, <3>1 DEF CloseAccount, RepairTypeOK
  <2>8. ASSUME NEW a \in Member, Ask(a) PROVE Inv'
    <3>1. /\ DOMAIN candidate' \subseteq RowKey /\ candidate' \in [DOMAIN candidate' -> Request]
          /\ \A k \in DOMAIN candidate' :
               \/ candidate'[k] = [address |-> a, accepted |-> "no"] /\ k = NextKey(candidate)
               \/ k \in DOMAIN candidate /\ candidate'[k] = candidate[k]
      BY <2>8 DEF Ask, Put, RepairTypeOK
    <3>2. \A k, m \in DOMAIN candidate' : candidate'[k].address = candidate'[m].address => k = m
      BY <2>8, <3>1 DEF Ask, RequestsOf, RepairTypeOK
    <3>3. QED
      BY <2>1, <2>8, <3>1, <3>2 DEF Ask, RepairTypeOK
  <2>9. ASSUME NEW a \in Member, Subscribe(a) PROVE Inv'
    <3>1. /\ DOMAIN candidate' = DOMAIN candidate
          /\ candidate' \in [DOMAIN candidate' -> Request]
          /\ \A k \in DOMAIN candidate' :
               /\ candidate'[k].address = candidate[k].address
               /\ candidate'[k].accepted = "yes" =>
                    candidate[k].address = a \/ candidate[k].accepted = "yes"
      BY <2>9 DEF Subscribe, RequestsOf, RepairTypeOK
    <3>2. QED
      BY <2>1, <2>9, <3>1 DEF Subscribe, RepairTypeOK
  <2>10. ASSUME NEW a \in Member, Unsubscribe(a) PROVE Inv'
    <3>1. /\ DOMAIN candidate' \subseteq RowKey /\ candidate' \in [DOMAIN candidate' -> Request]
          /\ \A k \in DOMAIN candidate' :
               k \in DOMAIN candidate /\ candidate'[k] = candidate[k] /\ candidate[k].address # a
      BY <2>10 DEF Unsubscribe, RequestsOf, Without, Restrict, RepairTypeOK
    <3>2. QED
      BY <2>1, <2>10, <3>1 DEF Unsubscribe, RepairTypeOK
  <2>11. ASSUME NEW post \in Incoming, ArchivePost(post) PROVE Inv'
    <3>1. NextKey(posts) \notin DOMAIN posts
      BY KeyAboveIsFree, RowBounds DEF RepairTypeOK, PostKey, NextKey
    <3>2. /\ DOMAIN posts' \subseteq PostKey /\ posts' \in [DOMAIN posts' -> Post]
          /\ \A k \in DOMAIN posts : k \in DOMAIN posts' /\ posts'[k] = posts[k]
          /\ UNCHANGED <<account, subscribed, candidate, repair>>
      BY <2>11, <3>1, IncomingAssumption DEF ArchivePost, Put, RepairTypeOK
    <3>3. QED
      BY <3>2 DEF RepairTypeOK, RepairProgress, BracketedIds
  <2>12. CASE UNCHANGED repairVars
    BY <2>12 DEF repairVars, RepairTypeOK, RepairProgress, BracketedIds
  <2> HIDE DEF Inv
  <2>13. QED
    BY <2>2, <2>3, <2>4, <2>5, <2>6, <2>7, <2>8, <2>9, <2>10, <2>11, <2>12 DEF RepairNext
<1>3. QED
  BY <1>1, <1>2, RepairInvariant, PTL DEF RepairSpec

-------------------------------------------------------------------------------
(***************************************************************************)
(* Signing in                                                              *)
(***************************************************************************)
AnyToken == [no : Nat, time : Nat]

TokensInvariant ==
    /\ session = [b \in Browser |-> [token |-> session[b].token, login |-> session[b].login]]
    /\ \A b \in Browser : session[b].token \in AnyToken
    /\ page \in [Browser -> AnyToken]
    /\ issued \in Nat
    /\ clock \in Nat

LEMMA MaxOfTwo ==
    ASSUME NEW m \in Nat, NEW n \in Nat
    PROVE  Max({m, n}) \in {m, n} /\ Max({m, n}) >= m /\ Max({m, n}) >= n
<1>1. \E x \in {m, n} : \A y \in {m, n} : x >= y
  <2>1. CASE m >= n
    BY <2>1
  <2>2. CASE n >= m
    BY <2>2
  <2>3. QED
    BY <2>1, <2>2
<1>2. QED
  BY <1>1 DEF Max

\* The token that ssh_signin shows.
LEMMA TokenOfLogin ==
    ASSUME TokensInvariant, NEW b \in Browser, NEW tab, GetLogin(b, tab)
    PROVE  \E token \in AnyToken :
             /\ IF KeepsToken(session[b].token) THEN token = session[b].token
                ELSE token = [no |-> issued + 1, time |-> clock]
             /\ session' = [session EXCEPT ![b].token = token]
             /\ page' = [page EXCEPT ![b] = IF tab = "new" /\ @ # NoToken THEN @ ELSE token]
             /\ issued' \in Nat /\ issued' >= issued /\ issued' >= token.no
             /\ clock' = clock
<1> DEFINE token == IF KeepsToken(session[b].token) THEN session[b].token
                    ELSE [no |-> issued + 1, time |-> clock]
<1>1. token \in AnyToken
  BY DEF TokensInvariant, AnyToken
<1>2. issued' = Max({issued, token.no})
  BY DEF GetLogin
<1>3. issued' \in Nat /\ issued' >= issued /\ issued' >= token.no
  BY <1>1, <1>2, MaxOfTwo DEF TokensInvariant, AnyToken
<1>4. QED
  BY <1>1, <1>3 DEF GetLogin

LEMMA SessionInvariant == SessionSpec => []TokensInvariant
<1>1. SessionInit => TokensInvariant
  BY DEF SessionInit, TokensInvariant, EmptySession, AnyToken, NoToken, NoLogin
<1>2. TokensInvariant /\ [SessionNext]_sessionVars => TokensInvariant'
  <2> SUFFICES ASSUME TokensInvariant, [SessionNext]_sessionVars PROVE TokensInvariant'
    OBVIOUS
  <2>1. ASSUME UNCHANGED <<session, page, issued, clock>> PROVE TokensInvariant'
    BY <2>1 DEF TokensInvariant
  <2>2. ASSUME NEW b \in Browser, NEW tab, GetLogin(b, tab) PROVE TokensInvariant'
    <3>1. PICK token \in AnyToken :
             /\ session' = [session EXCEPT ![b].token = token]
             /\ page' = [page EXCEPT ![b] = IF tab = "new" /\ @ # NoToken THEN @ ELSE token]
             /\ issued' \in Nat
             /\ clock' = clock
      BY <2>2, TokenOfLogin
    <3>2. session' = [c \in Browser |-> [token |-> IF c = b THEN token ELSE session[c].token,
                                         login |-> session[c].login]]
      BY <3>1 DEF TokensInvariant
    <3>3. QED
      BY <3>1, <3>2 DEF TokensInvariant
  <2>3. ASSUME NEW b \in Browser, LoginSession(b) PROVE TokensInvariant'
    <3> DEFINE login == [key |-> request[b].key, signature |-> request[b].user.signature]
    <3>1. session' = [session EXCEPT ![b].login = login]
      BY <2>3 DEF LoginSession
    <3> HIDE DEF login
    <3>2. session' = [c \in Browser |-> [token |-> session[c].token,
                                         login |-> IF c = b THEN login ELSE session[c].login]]
      BY <3>1 DEF TokensInvariant
    <3>3. QED
      BY <2>3, <3>2 DEF LoginSession, TokensInvariant
  <2>4. ASSUME NEW b \in Browser, Logout(b) PROVE TokensInvariant'
    <3>1. session' = [c \in Browser |->
                        [token |-> IF c = b THEN NoToken ELSE session[c].token,
                         login |-> IF c = b THEN NoLogin ELSE session[c].login]]
      BY <2>4 DEF Logout, TokensInvariant, EmptySession
    <3>2. QED
      BY <2>4, <3>1 DEF Logout, TokensInvariant, NoToken, AnyToken
  <2>5. CASE Restart
    BY <2>5 DEF Restart, TokensInvariant, EmptySession, NoToken, NoLogin, AnyToken
  <2>6. CASE SetClock
    BY <2>6, SessionBounds DEF SetClock, Time, TokensInvariant
  <2>7. QED
    BY <2>1, <2>2, <2>3, <2>4, <2>5, <2>6
       DEF SessionNext, PostLogin, LoginStore, BeginSettings, WriteSettings, StoreSettings,
           AddAccount, UpdateAccount, RemoveAccount, sessionVars
<1>3. QED
  BY <1>1, <1>2, PTL DEF SessionSpec

\* A token that a page shows, and that would be accepted, is given up only when the
\* clock moves, at a logout or restart, or when the login page is opened again in
\* the second in which the token was issued.
THEOREM TokensOutliveVisits == SessionSpec => TokenOutlivesVisits
<1>1. TokensInvariant /\ [SessionNext]_sessionVars
        => \A b \in Browser :
             PageIsGood(b) /\ ~PageIsGood(b)' =>
                 \/ clock' # clock
                 \/ page'[b] = NoToken
                 \/ page[b].time = clock
  <2> SUFFICES ASSUME TokensInvariant, [SessionNext]_sessionVars, NEW b \in Browser,
                      PageIsGood(b), clock' = clock, page'[b] # NoToken, page[b].time # clock
               PROVE  PageIsGood(b)'
    OBVIOUS
  <2> USE DEF PageIsGood, AcceptsToken
  <2>1. ASSUME session'[b].token = session[b].token, page'[b] = page[b] PROVE PageIsGood(b)'
    BY <2>1
  <2>2. ASSUME NEW c \in Browser, NEW tab, GetLogin(c, tab) PROVE PageIsGood(b)'
    <3>1. PICK token \in AnyToken :
             /\ KeepsToken(session[c].token) => token = session[c].token
             /\ session' = [session EXCEPT ![c].token = token]
             /\ page' = [page EXCEPT ![c] = IF tab = "new" /\ @ # NoToken THEN @ ELSE token]
      BY <2>2, TokenOfLogin
    <3>2. CASE c # b
      BY <2>1, <3>1, <3>2 DEF TokensInvariant
    <3>3. CASE c = b
      <4>1. KeepsToken(session[b].token)
        <5>1. page[b].time \in Nat /\ clock \in Nat
          BY DEF TokensInvariant, AnyToken
        <5>2. page[b].time <= clock /\ page[b].time # clock
          OBVIOUS
        <5>3. page[b].time < clock
          BY <5>1, <5>2
        <5>4. QED
          BY <5>3 DEF KeepsToken
      <4>2. token = page[b] /\ token = session[b].token
        BY <3>1, <3>3, <4>1
      <4>3. session'[b].token = token /\ page'[b] = token
        BY <3>1, <3>3, <4>2 DEF TokensInvariant
      <4>4. QED
        BY <2>1, <4>2, <4>3
    <3>4. QED
      BY <3>2, <3>3
  <2>3. ASSUME NEW c \in Browser, LoginSession(c) PROVE PageIsGood(b)'
    <3>1. session'[b].token = session[b].token
      BY <2>3 DEF LoginSession, TokensInvariant
    <3>2. QED
      BY <2>1, <2>3, <3>1 DEF LoginSession
  <2>4. ASSUME NEW c \in Browser, Logout(c) PROVE PageIsGood(b)'
    BY <2>1, <2>4 DEF Logout, TokensInvariant
  <2>5. CASE Restart
    BY <2>5 DEF Restart
  <2>6. CASE SetClock
    BY <2>6 DEF SetClock
  <2>7. CASE UNCHANGED <<session, page>>
    BY <2>1, <2>7
  <2>8. QED
    BY <2>2, <2>3, <2>4, <2>5, <2>6, <2>7
       DEF SessionNext, PostLogin, LoginStore, BeginSettings, WriteSettings, StoreSettings,
           AddAccount, UpdateAccount, RemoveAccount, sessionVars
<1>2. QED
  BY <1>1, SessionInvariant, PTL DEF SessionSpec, TokenOutlivesVisits
\* What is known of users in memory and of requests in progress.
Signed == [address : Address, name : Name, signature : Nat \ {0}]
LoginRequest    == [pc : {"cache", "session"}, key : AccountKey, overtaken : BOOLEAN, user : Signed]
SettingsRequest == [pc : {"write", "store"}, key : AccountKey, overtaken : BOOLEAN, user : Signed,
                    name : Name]

UsersInvariant ==
    /\ \A b \in Browser : /\ session[b].token # NoToken => session[b].token.no # 0
                          /\ page[b] # NoToken => page[b].no # 0
    /\ DOMAIN accounts \subseteq AccountKey
    /\ accounts \in [DOMAIN accounts -> [address : Address, name : Name]]
    /\ DOMAIN store \subseteq AccountKey
    /\ store \in [DOMAIN store -> Signed]
    /\ request \in [Browser -> {NoRequest} \cup LoginRequest \cup SettingsRequest]

LEMMA CurrentUserIsSigned ==
    ASSUME UsersInvariant, NEW b \in Browser, CurrentUser(b) # NoUser
    PROVE  CurrentUser(b) \in Signed
BY DEF CurrentUser, UsersInvariant

LEMMA OvertakeKeepsRequests ==
    ASSUME UsersInvariant, NEW k
    PROVE  /\ Overtake(k) \in [Browser -> {NoRequest} \cup LoginRequest \cup SettingsRequest]
           /\ \A b \in Browser :
                \/ /\ Overtake(k)[b] = request[b]
                   /\ request[b] # NoRequest => request[b].key # k
                \/ /\ request[b] # NoRequest /\ request[b].key = k
                   /\ Overtake(k)[b].overtaken
                   /\ Overtake(k)[b].pc = request[b].pc
                   /\ Overtake(k)[b].key = request[b].key
                   /\ Overtake(k)[b].user = request[b].user
<1>1. ASSUME NEW b \in Browser, request[b] # NoRequest
      PROVE  /\ [request[b] EXCEPT !.overtaken = TRUE] \in LoginRequest \cup SettingsRequest
             /\ [request[b] EXCEPT !.overtaken = TRUE].overtaken
             /\ [request[b] EXCEPT !.overtaken = TRUE].pc = request[b].pc
             /\ [request[b] EXCEPT !.overtaken = TRUE].key = request[b].key
             /\ [request[b] EXCEPT !.overtaken = TRUE].user = request[b].user
  <2>1. CASE request[b] \in LoginRequest
    BY <2>1 DEF LoginRequest
  <2>2. CASE request[b] \in SettingsRequest
    BY <2>2 DEF SettingsRequest
  <2>3. QED
    BY <1>1, <2>1, <2>2 DEF UsersInvariant
<1>2. QED
  BY <1>1 DEF Overtake, UsersInvariant

LEMMA UserInvariant == SessionSpec => []UsersInvariant
<1>1. SessionInit => UsersInvariant
  BY DEF SessionInit, UsersInvariant, EmptySession
<1>2. TokensInvariant /\ UsersInvariant /\ [SessionNext]_sessionVars => UsersInvariant'
  <2> SUFFICES ASSUME TokensInvariant, UsersInvariant, [SessionNext]_sessionVars
               PROVE  UsersInvariant'
    OBVIOUS
  <2>1. ASSUME UNCHANGED <<accounts, store, session, page, request>> PROVE UsersInvariant'
    BY <2>1 DEF UsersInvariant
  <2>2. ASSUME NEW b \in Browser, NEW tab, GetLogin(b, tab) PROVE UsersInvariant'
    <3> DEFINE token == IF KeepsToken(session[b].token) THEN session[b].token
                        ELSE [no |-> issued + 1, time |-> clock]
    <3>1. token.no # 0
      BY DEF KeepsToken, UsersInvariant, TokensInvariant
    <3>2. /\ session' = [session EXCEPT ![b].token = token]
          /\ page' = [page EXCEPT ![b] = IF tab = "new" /\ @ # NoToken THEN @ ELSE token]
          /\ UNCHANGED <<accounts, store, request>>
      BY <2>2 DEF GetLogin
    <3> HIDE DEF token
    <3>3. \A c \in Browser : session'[c].token = IF c = b THEN token ELSE session[c].token
      BY <3>2 DEF TokensInvariant
    <3>4. \A c \in Browser : page'[c] \in {page[c], token}
      BY <3>2 DEF TokensInvariant
    <3>5. QED
      BY <3>1, <3>2, <3>3, <3>4 DEF UsersInvariant
  <2>3. ASSUME NEW b \in Browser, NEW a \in Address, PostLogin(b, a) PROVE UsersInvariant'
    <3>1. PICK k \in AccountAt(a) :
             request' = [request EXCEPT ![b] =
                [pc |-> "cache", key |-> k, overtaken |-> FALSE,
                 user |-> [address |-> a, name |-> accounts[k].name, signature |-> page[b].no]]]
      BY <2>3 DEF PostLogin
    <3>2. k \in AccountKey /\ accounts[k].name \in Name
      BY <3>1 DEF AccountAt, UsersInvariant
    <3>3. page[b].no \in Nat \ {0}
      BY <2>3 DEF PostLogin, PageIsGood, UsersInvariant, TokensInvariant, AnyToken
    <3>4. request'[b] \in LoginRequest
      BY <3>1, <3>2, <3>3 DEF UsersInvariant, LoginRequest, Signed
    <3>5. QED
      BY <2>3, <3>1, <3>4 DEF PostLogin, UsersInvariant
  <2>4. ASSUME NEW b \in Browser, LoginStore(b) PROVE UsersInvariant'
    <3>1. request[b] \in LoginRequest
      BY <2>4 DEF LoginStore, UsersInvariant, NoRequest, SettingsRequest
    <3>2. [request[b] EXCEPT !.pc = "session"] \in LoginRequest
      BY <3>1 DEF LoginRequest
    <3>3. request' = [request EXCEPT ![b] = [request[b] EXCEPT !.pc = "session"]]
      BY <2>4 DEF LoginStore
    <3>4. request' \in [Browser -> {NoRequest} \cup LoginRequest \cup SettingsRequest]
      BY <3>2, <3>3 DEF UsersInvariant
    <3>5. request[b].key \in AccountKey /\ request[b].user \in Signed
      BY <3>1 DEF LoginRequest
    <3>6. DOMAIN store' \subseteq AccountKey /\ store' \in [DOMAIN store' -> Signed]
      BY <2>4, <3>5 DEF LoginStore, Put, UsersInvariant
    <3>7. QED
      BY <2>4, <3>4, <3>6 DEF LoginStore, UsersInvariant
  <2>5. ASSUME NEW b \in Browser, LoginSession(b) PROVE UsersInvariant'
    <3>1. \A c \in Browser : session'[c].token = session[c].token
      BY <2>5 DEF LoginSession, TokensInvariant
    <3>2. QED
      BY <2>5, <3>1 DEF LoginSession, UsersInvariant
  <2>6. ASSUME NEW b \in Browser, Logout(b) PROVE UsersInvariant'
    <3>1. \A c \in Browser : /\ session'[c].token \in {session[c].token, NoToken}
                             /\ page'[c] \in {page[c], NoToken}
      BY <2>6 DEF Logout, TokensInvariant, EmptySession
    <3>2. QED
      BY <2>6, <3>1 DEF Logout, UsersInvariant
  <2>7. ASSUME NEW b \in Browser, NEW name \in Name, BeginSettings(b, name) PROVE UsersInvariant'
    <3>1. PICK k \in AccountAt(CurrentUser(b).address) :
             request' = [request EXCEPT ![b] =
                [pc |-> "write", key |-> k, overtaken |-> FALSE, user |-> CurrentUser(b),
                 name |-> name]]
      BY <2>7 DEF BeginSettings
    <3>2. CurrentUser(b) \in Signed
      BY <2>7, CurrentUserIsSigned DEF BeginSettings
    <3>3. k \in AccountKey
      BY <3>1 DEF AccountAt, UsersInvariant
    <3>4. request'[b] \in SettingsRequest
      BY <3>1, <3>2, <3>3 DEF UsersInvariant, SettingsRequest
    <3>5. QED
      BY <2>7, <3>1, <3>4 DEF BeginSettings, UsersInvariant
  <2>8. ASSUME NEW b \in Browser, WriteSettings(b) PROVE UsersInvariant'
    <3>1. request[b] \in SettingsRequest
      BY <2>8 DEF WriteSettings, UsersInvariant, NoRequest, LoginRequest
    <3>2. CASE request' = [request EXCEPT ![b] = NoRequest] /\ UNCHANGED accounts
      BY <2>8, <3>2 DEF WriteSettings, UsersInvariant
    <3>3. CASE \E k \in AccountAt(request[b].user.address) :
                 /\ accounts' = [accounts EXCEPT ![k].name = request[b].name]
                 /\ request' = [Overtake(k) EXCEPT ![b] = [request[b] EXCEPT !.pc = "store"]]
      <4>1. PICK k \in AccountAt(request[b].user.address) :
                 /\ accounts' = [accounts EXCEPT ![k].name = request[b].name]
                 /\ request' = [Overtake(k) EXCEPT ![b] = [request[b] EXCEPT !.pc = "store"]]
        BY <3>3
      <4>2. [request[b] EXCEPT !.pc = "store"] \in SettingsRequest
        BY <3>1 DEF SettingsRequest
      <4>3. request' \in [Browser -> {NoRequest} \cup LoginRequest \cup SettingsRequest]
        BY <4>1, <4>2, OvertakeKeepsRequests
      <4>4. request[b].name \in Name
        BY <3>1 DEF SettingsRequest
      <4>5. /\ DOMAIN accounts' = DOMAIN accounts
            /\ accounts' \in [DOMAIN accounts -> [address : Address, name : Name]]
        BY <4>1, <4>4 DEF UsersInvariant
      <4>6. QED
        BY <2>8, <4>3, <4>5 DEF WriteSettings, UsersInvariant
    <3>4. QED
      BY <2>8, <3>2, <3>3 DEF WriteSettings
  <2>9. ASSUME NEW b \in Browser, StoreSettings(b) PROVE UsersInvariant'
    <3>1. request[b] \in SettingsRequest
      BY <2>9 DEF StoreSettings, UsersInvariant, NoRequest, LoginRequest
    <3>2. request[b].key \in AccountKey /\ [request[b].user EXCEPT !.name = request[b].name] \in Signed
      BY <3>1 DEF SettingsRequest, Signed
    <3>3. DOMAIN store' \subseteq AccountKey /\ store' \in [DOMAIN store' -> Signed]
      BY <2>9, <3>2 DEF StoreSettings, Put, UsersInvariant
    <3>4. QED
      BY <2>9, <3>3 DEF StoreSettings, UsersInvariant
  <2>10. ASSUME NEW a \in Address, NEW name \in Name, AddAccount(a, name) PROVE UsersInvariant'
    <3>1. /\ DOMAIN accounts' \subseteq AccountKey
          /\ accounts' \in [DOMAIN accounts' -> [address : Address, name : Name]]
      BY <2>10 DEF AddAccount, Put, UsersInvariant
    <3>2. QED
      BY <2>10, <3>1, OvertakeKeepsRequests DEF AddAccount, UsersInvariant
  <2>11. ASSUME NEW a \in Address, RemoveAccount(a) PROVE UsersInvariant'
    <3>1. /\ DOMAIN accounts' \subseteq AccountKey
          /\ accounts' \in [DOMAIN accounts' -> [address : Address, name : Name]]
      BY <2>11 DEF RemoveAccount, Without, Restrict, UsersInvariant
    <3>2. PICK k \in AccountAt(a) : request' = Overtake(k)
      BY <2>11 DEF RemoveAccount
    <3>3. request' \in [Browser -> {NoRequest} \cup LoginRequest \cup SettingsRequest]
      BY <3>2, OvertakeKeepsRequests
    <3>4. QED
      BY <2>11, <3>1, <3>3 DEF RemoveAccount, UsersInvariant
  <2>12. ASSUME NEW a \in Address, NEW name \in Name, UpdateAccount(a, name) PROVE UsersInvariant'
    <3>1. /\ DOMAIN accounts' = DOMAIN accounts
          /\ accounts' \in [DOMAIN accounts -> [address : Address, name : Name]]
      BY <2>12 DEF UpdateAccount, UsersInvariant
    <3>2. QED
      BY <2>12, <3>1, OvertakeKeepsRequests DEF UpdateAccount, UsersInvariant
  <2>13. CASE Restart
    <3>1. DOMAIN store' \subseteq AccountKey /\ store' \in [DOMAIN store' -> Signed]
      BY <2>13 DEF Restart
    <3>2. \A b \in Browser : session'[b].token = NoToken /\ page'[b] = NoToken
      BY <2>13 DEF Restart, EmptySession
    <3>3. request' \in [Browser -> {NoRequest} \cup LoginRequest \cup SettingsRequest]
      BY <2>13 DEF Restart
    <3>4. QED
      BY <2>13, <3>1, <3>2, <3>3 DEF Restart, UsersInvariant
  <2>14. CASE SetClock
    BY <2>1, <2>14 DEF SetClock
  <2>15. QED
    BY <2>1, <2>2, <2>3, <2>4, <2>5, <2>6, <2>7, <2>8, <2>9, <2>10, <2>11, <2>12, <2>13, <2>14
       DEF SessionNext, sessionVars
<1>3. QED
  BY <1>1, <1>2, SessionInvariant, PTL DEF SessionSpec

\* A browser loses its user only as UserLostOnlyToAnotherLogin says, for any number
\* of browsers, accounts and tokens.
THEOREM UsersAreLostToLogins == SessionSpec => UserLostOnlyToAnotherLogin
<1> DEFINE LostTo(b) ==
      \/ session'[b] = EmptySession
      \/ request[b].pc = "session" /\ request'[b].pc = "idle"
      \/ \E c \in Browser :
            /\ request[c].pc \in {"cache", "store"}
            /\ request'[c].pc \in {"session", "idle"}
            /\ request[c].key = session[b].login.key
            /\ request[c].user.signature \notin {0, session[b].login.signature}
            /\ store'[request[c].key].signature = request[c].user.signature
<1>1. TokensInvariant /\ UsersInvariant /\ [SessionNext]_sessionVars
        => \A b \in Browser :
             CurrentUser(b) # NoUser /\ CurrentUser(b)' = NoUser => LostTo(b)
  <2> SUFFICES ASSUME TokensInvariant, UsersInvariant, [SessionNext]_sessionVars,
                      NEW b \in Browser, CurrentUser(b) # NoUser, CurrentUser(b)' = NoUser
               PROVE  LostTo(b)
    OBVIOUS
  <2> DEFINE login == session[b].login
  <2>1. login.key \in DOMAIN store /\ store[login.key].signature = login.signature
    BY DEF CurrentUser
  <2>2. login.signature # 0
    BY <2>1 DEF UsersInvariant, Signed
  <2>3. ASSUME session'[b].login = login, store' = store PROVE FALSE
    BY <2>3 DEF CurrentUser
  <2>4. ASSUME NEW c \in Browser, NEW tab, GetLogin(c, tab) PROVE FALSE
    <3>1. session'[b].login = login /\ store' = store
      BY <2>4 DEF GetLogin, TokensInvariant
    <3>2. QED
      BY <2>3, <3>1
  \* A copy of user u is put in user_store at key k.
  <2>5. ASSUME NEW k, NEW u \in Signed, store' = Put(store, k, u), session' = session
        PROVE  k = login.key /\ u.signature # login.signature /\ store'[k] = u
    <3>1. /\ DOMAIN store' = {k} \cup DOMAIN store
          /\ store'[k] = u
          /\ \A m \in DOMAIN store : m # k => store'[m] = store[m]
      BY <2>5 DEF Put
    <3>2. ASSUME store'[login.key].signature = login.signature PROVE FALSE
      <4>1. CurrentUser(b)' = store'[login.key]
        BY <2>1, <2>5, <3>1, <3>2 DEF CurrentUser
      <4>2. QED
        BY <2>2, <3>2, <4>1 DEF NoUser
    <3>3. QED
      BY <2>1, <3>1, <3>2
  <2>6. ASSUME NEW c \in Browser, LoginStore(c) PROVE LostTo(b)
    <3>1. request[c] \in LoginRequest
      BY <2>6 DEF LoginStore, UsersInvariant, NoRequest, SettingsRequest
    <3>2. request[c].user \in Signed
      BY <3>1 DEF LoginRequest
    <3>3. request[c].key = login.key /\ request[c].user.signature # login.signature
          /\ store'[request[c].key] = request[c].user
      BY <2>5, <2>6, <3>2 DEF LoginStore
    <3>4. request'[c].pc = "session"
      BY <2>6, <3>1 DEF LoginStore, UsersInvariant, LoginRequest
    <3>5. QED
      BY <2>6, <3>2, <3>3, <3>4 DEF LoginStore, Signed
  <2>7. ASSUME NEW c \in Browser, StoreSettings(c) PROVE LostTo(b)
    <3> DEFINE u == [request[c].user EXCEPT !.name = request[c].name]
    <3>1. request[c] \in SettingsRequest
      BY <2>7 DEF StoreSettings, UsersInvariant, NoRequest, LoginRequest
    <3>2. u \in Signed /\ request[c].user \in Signed /\ u.signature = request[c].user.signature
      BY <3>1 DEF SettingsRequest, Signed
    <3>3. store' = Put(store, request[c].key, u) /\ session' = session
      BY <2>7 DEF StoreSettings
    <3> HIDE DEF u
    <3>4. request[c].key = login.key /\ u.signature # login.signature
          /\ store'[request[c].key] = u
      BY <2>5, <3>2, <3>3
    <3>5. request'[c].pc = "idle"
      BY <2>7 DEF StoreSettings, UsersInvariant, NoRequest
    <3>6. QED
      BY <2>7, <3>2, <3>4, <3>5 DEF StoreSettings, Signed
  <2>8. ASSUME NEW c \in Browser, LoginSession(c) PROVE LostTo(b)
    <3>1. CASE c = b
      BY <2>8, <3>1 DEF LoginSession, UsersInvariant, NoRequest
    <3>2. CASE c # b
      <4>1. session'[b].login = login /\ store' = store
        BY <2>8, <3>2 DEF LoginSession, TokensInvariant
      <4>2. QED
        BY <2>3, <4>1
    <3>3. QED
      BY <3>1, <3>2
  <2>9. ASSUME NEW c \in Browser, Logout(c) PROVE LostTo(b)
    <3>1. CASE c = b
      BY <2>9, <3>1 DEF Logout, TokensInvariant
    <3>2. CASE c # b
      <4>1. session'[b].login = login /\ store' = store
        BY <2>9, <3>2 DEF Logout, TokensInvariant
      <4>2. QED
        BY <2>3, <4>1
    <3>3. QED
      BY <3>1, <3>2
  <2>10. CASE Restart
    BY <2>10 DEF Restart
  <2>11. CASE UNCHANGED <<session, store>>
    BY <2>3, <2>11
  <2>12. QED
    BY <2>4, <2>6, <2>7, <2>8, <2>9, <2>10, <2>11
       DEF SessionNext, PostLogin, BeginSettings, WriteSettings, AddAccount, RemoveAccount,
           UpdateAccount, SetClock, sessionVars
<1>2. QED
  BY <1>1, UserInvariant, SessionInvariant, PTL DEF SessionSpec, UserLostOnlyToAnotherLogin

\* What a browser signs with: no other has the same tokens.
SignaturesOf(b) ==
    {session[b].token.no, page[b].no, session[b].login.signature}
    \cup (IF request[b] = NoRequest THEN {} ELSE {request[b].user.signature})

OwnSignatures ==
    /\ \A b \in Browser : SignaturesOf(b) \subseteq 0 .. issued
    /\ \A b, c \in Browser : b # c => SignaturesOf(b) \cap SignaturesOf(c) \subseteq {0}

LEMMA SignatureInvariant == SessionSpec => []OwnSignatures
<1>1. SessionInit => OwnSignatures
  BY DEF SessionInit, OwnSignatures, SignaturesOf, EmptySession, NoToken, NoLogin
<1>2. TokensInvariant /\ UsersInvariant /\ OwnSignatures /\ [SessionNext]_sessionVars => OwnSignatures'
  <2> SUFFICES ASSUME TokensInvariant, UsersInvariant, OwnSignatures, [SessionNext]_sessionVars
               PROVE  OwnSignatures'
    OBVIOUS
  <2>1. ASSUME issued' = issued, \A b \in Browser : SignaturesOf(b)' \subseteq SignaturesOf(b) \cup {0}
        PROVE  OwnSignatures'
    BY <2>1 DEF OwnSignatures, TokensInvariant
  <2>2. ASSUME UNCHANGED <<session, page, request, issued>> PROVE OwnSignatures'
    BY <2>2 DEF OwnSignatures, SignaturesOf
  <2>3. ASSUME NEW b \in Browser, NEW tab, GetLogin(b, tab) PROVE OwnSignatures'
    <3>1. PICK token \in AnyToken :
             /\ IF KeepsToken(session[b].token) THEN token = session[b].token
                ELSE token = [no |-> issued + 1, time |-> clock]
             /\ session' = [session EXCEPT ![b].token = token]
             /\ page' = [page EXCEPT ![b] = IF tab = "new" /\ @ # NoToken THEN @ ELSE token]
             /\ issued' \in Nat /\ issued' >= issued /\ issued' >= token.no
      BY <2>3, TokenOfLogin
    <3>2. /\ \A c \in Browser \ {b} : session'[c] = session[c] /\ page'[c] = page[c]
          /\ session'[b].token = token /\ session'[b].login = session[b].login
          /\ page'[b] \in {page[b], token}
          /\ request' = request
      BY <2>3, <3>1 DEF GetLogin, TokensInvariant
    <3>3. /\ SignaturesOf(b)' \subseteq SignaturesOf(b) \cup {token.no}
          /\ \A c \in Browser \ {b} : SignaturesOf(c)' = SignaturesOf(c)
      BY <3>2 DEF SignaturesOf
    <3>4. token.no \in SignaturesOf(b) \/ token.no = issued + 1
      BY <3>1 DEF SignaturesOf
    <3>5. token.no \in 0 .. issued'
      BY <3>1 DEF AnyToken
    <3>6. \A c \in Browser : token.no = issued + 1 => token.no \notin SignaturesOf(c)
      BY DEF OwnSignatures, TokensInvariant
    <3>7. \A c \in Browser : SignaturesOf(c) \subseteq 0 .. issued'
      BY <3>1 DEF OwnSignatures, TokensInvariant
    <3>8. QED
      BY <3>3, <3>4, <3>5, <3>6, <3>7 DEF OwnSignatures
  <2>4. ASSUME NEW b \in Browser, NEW a \in Address, PostLogin(b, a) PROVE OwnSignatures'
    <3>1. /\ \A c \in Browser \ {b} : request'[c] = request[c]
          /\ request'[b].user.signature = page[b].no
          /\ UNCHANGED <<session, page, issued>>
      BY <2>4 DEF PostLogin, UsersInvariant
    <3>2. QED
      BY <2>1, <3>1 DEF SignaturesOf
  <2>5. ASSUME NEW b \in Browser, LoginStore(b) PROVE OwnSignatures'
    <3>1. request[b] \in LoginRequest
      BY <2>5 DEF LoginStore, UsersInvariant, NoRequest, SettingsRequest
    <3>2. /\ \A c \in Browser \ {b} : request'[c] = request[c]
          /\ request[b] # NoRequest
          /\ request'[b].user = request[b].user
          /\ UNCHANGED <<session, page, issued>>
      BY <2>5, <3>1 DEF LoginStore, UsersInvariant, LoginRequest, NoRequest
    <3>3. QED
      BY <2>1, <3>2 DEF SignaturesOf
  <2>6. ASSUME NEW b \in Browser, LoginSession(b) PROVE OwnSignatures'
    <3>1. /\ \A c \in Browser \ {b} : session'[c] = session[c] /\ request'[c] = request[c]
          /\ session'[b].token = session[b].token
          /\ session'[b].login.signature = request[b].user.signature
          /\ request[b] # NoRequest /\ request'[b] = NoRequest
          /\ UNCHANGED <<page, issued>>
      BY <2>6 DEF LoginSession, TokensInvariant, UsersInvariant, NoRequest
    <3>2. QED
      BY <2>1, <3>1 DEF SignaturesOf
  <2>7. ASSUME NEW b \in Browser, Logout(b) PROVE OwnSignatures'
    <3>1. /\ \A c \in Browser \ {b} : session'[c] = session[c] /\ page'[c] = page[c]
          /\ session'[b] = EmptySession /\ page'[b] = NoToken
          /\ UNCHANGED <<request, issued>>
      BY <2>7 DEF Logout, TokensInvariant
    <3>2. QED
      BY <2>1, <3>1 DEF SignaturesOf, EmptySession, NoToken, NoLogin
  <2>8. ASSUME NEW b \in Browser, NEW name \in Name, BeginSettings(b, name) PROVE OwnSignatures'
    <3>1. /\ \A c \in Browser \ {b} : request'[c] = request[c]
          /\ request'[b].user = CurrentUser(b)
          /\ CurrentUser(b) # NoUser
          /\ UNCHANGED <<session, page, issued>>
      BY <2>8 DEF BeginSettings, UsersInvariant
    <3>2. CurrentUser(b).signature = session[b].login.signature
      BY <3>1 DEF CurrentUser
    <3>3. QED
      BY <2>1, <3>1, <3>2 DEF SignaturesOf
  <2>9. ASSUME NEW k, UNCHANGED <<session, page, issued>>, request' = Overtake(k) PROVE OwnSignatures'
    BY <2>1, <2>9, OvertakeKeepsRequests DEF SignaturesOf
  <2>10. ASSUME NEW b \in Browser, WriteSettings(b) PROVE OwnSignatures'
    <3>1. request[b] \in SettingsRequest
      BY <2>10 DEF WriteSettings, UsersInvariant, NoRequest, LoginRequest
    <3>2. [request[b] EXCEPT !.pc = "store"].user = request[b].user /\ request[b] # NoRequest
      BY <3>1 DEF SettingsRequest, NoRequest
    <3>3. \A c \in Browser : \/ request'[c] = NoRequest \/ request'[c] = request[c]
                             \/ request[c] # NoRequest /\ request'[c].user = request[c].user
      <4>1. CASE request' = [request EXCEPT ![b] = NoRequest]
        BY <4>1 DEF UsersInvariant
      <4>2. ASSUME NEW k, request' = [Overtake(k) EXCEPT ![b] = [request[b] EXCEPT !.pc = "store"]]
            PROVE  \A c \in Browser :
                     \/ request'[c] = request[c]
                     \/ request[c] # NoRequest /\ request'[c].user = request[c].user
        BY <3>2, <4>2, OvertakeKeepsRequests
      <4>3. QED
        BY <2>10, <4>1, <4>2 DEF WriteSettings
    <3>4. UNCHANGED <<session, page, issued>>
      BY <2>10 DEF WriteSettings
    <3>5. QED
      BY <2>1, <3>3, <3>4 DEF SignaturesOf
  <2>11. ASSUME NEW b \in Browser, StoreSettings(b) PROVE OwnSignatures'
    <3>1. /\ \A c \in Browser : request'[c] \in {NoRequest, request[c]}
          /\ UNCHANGED <<session, page, issued>>
      BY <2>11 DEF StoreSettings, UsersInvariant
    <3>2. QED
      BY <2>1, <3>1 DEF SignaturesOf
  <2>12. ASSUME NEW a \in Address, RemoveAccount(a) PROVE OwnSignatures'
    BY <2>9, <2>12 DEF RemoveAccount
  <2>13. ASSUME NEW a \in Address, NEW name \in Name, AddAccount(a, name) \/ UpdateAccount(a, name)
         PROVE  OwnSignatures'
    BY <2>9, <2>13 DEF AddAccount, UpdateAccount
  <2>14. CASE Restart
    BY <2>1, <2>14 DEF Restart, SignaturesOf, EmptySession, NoToken, NoLogin
  <2>15. CASE SetClock
    BY <2>2, <2>15 DEF SetClock
  <2>16. QED
    BY <2>2, <2>3, <2>4, <2>5, <2>6, <2>7, <2>8, <2>10, <2>11, <2>12, <2>13, <2>14, <2>15
       DEF SessionNext, sessionVars
<1>3. QED
  BY <1>1, <1>2, SessionInvariant, UserInvariant, PTL DEF SessionSpec

\* A request that no change of its account has overtaken agrees with that account.
RequestAgrees(b) ==
    request[b] # NoRequest /\ ~request[b].overtaken =>
        /\ request[b].key \in DOMAIN accounts
        /\ accounts[request[b].key].address = request[b].user.address
        /\ request[b].pc = "cache" => accounts[request[b].key].name = request[b].user.name
        /\ request[b].pc = "store" => accounts[request[b].key].name = request[b].name
        /\ /\ request[b].pc = "session"
           /\ request[b].key \in DOMAIN store
           /\ store[request[b].key].signature = request[b].user.signature
           => store[request[b].key].address = request[b].user.address

OneAccountEach ==
    \A k, m \in DOMAIN accounts : accounts[k].address = accounts[m].address => k = m

\* Only the account of key k is changed, and the requests about it are overtaken.
LEMMA OvertakenAgree ==
    ASSUME UsersInvariant, NEW k, NEW b \in Browser, RequestAgrees(b),
           request'[b] = Overtake(k)[b], store' = store,
           \A m \in DOMAIN accounts : m # k => m \in DOMAIN accounts' /\ accounts'[m] = accounts[m]
    PROVE  RequestAgrees(b)'
<1>1. CASE request'[b] = request[b] /\ (request[b] # NoRequest => request[b].key # k)
  BY <1>1 DEF RequestAgrees
<1>2. CASE request'[b].overtaken
  BY <1>2 DEF RequestAgrees
<1>3. QED
  BY <1>1, <1>2, OvertakeKeepsRequests

\* Another browser's copy does not pass for the user that b has put in user_store.
LEMMA OthersCopyAgrees ==
    ASSUME UsersInvariant, OwnSignatures, NEW b \in Browser, NEW c \in Browser \ {b},
           RequestAgrees(b), NEW u \in Signed,
           request[c] # NoRequest, u.signature = request[c].user.signature,
           store' = Put(store, request[c].key, u), accounts' = accounts, request'[b] = request[b]
    PROVE  RequestAgrees(b)'
<1>1. /\ DOMAIN store' = {request[c].key} \cup DOMAIN store
      /\ store'[request[c].key] = u
      /\ \A m \in DOMAIN store : m # request[c].key => store'[m] = store[m]
  BY DEF Put
<1>2. ASSUME request[b] # NoRequest PROVE request[b].user.signature # u.signature
  <2>1. request[b].user.signature \in SignaturesOf(b) /\ u.signature \in SignaturesOf(c)
    BY <1>2 DEF SignaturesOf
  <2>2. u.signature # 0
    BY DEF Signed
  <2>3. QED
    BY <2>1, <2>2 DEF OwnSignatures
<1>3. QED
  BY <1>1, <1>2 DEF RequestAgrees

AccountsAgree == OneAccountEach /\ \A b \in Browser : RequestAgrees(b)

LEMMA AgreeInvariant == SessionSpec => []AccountsAgree
<1>1. SessionInit => AccountsAgree
  BY DEF SessionInit, AccountsAgree, OneAccountEach, RequestAgrees
<1>2. UsersInvariant /\ OwnSignatures /\ AccountsAgree /\ TokensInvariant
        /\ [SessionNext]_sessionVars => AccountsAgree'
  <2> SUFFICES ASSUME UsersInvariant, OwnSignatures, AccountsAgree, TokensInvariant,
                      [SessionNext]_sessionVars
               PROVE  AccountsAgree'
    OBVIOUS
  <2> USE DEF AccountsAgree
  <2>1. ASSUME UNCHANGED <<accounts, store>>,
               \A b \in Browser : request'[b] \in {NoRequest, request[b]}
        PROVE  AccountsAgree'
    <3>1. OneAccountEach'
      BY <2>1 DEF OneAccountEach
    <3>2. \A b \in Browser : RequestAgrees(b)'
      BY <2>1 DEF RequestAgrees
    <3>3. QED
      BY <3>1, <3>2
  \* Browser b begins a request, in agreement with the account.
  <2>2. ASSUME NEW b \in Browser, UNCHANGED <<accounts, store>>, RequestAgrees(b)',
               \A c \in Browser \ {b} : request'[c] = request[c]
        PROVE  AccountsAgree'
    <3>1. OneAccountEach'
      BY <2>2 DEF OneAccountEach
    <3>2. \A c \in Browser \ {b} : RequestAgrees(c)'
      BY <2>2 DEF RequestAgrees
    <3>3. QED
      BY <2>2, <3>1, <3>2
  <2>3. ASSUME NEW b \in Browser, NEW a \in Address, PostLogin(b, a) PROVE AccountsAgree'
    <3>1. PICK k \in AccountAt(a) :
             request' = [request EXCEPT ![b] =
                [pc |-> "cache", key |-> k, overtaken |-> FALSE,
                 user |-> [address |-> a, name |-> accounts[k].name, signature |-> page[b].no]]]
      BY <2>3 DEF PostLogin
    <3>2. k \in DOMAIN accounts /\ accounts[k].address = a /\ UNCHANGED <<accounts, store>>
      BY <2>3, <3>1 DEF AccountAt, PostLogin
    <3>3. RequestAgrees(b)'
      BY <3>1, <3>2 DEF RequestAgrees, UsersInvariant
    <3>4. QED
      BY <2>2, <3>1, <3>2, <3>3 DEF UsersInvariant
  <2>4. ASSUME NEW b \in Browser, NEW name \in Name, BeginSettings(b, name) PROVE AccountsAgree'
    <3>1. PICK k \in AccountAt(CurrentUser(b).address) :
             request' = [request EXCEPT ![b] =
                [pc |-> "write", key |-> k, overtaken |-> FALSE, user |-> CurrentUser(b),
                 name |-> name]]
      BY <2>4 DEF BeginSettings
    <3>2. /\ k \in DOMAIN accounts /\ accounts[k].address = CurrentUser(b).address
          /\ UNCHANGED <<accounts, store>>
      BY <2>4, <3>1 DEF AccountAt, BeginSettings
    <3>3. RequestAgrees(b)'
      BY <3>1, <3>2 DEF RequestAgrees, UsersInvariant
    <3>4. QED
      BY <2>2, <3>1, <3>2, <3>3 DEF UsersInvariant
  <2>5. ASSUME NEW b \in Browser, LoginStore(b) PROVE AccountsAgree'
    <3>1. request[b] \in LoginRequest /\ request[b] # NoRequest
      BY <2>5 DEF LoginStore, UsersInvariant, NoRequest, SettingsRequest
    <3>2. /\ request'[b].pc = "session" /\ request'[b].key = request[b].key
          /\ request'[b].user = request[b].user /\ request'[b].overtaken = request[b].overtaken
          /\ \A c \in Browser \ {b} : request'[c] = request[c]
          /\ accounts' = accounts /\ store' = Put(store, request[b].key, request[b].user)
      BY <2>5, <3>1 DEF LoginStore, UsersInvariant, LoginRequest
    <3>3. request[b].user \in Signed
      BY <3>1 DEF LoginRequest
    <3>4. RequestAgrees(b)'
      BY <3>1, <3>2 DEF RequestAgrees, Put
    <3>5. \A c \in Browser \ {b} : RequestAgrees(c)'
      BY <3>1, <3>2, <3>3, OthersCopyAgrees
    <3>6. QED
      BY <3>2, <3>4, <3>5 DEF OneAccountEach
  <2>6. ASSUME NEW b \in Browser, StoreSettings(b) PROVE AccountsAgree'
    <3> DEFINE u == [request[b].user EXCEPT !.name = request[b].name]
    <3>1. request[b] \in SettingsRequest /\ request[b] # NoRequest
      BY <2>6 DEF StoreSettings, UsersInvariant, NoRequest, LoginRequest
    <3>2. u \in Signed /\ u.signature = request[b].user.signature
      BY <3>1 DEF SettingsRequest, Signed
    <3>3. /\ request'[b] = NoRequest
          /\ \A c \in Browser \ {b} : request'[c] = request[c]
          /\ accounts' = accounts /\ store' = Put(store, request[b].key, u)
      BY <2>6 DEF StoreSettings, UsersInvariant
    <3> HIDE DEF u
    <3>4. RequestAgrees(b)'
      BY <3>3 DEF RequestAgrees
    <3>5. \A c \in Browser \ {b} : RequestAgrees(c)'
      BY <3>1, <3>2, <3>3, OthersCopyAgrees
    <3>6. QED
      BY <3>3, <3>4, <3>5 DEF OneAccountEach
  \* The account of key k is changed, but for its address.
  <2>7. ASSUME NEW k \in DOMAIN accounts, NEW name, accounts' = [accounts EXCEPT ![k].name = name]
        PROVE  /\ OneAccountEach' /\ DOMAIN accounts' = DOMAIN accounts
               /\ accounts'[k].name = name /\ accounts'[k].address = accounts[k].address
               /\ \A m \in DOMAIN accounts : m # k => accounts'[m] = accounts[m]
    <3>1. /\ accounts'[k].name = name /\ accounts'[k].address = accounts[k].address
          /\ \A m \in DOMAIN accounts : m # k => accounts'[m] = accounts[m]
          /\ DOMAIN accounts' = DOMAIN accounts
      BY <2>7 DEF UsersInvariant
    <3>2. OneAccountEach'
      BY <3>1 DEF OneAccountEach
    <3>3. QED
      BY <3>1, <3>2
  <2>8. ASSUME NEW b \in Browser, WriteSettings(b) PROVE AccountsAgree'
    <3>1. request[b] \in SettingsRequest /\ request[b] # NoRequest
      BY <2>8 DEF WriteSettings, UsersInvariant, NoRequest, LoginRequest
    <3>2. CASE request' = [request EXCEPT ![b] = NoRequest] /\ UNCHANGED accounts
      BY <2>1, <2>8, <3>2 DEF WriteSettings, UsersInvariant
    <3>3. ASSUME NEW k \in AccountAt(request[b].user.address),
                 accounts' = [accounts EXCEPT ![k].name = request[b].name],
                 request' = [Overtake(k) EXCEPT ![b] = [request[b] EXCEPT !.pc = "store"]]
          PROVE  AccountsAgree'
      <4>1. k \in DOMAIN accounts /\ accounts[k].address = request[b].user.address
        BY DEF AccountAt
      <4>2. store' = store
        BY <2>8 DEF WriteSettings
      <4>3. \A c \in Browser \ {b} : RequestAgrees(c)'
        BY <2>7, <3>3, <4>1, <4>2, OvertakenAgree, OvertakeKeepsRequests
      <4>4. /\ request'[b].pc = "store" /\ request'[b].key = request[b].key
            /\ request'[b].user = request[b].user /\ request'[b].overtaken = request[b].overtaken
            /\ request'[b].name = request[b].name
        BY <3>1, <3>3, OvertakeKeepsRequests DEF SettingsRequest
      <4>5. ~request[b].overtaken => request[b].key = k
        BY <3>1, <4>1 DEF RequestAgrees, OneAccountEach
      <4>6. RequestAgrees(b)'
        BY <2>7, <3>3, <4>1, <4>4, <4>5 DEF RequestAgrees
      <4>7. QED
        BY <2>7, <3>3, <4>1, <4>3, <4>6
    <3>4. QED
      BY <2>8, <3>2, <3>3 DEF WriteSettings
  <2>9. ASSUME NEW a \in Address, NEW name \in Name, AddAccount(a, name) PROVE AccountsAgree'
    <3> DEFINE k == NextKey(accounts)
    <3>1. k \notin DOMAIN accounts
      BY KeyAboveIsFree, SessionBounds DEF UsersInvariant, AccountKey, NextKey
    <3>2. /\ accounts' = Put(accounts, k, [address |-> a, name |-> name])
          /\ request' = Overtake(k) /\ store' = store
          /\ AccountAt(a) = {}
      BY <2>9 DEF AddAccount
    <3> HIDE DEF k
    <3>3. /\ DOMAIN accounts' = {k} \cup DOMAIN accounts
          /\ accounts'[k].address = a
          /\ \A m \in DOMAIN accounts : m # k /\ accounts'[m] = accounts[m]
      BY <3>1, <3>2 DEF Put
    <3>4. \A m \in DOMAIN accounts : accounts[m].address # a
      BY <3>2 DEF AccountAt
    <3>5. OneAccountEach'
      BY <3>3, <3>4 DEF OneAccountEach
    <3>6. \A b \in Browser : RequestAgrees(b)'
      BY <3>2, <3>3, OvertakenAgree
    <3>7. QED
      BY <3>5, <3>6
  <2>10. ASSUME NEW a \in Address, RemoveAccount(a) PROVE AccountsAgree'
    <3>1. PICK k \in AccountAt(a) : accounts' = Without(accounts, {k}) /\ request' = Overtake(k)
      BY <2>10 DEF RemoveAccount
    <3>2. /\ DOMAIN accounts' = DOMAIN accounts \ {k}
          /\ \A m \in DOMAIN accounts' : accounts'[m] = accounts[m]
      BY <3>1 DEF Without, Restrict
    <3>3. store' = store
      BY <2>10 DEF RemoveAccount
    <3>4. \A b \in Browser : RequestAgrees(b)'
      BY <3>1, <3>2, <3>3, OvertakenAgree
    <3>5. QED
      BY <3>2, <3>4 DEF OneAccountEach
  <2>11. ASSUME NEW a \in Address, NEW name \in Name, UpdateAccount(a, name) PROVE AccountsAgree'
    <3>1. PICK k \in AccountAt(a) : accounts' = [accounts EXCEPT ![k].name = name] /\ request' = Overtake(k)
      BY <2>11 DEF UpdateAccount
    <3>2. k \in DOMAIN accounts /\ store' = store
      BY <2>11, <3>1 DEF UpdateAccount, AccountAt
    <3>3. \A b \in Browser : RequestAgrees(b)'
      BY <2>7, <3>1, <3>2, OvertakenAgree
    <3>4. QED
      BY <2>7, <3>1, <3>2, <3>3
  <2>12. CASE Restart
    <3>1. \A b \in Browser : RequestAgrees(b)'
      BY <2>12 DEF Restart, RequestAgrees
    <3>2. QED
      BY <2>12, <3>1 DEF Restart, OneAccountEach
  <2>13. ASSUME NEW b \in Browser, LoginSession(b) PROVE AccountsAgree'
    BY <2>1, <2>13 DEF LoginSession, UsersInvariant
  <2>14. CASE UNCHANGED <<accounts, store, request>>
    BY <2>1, <2>14
  <2>15. QED
    BY <2>3, <2>4, <2>5, <2>6, <2>8, <2>9, <2>10, <2>11, <2>12, <2>13, <2>14
       DEF SessionNext, GetLogin, Logout, SetClock, sessionVars
<1>3. QED
  BY <1>1, <1>2, SessionInvariant, UserInvariant, SignatureInvariant, PTL DEF SessionSpec

\* The requests of the web interface alone keep the users in memory true to the
\* table, for any number of browsers and accounts and any reuse of keys.
THEOREM MemoryStaysTrue == SessionSpec => MemoryFalseOnlyWhenOvertaken
<1>1. UsersInvariant /\ AccountsAgree /\ TokensInvariant /\ [SessionNext]_sessionVars
        => ((\/ \E k \in AccountKey : CacheIsTrue(k) /\ ~CacheIsTrue(k)'
             \/ \E b \in Browser : ~Ghost(b) /\ Ghost(b)')
            => \/ accounts' # accounts
               \/ \E b \in Browser : request[b] # NoRequest /\ request[b].overtaken)
  <2> SUFFICES ASSUME UsersInvariant, AccountsAgree, TokensInvariant, [SessionNext]_sessionVars,
                      accounts' = accounts,
                      \A b \in Browser : request[b] # NoRequest => ~request[b].overtaken
               PROVE  /\ \A k \in AccountKey : CacheIsTrue(k) => CacheIsTrue(k)'
                      /\ \A b \in Browser : Ghost(b)' => Ghost(b)
    OBVIOUS
  <2> DEFINE Goal == /\ \A k \in AccountKey : CacheIsTrue(k) => CacheIsTrue(k)'
                     /\ \A b \in Browser : Ghost(b)' => Ghost(b)
             Correcting(b) == request[b].pc \in {"cache", "store"}
  \* Nothing is written to user_store, and nobody signs in.
  <2>1. ASSUME store' = store,
               \A b \in Browser : session'[b].login \in {session[b].login, NoLogin},
               \A b \in Browser : Correcting(b) =>
                   request'[b].pc = request[b].pc /\ request'[b].key = request[b].key
        PROVE  Goal
    <3>1. ASSUME NEW k \in AccountKey, CacheIsTrue(k) PROVE CacheIsTrue(k)'
      BY <2>1, <3>1 DEF CacheIsTrue
    <3>2. ASSUME NEW b \in Browser, Ghost(b)' PROVE Ghost(b)
      <4>1. session'[b].login # NoLogin
        <5>1. 0 \notin DOMAIN store
          BY DEF UsersInvariant, AccountKey
        <5>2. QED
          BY <2>1, <3>2, <5>1 DEF Ghost, CurrentUser, NoLogin
      <4>2. QED
        BY <2>1, <3>2, <4>1 DEF Ghost, CurrentUser, AccountAt
    <3>3. QED
      BY <3>1, <3>2
  \* Browser b puts in user_store what agrees with the account.
  <2>2. ASSUME NEW b \in Browser, NEW k \in DOMAIN accounts, NEW u \in Signed,
               store' = Put(store, k, u), session' = session,
               accounts[k].address = u.address, accounts[k].name = u.name,
               request[b].key = k,
               \A c \in Browser \ {b} : request'[c] = request[c]
        PROVE  Goal
    <3>1. /\ DOMAIN store' = {k} \cup DOMAIN store
          /\ store'[k] = u
          /\ \A m \in DOMAIN store : m # k => store'[m] = store[m]
      BY <2>2 DEF Put
    <3>2. CacheIsTrue(k)'
      BY <2>2, <3>1 DEF CacheIsTrue
    <3>3. ASSUME NEW m \in AccountKey \ {k}, CacheIsTrue(m) PROVE CacheIsTrue(m)'
      BY <2>2, <3>1, <3>3 DEF CacheIsTrue
    <3>4. ASSUME NEW c \in Browser, Ghost(c)' PROVE Ghost(c)
      <4>1. CASE session[c].login.key = k
        <5>1. CurrentUser(c)' = u
          BY <2>2, <3>1, <3>4, <4>1 DEF Ghost, CurrentUser
        <5>2. k \in AccountAt(u.address)'
          BY <2>2 DEF AccountAt
        <5>3. QED
          BY <3>4, <5>1, <5>2 DEF Ghost, AccountAt
      <4>2. CASE session[c].login.key # k
        BY <2>2, <3>1, <3>4, <4>2 DEF Ghost, CurrentUser, AccountAt
      <4>3. QED
        BY <4>1, <4>2
    <3>5. QED
      BY <3>2, <3>3, <3>4
  <2>3. ASSUME NEW b \in Browser, LoginStore(b) PROVE Goal
    <3>1. request[b] \in LoginRequest /\ request[b] # NoRequest
      BY <2>3 DEF LoginStore, UsersInvariant, NoRequest, SettingsRequest
    <3>2. request[b].user \in Signed
      BY <3>1 DEF LoginRequest
    <3>3. /\ request[b].key \in DOMAIN accounts
          /\ accounts[request[b].key].address = request[b].user.address
          /\ accounts[request[b].key].name = request[b].user.name
      BY <2>3, <3>1 DEF LoginStore, AccountsAgree, RequestAgrees
    <3>4. /\ store' = Put(store, request[b].key, request[b].user)
          /\ session' = session
          /\ \A c \in Browser \ {b} : request'[c] = request[c]
      BY <2>3 DEF LoginStore, UsersInvariant
    <3>5. QED
      BY <2>2, <3>2, <3>3, <3>4
  <2>4. ASSUME NEW b \in Browser, StoreSettings(b) PROVE Goal
    <3> DEFINE u == [request[b].user EXCEPT !.name = request[b].name]
    <3>1. request[b] \in SettingsRequest /\ request[b] # NoRequest
      BY <2>4 DEF StoreSettings, UsersInvariant, NoRequest, LoginRequest
    <3>2. u \in Signed /\ u.address = request[b].user.address /\ u.name = request[b].name
      BY <3>1 DEF SettingsRequest, Signed
    <3>3. /\ request[b].key \in DOMAIN accounts
          /\ accounts[request[b].key].address = request[b].user.address
          /\ accounts[request[b].key].name = request[b].name
      BY <2>4, <3>1 DEF StoreSettings, AccountsAgree, RequestAgrees
    <3>4. /\ store' = Put(store, request[b].key, u)
          /\ session' = session
          /\ \A c \in Browser \ {b} : request'[c] = request[c]
      BY <2>4 DEF StoreSettings, UsersInvariant
    <3> HIDE DEF u
    <3>5. QED
      BY <2>2, <3>2, <3>3, <3>4
  <2>5. ASSUME NEW b \in Browser, LoginSession(b) PROVE Goal
    <3> DEFINE k == request[b].key
               u == request[b].user
    <3>1. request[b] # NoRequest /\ request[b].pc = "session"
      BY <2>5 DEF LoginSession, NoRequest
    <3>2. /\ k \in DOMAIN accounts /\ accounts[k].address = u.address
          /\ k \in DOMAIN store /\ store[k].signature = u.signature => store[k].address = u.address
      BY <3>1 DEF AccountsAgree, RequestAgrees
    <3>3. /\ session'[b].login = [key |-> k, signature |-> u.signature]
          /\ \A c \in Browser \ {b} : session'[c] = session[c] /\ request'[c] = request[c]
          /\ store' = store
      BY <2>5 DEF LoginSession, TokensInvariant, UsersInvariant
    <3> HIDE DEF k, u
    <3>4. ASSUME NEW m \in AccountKey, CacheIsTrue(m) PROVE CacheIsTrue(m)'
      BY <3>1, <3>3, <3>4 DEF CacheIsTrue
    <3>5. ASSUME NEW c \in Browser \ {b}, Ghost(c)' PROVE Ghost(c)
      BY <3>3, <3>5 DEF Ghost, CurrentUser, AccountAt
    <3>6. ~Ghost(b)'
      <4>1. CASE k \in DOMAIN store /\ store[k].signature = u.signature
        <5>1. CurrentUser(b)' = store[k]
          BY <3>3, <4>1 DEF CurrentUser
        <5>2. k \in DOMAIN accounts' /\ accounts'[k].address = store[k].address
          BY <3>2, <4>1
        <5>3. AccountAt(CurrentUser(b).address)' # {}
          BY <5>1, <5>2 DEF AccountAt
        <5>4. QED
          BY <5>3 DEF Ghost
      <4>2. CASE ~(k \in DOMAIN store /\ store[k].signature = u.signature)
        BY <3>3, <4>2 DEF Ghost, CurrentUser
      <4>3. QED
        BY <4>1, <4>2
    <3>7. QED
      BY <3>4, <3>5, <3>6
  <2>6. CASE Restart
    BY <2>6 DEF Restart, CacheIsTrue, Ghost, CurrentUser
  <2>7. ASSUME NEW k, request' = Overtake(k), UNCHANGED <<store, session>> PROVE Goal
    BY <2>1, <2>7, OvertakeKeepsRequests
  <2>8. ASSUME NEW b \in Browser, WriteSettings(b) PROVE Goal
    <3>1. request[b].pc = "write" /\ store' = store /\ session' = session
      BY <2>8 DEF WriteSettings
    <3>2. CASE request' = [request EXCEPT ![b] = NoRequest]
      BY <2>1, <3>1, <3>2 DEF UsersInvariant
    <3>3. ASSUME NEW k, request' = [Overtake(k) EXCEPT ![b] = [request[b] EXCEPT !.pc = "store"]]
          PROVE  Goal
      <4>1. \A c \in Browser \ {b} : request'[c] = Overtake(k)[c]
        BY <3>3, OvertakeKeepsRequests
      <4>2. QED
        BY <2>1, <3>1, <4>1, OvertakeKeepsRequests
    <3>4. QED
      BY <2>8, <3>2, <3>3 DEF WriteSettings
  <2>9. ASSUME NEW b \in Browser, request[b] = NoRequest, UNCHANGED <<store, session>>,
               \A c \in Browser \ {b} : request'[c] = request[c]
        PROVE  Goal
    BY <2>1, <2>9 DEF NoRequest
  <2>10. ASSUME NEW b \in Browser, NEW tab, GetLogin(b, tab) PROVE Goal
    BY <2>1, <2>10 DEF GetLogin, TokensInvariant
  <2>11. ASSUME NEW b \in Browser, NEW a, PostLogin(b, a) PROVE Goal
    BY <2>9, <2>11 DEF PostLogin, UsersInvariant
  <2>12. ASSUME NEW b \in Browser, NEW name, BeginSettings(b, name) PROVE Goal
    BY <2>9, <2>12 DEF BeginSettings, UsersInvariant
  <2>13. ASSUME NEW b \in Browser, Logout(b) PROVE Goal
    BY <2>1, <2>13 DEF Logout, TokensInvariant, EmptySession
  <2>14. CASE UNCHANGED <<store, session, request>>
    BY <2>1, <2>14
  <2>15. QED
    BY <2>3, <2>4, <2>5, <2>6, <2>7, <2>8, <2>10, <2>11, <2>12, <2>13, <2>14
       DEF SessionNext, AddAccount, RemoveAccount, UpdateAccount, SetClock, sessionVars
<1>2. QED
  BY <1>1, UserInvariant, SessionInvariant, AgreeInvariant, PTL
     DEF SessionSpec, MemoryFalseOnlyWhenOvertaken

\* A token that was issued in the time that is modelled.
IssuedToken == Token \cup {NoToken}

\* The types of the sessions, and of the tokens and signatures, of which there are no
\* more than MaxTokens.
SessionsTyped ==
    /\ \A k, m \in DOMAIN accounts : accounts[k].address = accounts[m].address => k = m
    /\ store \in [DOMAIN store -> User]
    /\ \A b \in Browser :
         /\ session[b].token \in IssuedToken
         /\ session[b].login \in [key : AccountKey, signature : 1 .. MaxTokens] \cup {NoLogin}
         /\ page[b] \in IssuedToken
         /\ request[b] # NoRequest => request[b].user \in User
    /\ issued \in 0 .. MaxTokens
    /\ clock \in Time

\* No two accounts have one address, and what is in memory is about keys and tokens
\* that exist.
LEMMA SessionTypes == SessionSpec => []SessionTypeOK
<1>1. SessionInit => SessionsTyped
  BY SessionBounds DEF SessionInit, SessionsTyped, EmptySession, IssuedToken, NoLogin, Time
<1>2. TokensInvariant /\ UsersInvariant /\ SessionsTyped /\ [SessionNext]_sessionVars
        => SessionsTyped'
  <2> SUFFICES ASSUME TokensInvariant, UsersInvariant, SessionsTyped, [SessionNext]_sessionVars
               PROVE  SessionsTyped'
    OBVIOUS
  \* Of the accounts only those change that nobody asks for the name of.
  <2>1. ASSUME NEW k, request' = Overtake(k), UNCHANGED <<store, session, page, issued, clock>>,
               \A m, n \in DOMAIN accounts' : accounts'[m].address = accounts'[n].address => m = n
        PROVE  SessionsTyped'
    <3>1. \A b \in Browser : request'[b] # NoRequest =>
             request[b] # NoRequest /\ request'[b].user = request[b].user
      BY <2>1, OvertakeKeepsRequests
    <3>2. QED
      BY <2>1, <3>1 DEF SessionsTyped
  <2>2. ASSUME NEW b \in Browser, NEW tab, GetLogin(b, tab) PROVE SessionsTyped'
    <3> DEFINE old   == session[b].token
               fresh == [no |-> issued + 1, time |-> clock]
               token == IF KeepsToken(old) THEN old ELSE fresh
    <3>1. token \in IssuedToken /\ issued' \in 0 .. MaxTokens
      <4>1. issued' = Max({issued, token.no}) /\ (token = fresh => issued < MaxTokens)
        BY <2>2 DEF GetLogin
      <4>2. token = fresh => token \in Token /\ token.no \in 1 .. MaxTokens
        BY <4>1, SessionBounds DEF SessionsTyped, Token
      <4>3. token = old => token \in IssuedToken
        BY DEF SessionsTyped
      <4>4. token \in IssuedToken
        BY <4>2, <4>3 DEF IssuedToken
      <4> HIDE DEF token
      <4>5. token.no \in 0 .. MaxTokens
        BY <4>4, SessionBounds DEF IssuedToken, Token, NoToken
      <4>6. issued' \in {issued, token.no}
        BY <4>1, <4>5, MaxOfTwo, SessionBounds DEF SessionsTyped
      <4>7. QED
        BY <4>4, <4>5, <4>6 DEF SessionsTyped
    <3>2. /\ session' = [session EXCEPT ![b].token = token]
          /\ page' = [page EXCEPT ![b] = IF tab = "new" /\ @ # NoToken THEN @ ELSE token]
          /\ UNCHANGED <<accounts, store, request, clock>>
      BY <2>2 DEF GetLogin
    <3> HIDE DEF token
    <3>3. \A c \in Browser : /\ session'[c].token \in {session[c].token, token}
                             /\ session'[c].login = session[c].login
                             /\ page'[c] \in {page[c], token}
      BY <3>2 DEF TokensInvariant
    <3>4. QED
      BY <3>1, <3>2, <3>3 DEF SessionsTyped
  <2>3. ASSUME NEW b \in Browser, NEW a \in Address, PostLogin(b, a) PROVE SessionsTyped'
    <3>1. PICK k \in AccountAt(a) :
             request' = [request EXCEPT ![b] =
                [pc |-> "cache", key |-> k, overtaken |-> FALSE,
                 user |-> [address |-> a, name |-> accounts[k].name, signature |-> page[b].no]]]
      BY <2>3 DEF PostLogin
    <3>2. accounts[k].name \in Name
      BY <3>1 DEF AccountAt, UsersInvariant
    <3>3. page[b].no \in 1 .. MaxTokens
      BY <2>3 DEF PostLogin, PageIsGood, SessionsTyped, IssuedToken, Token
    <3>4. request'[b].user \in User
      BY <3>1, <3>2, <3>3 DEF UsersInvariant, User
    <3>5. \A c \in Browser : c = b \/ request'[c] = request[c]
      BY <3>1 DEF UsersInvariant
    <3>6. QED
      BY <2>3, <3>4, <3>5 DEF PostLogin, SessionsTyped
  <2>4. ASSUME NEW b \in Browser, LoginStore(b) PROVE SessionsTyped'
    <3>1. request[b] # NoRequest /\ request[b].user \in User
      BY <2>4 DEF LoginStore, NoRequest, SessionsTyped
    <3>2. store' \in [DOMAIN store' -> User]
      BY <2>4, <3>1 DEF LoginStore, Put, SessionsTyped
    <3>3. request[b] \in LoginRequest
      BY <2>4 DEF LoginStore, UsersInvariant, NoRequest, SettingsRequest
    <3>4. \A c \in Browser : request'[c] # NoRequest =>
             request[c] # NoRequest /\ request'[c].user = request[c].user
      BY <2>4, <3>1, <3>3 DEF LoginStore, UsersInvariant, LoginRequest
    <3>5. QED
      BY <2>4, <3>2, <3>4 DEF LoginStore, SessionsTyped
  <2>5. ASSUME NEW b \in Browser, LoginSession(b) PROVE SessionsTyped'
    <3> DEFINE login == [key |-> request[b].key, signature |-> request[b].user.signature]
    <3>1. login \in [key : AccountKey, signature : 1 .. MaxTokens]
      <4>1. request[b] \in LoginRequest
        BY <2>5 DEF LoginSession, UsersInvariant, NoRequest, SettingsRequest
      <4>2. request[b].user \in User
        BY <2>5 DEF LoginSession, NoRequest, SessionsTyped
      <4>3. QED
        BY <4>1, <4>2 DEF LoginRequest, User
    <3>2. session' = [session EXCEPT ![b].login = login]
      BY <2>5 DEF LoginSession
    <3> HIDE DEF login
    <3>3. \A c \in Browser : /\ session'[c].token = session[c].token
                             /\ session'[c].login \in {session[c].login, login}
      BY <3>2 DEF TokensInvariant
    <3>4. \A c \in Browser : request'[c] # NoRequest => request'[c] = request[c]
      BY <2>5 DEF LoginSession, UsersInvariant
    <3>5. QED
      BY <2>5, <3>1, <3>3, <3>4 DEF LoginSession, SessionsTyped
  <2>6. ASSUME NEW b \in Browser, Logout(b) PROVE SessionsTyped'
    <3>1. \A c \in Browser : /\ session'[c].token \in {session[c].token, NoToken}
                             /\ session'[c].login \in {session[c].login, NoLogin}
                             /\ page'[c] \in {page[c], NoToken}
      BY <2>6 DEF Logout, TokensInvariant, EmptySession
    <3>2. QED
      BY <2>6, <3>1 DEF Logout, SessionsTyped, IssuedToken
  <2>7. ASSUME NEW b \in Browser, NEW name \in Name, BeginSettings(b, name)
        PROVE  SessionsTyped'
    <3>1. CurrentUser(b) \in User
      BY <2>7 DEF BeginSettings, CurrentUser, SessionsTyped
    <3>2. \A c \in Browser : request'[c] # NoRequest =>
             \/ request'[c].user = CurrentUser(b)
             \/ request'[c] = request[c]
      BY <2>7 DEF BeginSettings, UsersInvariant
    <3>3. QED
      BY <2>7, <3>1, <3>2 DEF BeginSettings, SessionsTyped
  <2>8. ASSUME NEW b \in Browser, WriteSettings(b) PROVE SessionsTyped'
    <3>1. request[b] \in SettingsRequest
      BY <2>8 DEF WriteSettings, UsersInvariant, NoRequest, LoginRequest
    <3>2. CASE request' = [request EXCEPT ![b] = NoRequest] /\ UNCHANGED accounts
      BY <2>8, <3>2 DEF WriteSettings, UsersInvariant, SessionsTyped
    <3>3. CASE \E k \in AccountAt(request[b].user.address) :
                 /\ accounts' = [accounts EXCEPT ![k].name = request[b].name]
                 /\ request' = [Overtake(k) EXCEPT ![b] = [request[b] EXCEPT !.pc = "store"]]
      <4>1. PICK k \in AccountAt(request[b].user.address) :
                 /\ accounts' = [accounts EXCEPT ![k].name = request[b].name]
                 /\ request' = [Overtake(k) EXCEPT ![b] = [request[b] EXCEPT !.pc = "store"]]
        BY <3>3
      <4>2. [request[b] EXCEPT !.pc = "store"].user = request[b].user /\ request[b] # NoRequest
        BY <2>8, <3>1 DEF SettingsRequest, WriteSettings, NoRequest
      <4>3. \A c \in Browser : request'[c] # NoRequest =>
               request[c] # NoRequest /\ request'[c].user = request[c].user
        BY <4>1, <4>2, OvertakeKeepsRequests
      <4>4. /\ DOMAIN accounts' = DOMAIN accounts
            /\ \A m \in DOMAIN accounts : accounts'[m].address = accounts[m].address
        BY <4>1 DEF UsersInvariant
      <4>5. QED
        BY <2>8, <4>3, <4>4 DEF WriteSettings, SessionsTyped
    <3>4. QED
      BY <2>8, <3>2, <3>3 DEF WriteSettings
  <2>9. ASSUME NEW b \in Browser, StoreSettings(b) PROVE SessionsTyped'
    <3>1. request[b] \in SettingsRequest /\ request[b].user \in User
      BY <2>9 DEF StoreSettings, UsersInvariant, SessionsTyped, NoRequest, LoginRequest
    <3>2. [request[b].user EXCEPT !.name = request[b].name] \in User
      BY <3>1 DEF SettingsRequest, User
    <3>3. store' \in [DOMAIN store' -> User]
      BY <2>9, <3>2 DEF StoreSettings, Put, SessionsTyped
    <3>4. QED
      BY <2>9, <3>3 DEF StoreSettings, UsersInvariant, SessionsTyped
  <2>10. ASSUME NEW a \in Address, NEW name \in Name, AddAccount(a, name) PROVE SessionsTyped'
    <3>1. \A m, n \in DOMAIN accounts' : accounts'[m].address = accounts'[n].address => m = n
      BY <2>10 DEF AddAccount, AccountAt, Put, UsersInvariant, SessionsTyped
    <3>2. QED
      BY <2>1, <2>10, <3>1 DEF AddAccount
  <2>11. ASSUME NEW a \in Address, RemoveAccount(a) PROVE SessionsTyped'
    <3>1. \A m, n \in DOMAIN accounts' : accounts'[m].address = accounts'[n].address => m = n
      BY <2>11 DEF RemoveAccount, Without, Restrict, SessionsTyped
    <3>2. QED
      BY <2>1, <2>11, <3>1 DEF RemoveAccount
  <2>12. ASSUME NEW a \in Address, NEW name \in Name, UpdateAccount(a, name)
         PROVE  SessionsTyped'
    <3>1. /\ DOMAIN accounts' = DOMAIN accounts
          /\ \A m \in DOMAIN accounts : accounts'[m].address = accounts[m].address
      BY <2>12 DEF UpdateAccount, UsersInvariant
    <3>2. QED
      BY <2>1, <2>12, <3>1 DEF UpdateAccount, SessionsTyped
  <2>13. CASE Restart
    <3>1. store' \in [DOMAIN store' -> User]
      BY <2>13 DEF Restart
    <3>2. QED
      BY <2>13, <3>1 DEF Restart, SessionsTyped, EmptySession, IssuedToken
  <2>14. CASE SetClock
    BY <2>14 DEF SetClock, SessionsTyped
  <2>15. CASE UNCHANGED sessionVars
    BY <2>15 DEF sessionVars, SessionsTyped
  <2>16. QED
    BY <2>2, <2>3, <2>4, <2>5, <2>6, <2>7, <2>8, <2>9, <2>10, <2>11, <2>12, <2>13, <2>14, <2>15
       DEF SessionNext
<1>3. UsersInvariant /\ SessionsTyped => SessionTypeOK
  <2>1. UsersInvariant => \A b \in Browser : request[b] # NoRequest => request[b].key \in AccountKey
    BY DEF UsersInvariant, LoginRequest, SettingsRequest
  <2>2. QED
    BY <2>1 DEF UsersInvariant, SessionsTyped, SessionTypeOK, IssuedToken
<1>4. QED
  BY <1>1, <1>2, <1>3, UserInvariant, SessionInvariant, PTL DEF SessionSpec

-------------------------------------------------------------------------------
(***************************************************************************)
(* The Postfix configuration                                               *)
(***************************************************************************)

\* What a master.cf may hold.
MasterFile == [lines : Seq(Line), newline : BOOLEAN]

\* What the tool itself may have put on a line.
OwnLines == {"own", "#own", "glued", "argv"}

LEMMA LeastOfLines ==
    ASSUME NEW S, S \subseteq Nat, S # {}
    PROVE  Min(S) \in S /\ \A i \in S : Min(S) =< i
<1>1. PICK d \in S : \A e \in S : ~(<<e, d>> \in OpToRel(<, Nat))
  BY NatLessThanWellFounded, WFMin
<1>2. ASSUME NEW e \in S
      PROVE  d =< e
  <2>1. ~(e < d)
    BY <1>1 DEF OpToRel
  <2>2. d \in Nat /\ e \in Nat
    OBVIOUS
  <2>3. QED
    BY <2>1, <2>2
<1>3. QED
  BY <1>2 DEF Min

\* The text found begins with the name, or is an earlier copy of it.
LEMMA PositionFound ==
    ASSUME NEW conf \in MasterFile, Starting(conf) # {}
    PROVE  /\ Position(conf) \in DOMAIN conf.lines
           /\ Position(conf) \in Holding(conf, conf.lines[Min(Starting(conf))])
           /\ \A i \in Holding(conf, conf.lines[Min(Starting(conf))]) : Position(conf) =< i
<1>1. DOMAIN conf.lines \subseteq Nat
  BY DEF MasterFile
<1>2. Min(Starting(conf)) \in Starting(conf)
  BY <1>1, LeastOfLines DEF Starting
<1>3. Min(Starting(conf)) \in Holding(conf, conf.lines[Min(Starting(conf))])
  BY <1>2 DEF Starting, Holding
<1>4. Holding(conf, conf.lines[Min(Starting(conf))]) \subseteq DOMAIN conf.lines
  BY DEF Holding
<1>5. QED
  BY <1>1, <1>3, <1>4, LeastOfLines DEF Position

LEMMA EndFound ==
    ASSUME NEW conf \in MasterFile, Starting(conf) # {}, ~NoEnd(conf)
    PROVE  /\ Min(Ends(conf)) \in Ends(conf)
           /\ \A i \in Ends(conf) : Min(Ends(conf)) =< i
<1>1. Ends(conf) # {} /\ Ends(conf) \subseteq Nat
  BY DEF NoEnd, Ends, MasterFile
<1>2. QED
  BY <1>1, LeastOfLines

\* The entry is put between lines of the file.
LEMMA EntryAddsOwnLines ==
    ASSUME NEW S, NEW conf \in [lines : Seq(S), newline : BOOLEAN], S \subseteq Line, ~NoEnd(conf)
    PROVE  WithEntry(conf) \in [lines : Seq(S \cup OwnLines), newline : BOOLEAN]
<1> DEFINE T == S \cup OwnLines
<1>1. conf \in MasterFile /\ conf.lines \in Seq(T)
  BY SeqMonotonic DEF MasterFile
<1>2. CASE Starting(conf) = {}
  <2>1. Entry \in Seq(T) /\ <<"glued", "argv">> \in Seq(T)
    BY DEF Entry, OwnLines
  <2>2. conf.lines \o Entry \in Seq(T)
    BY <1>1, <2>1, ConcatProperties
  <2>3. conf.lines # << >> => Front(conf.lines) \in Seq(T)
    BY <1>1 DEF Front
  <2>4. conf.lines # << >> => Front(conf.lines) \o <<"glued", "argv">> \in Seq(T)
    BY <2>1, <2>3, ConcatProperties
  <2>5. QED
    BY <1>2, <2>2, <2>4 DEF WithEntry, Appended
<1>3. CASE Starting(conf) # {}
  <2> DEFINE pos == Position(conf)
             end == Min(Ends(conf))
             first == IF conf.lines[pos] \in {"#own", "glued"} THEN conf.lines[pos] ELSE "own"
  <2>1. pos \in 1 .. Len(conf.lines) /\ end \in 1 .. Len(conf.lines)
    <3>1. DOMAIN conf.lines = 1 .. Len(conf.lines)
      BY <1>1
    <3>2. pos \in DOMAIN conf.lines
      BY <1>1, <1>3, PositionFound
    <3>3. end \in Ends(conf)
      BY <1>1, <1>3, EndFound
    <3>4. QED
      BY <3>1, <3>2, <3>3 DEF Ends
  <2> HIDE DEF pos, end
  <2>2. SubSeq(conf.lines, 1, pos - 1) \in Seq(T)
    BY <1>1, <2>1
  <2>3. SubSeq(conf.lines, end + 1, Len(conf.lines)) \in Seq(T)
    BY <1>1, <2>1
  <2>4. first \in T
    BY DEF OwnLines
  <2>5. <<first, "argv">> \in Seq(T)
    BY <2>4 DEF OwnLines
  <2>6. SubSeq(conf.lines, 1, pos - 1) \o <<first, "argv">> \in Seq(T)
    BY <2>2, <2>5, ConcatProperties
  <2>7. SubSeq(conf.lines, 1, pos - 1) \o <<first, "argv">>
          \o SubSeq(conf.lines, end + 1, Len(conf.lines)) \in Seq(T)
    BY <2>3, <2>6, ConcatProperties
  <2>8. QED
    BY <1>3, <2>7 DEF WithEntry, Replaced, pos, end
<1>4. QED
  BY <1>2, <1>3

\* Writing over a file keeps it a sequence of its lines, the new ones and zeros.
LEMMA WritingOver ==
    ASSUME NEW S, "zeros" \in S, NEW lines \in Seq(S), NEW new \in Seq(S), NEW n \in Nat, n > 0
    PROVE  /\ WriteOver(lines, n, new) \in Seq(S)
           /\ Len(WriteOver(lines, n, new)) = Max({Len(lines), Len(new)})
           /\ \A i \in 1 .. Max({Len(lines), Len(new)}) :
                WriteOver(lines, n, new)[i] =
                  IF i >= n /\ i <= Len(new) THEN new[i]
                  ELSE IF i <= Len(lines) THEN lines[i] ELSE "zeros"
<1>1. Max({Len(lines), Len(new)}) \in Nat
  BY MaxOfTwo
<1> DEFINE m == Max({Len(lines), Len(new)})
<1> HIDE DEF m
<1> DEFINE line(i) == IF i >= n /\ i <= Len(new) THEN new[i]
                      ELSE IF i <= Len(lines) THEN lines[i] ELSE "zeros"
<1>2. \A i \in 1 .. m : line(i) \in S
  BY <1>1 DEF m
<1>3. WriteOver(lines, n, new) = [i \in 1 .. m |-> line(i)]
  BY DEF WriteOver, m
<1>4. WriteOver(lines, n, new) \in [1 .. m -> S]
  BY <1>2, <1>3
<1>5. m \in Nat
  BY <1>1 DEF m
<1>6. WriteOver(lines, n, new) \in Seq(S) /\ Len(WriteOver(lines, n, new)) = m
  BY <1>4, <1>5
<1>7. QED
  BY <1>3, <1>6 DEF m

LEMMA Shortened ==
    ASSUME NEW S, "zeros" \in S, NEW lines \in Seq(S), NEW n \in Nat
    PROVE  /\ SetLen(lines, n) \in Seq(S)
           /\ Len(SetLen(lines, n)) = n
           /\ \A i \in 1 .. n : SetLen(lines, n)[i] = IF i <= Len(lines) THEN lines[i] ELSE "zeros"
BY DEF SetLen

\* The services of a file, by a set that its lines are in
LEMMA SurvivorsOfLines ==
    ASSUME NEW S, NEW conf, conf.lines \in Seq(S)
    PROVE  Survivors({conf}) \subseteq S
BY DEF Survivors, Range

LEMMA SurvivorsSplit ==
    ASSUME NEW conf, NEW files
    PROVE  Survivors({conf} \cup files) = Survivors({conf}) \cup Survivors(files)
BY DEF Survivors

RunState ==
    [pc : {"idle", "postmap", "failed", "done"}]
      \cup [pc : {"open"}, overtaken : BOOLEAN]
      \cup [pc : {"write"}, overtaken : BOOLEAN, file : MasterFile]
      \cup [pc : {"rest"}, overtaken : BOOLEAN, file : MasterFile, from : Nat \ {0}]

PostfixTypes ==
    /\ master \in MasterFile
    /\ backup \subseteq MasterFile
    /\ update \in [Updater -> RunState]
    /\ \A u \in Updater : update[u].pc \in {"write", "rest"} => ~NoEnd(update[u].file)

\* A run since whose copy nobody else has changed master.cf
Alone(u) == update[u].pc \in {"open", "write", "rest"} /\ ~update[u].overtaken

\* The first n lines are written, and no more lines are left than there will be.
Begun(conf, lines, n) ==
    /\ Len(lines) =< Len(WithEntry(conf).lines)
    /\ \A i \in 1 .. n : i =< Len(lines) /\ lines[i] = WithEntry(conf).lines[i]

\* What such a run overwrites is in the backup, and is what it has read.
CopyIsGood(u) ==
    Alone(u) =>
        /\ Survivors({master}) \subseteq Survivors(backup)
        /\ update[u].pc = "write" => master = update[u].file
        /\ update[u].pc = "rest" => Begun(update[u].file, master.lines, update[u].from - 1)

PostfixInvariant == PostfixTypes /\ \A u \in Updater : CopyIsGood(u)

LEMMA OvertakenRuns ==
    ASSUME PostfixTypes
    PROVE  /\ Overtaken \in [Updater -> RunState]
           /\ \A v \in Updater :
                /\ Overtaken[v].pc = update[v].pc
                /\ Overtaken[v].pc \in {"open", "write", "rest"} => Overtaken[v].overtaken
                /\ Overtaken[v].pc \in {"write", "rest"} => Overtaken[v].file = update[v].file
BY DEF PostfixTypes, Overtaken, RunState

\* After a change of master.cf by somebody else, a run is not alone any more.
LEMMA ChangeOvertakes ==
    ASSUME PostfixTypes, NEW v \in Updater, update'[v] = Overtaken[v]
    PROVE  /\ ~Alone(v)'
           /\ update'[v].pc \in {"write", "rest"} => ~NoEnd(update'[v].file)
BY OvertakenRuns DEF Alone, PostfixTypes

\* What a run writes: the entry among the lines of its file.
LEMMA NewLines ==
    ASSUME PostfixTypes, NEW u \in Updater, update[u].pc \in {"write", "rest"}
    PROVE  /\ WithEntry(update[u].file) \in MasterFile
           /\ update[u].file \in MasterFile
           /\ update[u].overtaken \in BOOLEAN
           /\ \A S \in SUBSET Line :
                update[u].file.lines \in Seq(S) => WithEntry(update[u].file).lines \in Seq(S \cup OwnLines)
<1> DEFINE f == update[u].file
<1>1. f \in MasterFile /\ ~NoEnd(f) /\ update[u].overtaken \in BOOLEAN
  BY DEF PostfixTypes, RunState
<1>2. ASSUME NEW S \in SUBSET Line, f.lines \in Seq(S)
      PROVE  WithEntry(f) \in [lines : Seq(S \cup OwnLines), newline : BOOLEAN]
  <2>1. f \in [lines : Seq(S), newline : BOOLEAN]
    BY <1>1, <1>2 DEF MasterFile
  <2> HIDE DEF f
  <2>2. QED
    BY <1>1, <2>1, EntryAddsOwnLines
<1> HIDE DEF f
<1>3. Line \cup OwnLines = Line
  BY DEF OwnLines, Line
<1>4. WithEntry(f) \in MasterFile
  <2>1. Line \in SUBSET Line /\ f.lines \in Seq(Line)
    BY <1>1 DEF MasterFile
  <2>2. QED
    BY <1>2, <1>3, <2>1 DEF MasterFile
<1>5. QED
  BY <1>1, <1>2, <1>4 DEF f

LEMMA ServicesOfOne ==
    ASSUME NEW f
    PROVE  Survivors({f}) = Range(f.lines) \cap (OtherServices \cup {"longer"})
<1>1. {Range(g.lines) : g \in {f}} = {Range(f.lines)}
  OBVIOUS
<1>2. QED
  BY <1>1 DEF Survivors

\* A file with no lines but those of another, the tool's own and zeros has no services of
\* others but those of the other.
LEMMA NoNewServices ==
    ASSUME NEW f \in MasterFile, NEW g, NEW S, f.lines \in Seq(S),
           S \subseteq Range(g.lines) \cup OwnLines \cup {"zeros"}
    PROVE  Survivors({f}) \subseteq Survivors({g})
<1>1. Range(f.lines) \subseteq S
  BY DEF Range
<1>2. (OwnLines \cup {"zeros"}) \cap (OtherServices \cup {"longer"}) = {}
  BY DEF OwnLines, OtherServices
<1>3. QED
  BY <1>1, <1>2, ServicesOfOne

LEMMA LinesInRange ==
    ASSUME NEW f \in MasterFile
    PROVE  f.lines \in Seq(Range(f.lines)) /\ Range(f.lines) \in SUBSET Line
BY DEF MasterFile, Range

LEMMA FirstLinesWritten ==
    ASSUME PostfixInvariant, NEW u \in Updater, NEW n, WriteFirst(u, n)
    PROVE  /\ master' \in MasterFile
           /\ Alone(u) => Survivors({master'}) \subseteq Survivors({master})
           /\ Alone(u) => Begun(update[u].file, master'.lines, n)
<1> DEFINE f    == update[u].file
           new  == WithEntry(f)
           kept == IF Len(new.lines) < Len(f.lines) THEN SetLen(master.lines, Len(new.lines))
                   ELSE master.lines
           some == SubSeq(new.lines, 1, n)
<1>1. /\ update[u].pc = "write" /\ n \in 0 .. Len(new.lines)
      /\ master' = [master EXCEPT !.lines = WriteOver(kept, 1, some)]
  BY DEF WriteFirst
<1>2. PostfixTypes /\ master \in MasterFile
  BY DEF PostfixInvariant, PostfixTypes
<1>3. new \in MasterFile /\ f \in MasterFile
  BY <1>1, <1>2, NewLines
<1>4. \A S \in SUBSET Line : f.lines \in Seq(S) => new.lines \in Seq(S \cup OwnLines)
  BY <1>1, <1>2, NewLines
<1> HIDE DEF f, new
<1>5. ASSUME NEW S \in SUBSET Line, new.lines \in Seq(S), master.lines \in Seq(S)
      PROVE  /\ WriteOver(kept, 1, some) \in Seq(S \cup {"zeros"})
             /\ Len(WriteOver(kept, 1, some)) = Max({Len(kept), n})
             /\ \A i \in 1 .. n : WriteOver(kept, 1, some)[i] = new.lines[i]
  <2>1. Len(new.lines) \in Nat /\ n \in Nat
    BY <1>1, <1>5
  <2> DEFINE T == S \cup {"zeros"}
  <2>2. "zeros" \in T /\ new.lines \in Seq(T) /\ master.lines \in Seq(T)
    BY <1>5, SeqMonotonic
  <2> HIDE DEF T
  <2>3. kept \in Seq(T)
    BY <2>1, <2>2, Shortened
  <2>4. some \in Seq(T) /\ Len(some) = n /\ \A i \in 1 .. n : some[i] = new.lines[i]
    BY <1>1, <2>2
  <2> HIDE DEF kept, some
  <2>5. Len(kept) \in Nat
    BY <2>3
  <2>6. Max({Len(kept), n}) \in Nat /\ Max({Len(kept), n}) >= n
    BY <2>1, <2>5, MaxOfTwo
  <2>7. /\ WriteOver(kept, 1, some) \in Seq(T)
        /\ Len(WriteOver(kept, 1, some)) = Max({Len(kept), Len(some)})
        /\ \A i \in 1 .. Max({Len(kept), Len(some)}) :
             WriteOver(kept, 1, some)[i] =
               IF i >= 1 /\ i <= Len(some) THEN some[i]
               ELSE IF i <= Len(kept) THEN kept[i] ELSE "zeros"
    <3>1. 1 \in Nat /\ 1 > 0
      OBVIOUS
    <3>2. QED
      BY <2>2, <2>3, <2>4, <3>1, WritingOver, Zenon
  <2>8. \A i \in 1 .. n : i \in 1 .. Max({Len(kept), n}) /\ i >= 1 /\ i =< n
    BY <2>1, <2>6
  <2>9. QED
    BY <2>4, <2>7, <2>8 DEF T
<1>6. WriteOver(kept, 1, some) \in Seq(Line)
  <2>1. Line \cup {"zeros"} = Line /\ Line \in SUBSET Line
    BY DEF Line
  <2>2. new.lines \in Seq(Line) /\ master.lines \in Seq(Line)
    BY <1>2, <1>3 DEF MasterFile
  <2> HIDE DEF kept, some
  <2>3. QED
    BY <1>5, <2>1, <2>2
<1>7. master' \in MasterFile /\ master'.lines = WriteOver(kept, 1, some)
  BY <1>1, <1>2, <1>6 DEF MasterFile
<1>8. ASSUME Alone(u)
      PROVE  /\ Survivors({master'}) \subseteq Survivors({master})
             /\ Begun(f, master'.lines, n)
  <2> DEFINE R == Range(master.lines)
             S == R \cup OwnLines
  <2>1. master = f
    BY <1>1, <1>8 DEF PostfixInvariant, CopyIsGood, f
  <2>2. master.lines \in Seq(R) /\ R \in SUBSET Line
    BY <1>2, LinesInRange
  <2>3. new.lines \in Seq(S)
    BY <1>4, <2>1, <2>2
  <2>4. S \in SUBSET Line
    BY <2>2 DEF OwnLines, Line
  <2>5. master.lines \in Seq(S)
    BY <2>2, SeqMonotonic
  <2> HIDE DEF R, S, kept, some
  <2>6. /\ master'.lines \in Seq(S \cup {"zeros"})
        /\ Len(master'.lines) = Max({Len(kept), n})
        /\ \A i \in 1 .. n : master'.lines[i] = new.lines[i]
    BY <1>5, <1>7, <2>3, <2>4, <2>5
  <2>7. Survivors({master'}) \subseteq Survivors({master})
    <3>1. S \cup {"zeros"} \subseteq Range(master.lines) \cup OwnLines \cup {"zeros"}
      BY DEF S, R
    <3>2. QED
      BY <1>7, <2>6, <3>1, NoNewServices
  <2>8. Len(kept) \in Nat /\ Len(kept) =< Len(new.lines) /\ n \in Nat /\ n =< Len(new.lines)
    <3>1. Len(new.lines) \in Nat /\ Len(f.lines) \in Nat
      BY <1>3 DEF MasterFile
    <3>2. Len(SetLen(master.lines, Len(new.lines))) = Len(new.lines)
      <4>1. "zeros" \in Line
        BY DEF Line
      <4>2. master.lines \in Seq(Line)
        BY <1>2 DEF MasterFile
      <4>3. QED
        BY <3>1, <4>1, <4>2, Shortened, Zenon
    <3>3. QED
      BY <1>1, <2>1, <3>1, <3>2 DEF kept
  <2>9. Max({Len(kept), n}) \in {Len(kept), n} /\ Max({Len(kept), n}) >= n
    BY <2>8, MaxOfTwo
  <2>10. Begun(f, master'.lines, n)
    <3>1. Len(master'.lines) \in Nat /\ n =< Len(master'.lines) /\ Len(master'.lines) =< Len(new.lines)
      BY <2>6, <2>8, <2>9
    <3>2. \A i \in 1 .. n : i =< Len(master'.lines)
      BY <2>8, <3>1
    <3>3. QED
      BY <2>6, <3>1, <3>2 DEF Begun, new
  <2>11. QED
    BY <2>7, <2>10
<1>9. QED
  BY <1>7, <1>8 DEF f

\* A run that nobody has overtaken leaves what it had in mind.
LEMMA LastLinesWritten ==
    ASSUME PostfixInvariant, NEW u \in Updater, WriteRest(u)
    PROVE  /\ master' \in MasterFile
           /\ Alone(u) => master' = WithEntry(update[u].file)
<1> DEFINE f    == update[u].file
           new  == WithEntry(f)
           from == update[u].from
           over == WriteOver(master.lines, from, new.lines)
<1>1. /\ update[u].pc = "rest"
      /\ master' = [lines |-> over, newline |-> new.newline]
  BY DEF WriteRest
<1>2. PostfixTypes /\ master \in MasterFile
  BY DEF PostfixInvariant, PostfixTypes
<1>3. new \in MasterFile
  BY <1>1, <1>2, NewLines
<1>4. from \in Nat \ {0}
  BY <1>1, <1>2 DEF PostfixTypes, RunState
<1> HIDE DEF f, new, from
<1>5. master.lines \in Seq(Line) /\ new.lines \in Seq(Line)
  BY <1>2, <1>3 DEF MasterFile
<1>6. /\ over \in Seq(Line)
      /\ Len(over) = Max({Len(master.lines), Len(new.lines)})
      /\ \A i \in 1 .. Max({Len(master.lines), Len(new.lines)}) :
           over[i] = IF i >= from /\ i <= Len(new.lines) THEN new.lines[i]
                     ELSE IF i <= Len(master.lines) THEN master.lines[i] ELSE "zeros"
  <2>1. "zeros" \in Line
    BY DEF Line
  <2>2. from \in Nat /\ from > 0
    BY <1>4
  <2>3. /\ over \in Seq(Line)
        /\ Len(over) = Max({Len(master.lines), Len(new.lines)})
        /\ \A i \in 1 .. Max({Len(master.lines), Len(new.lines)}) :
             over[i] = IF i >= from /\ i <= Len(new.lines) THEN new.lines[i]
                       ELSE IF i <= Len(master.lines) THEN master.lines[i] ELSE "zeros"
    BY <1>5, <2>1, <2>2, WritingOver, Zenon
  <2> HIDE DEF over
  <2>4. QED
    BY <2>3
<1>7. master' \in MasterFile
  BY <1>1, <1>3, <1>6 DEF MasterFile
<1> HIDE DEF over
<1>8. ASSUME Alone(u)
      PROVE  master' = new
  <2>1. Begun(f, master.lines, from - 1)
    BY <1>1, <1>8 DEF PostfixInvariant, CopyIsGood, f, from
  <2>2. Len(master.lines) =< Len(new.lines) /\ Len(master.lines) \in Nat /\ Len(new.lines) \in Nat
    BY <1>5, <2>1 DEF Begun, new
  <2>3. Max({Len(master.lines), Len(new.lines)}) = Len(new.lines)
    BY <2>2, MaxOfTwo
  <2>4. Len(over) = Len(new.lines)
    BY <1>6, <2>3
  <2>5. ASSUME NEW i \in 1 .. Len(new.lines)
        PROVE  over[i] = new.lines[i]
    <3> DEFINE longest == Max({Len(master.lines), Len(new.lines)})
    <3>1. over[i] = IF i >= from /\ i <= Len(new.lines) THEN new.lines[i]
                    ELSE IF i <= Len(master.lines) THEN master.lines[i] ELSE "zeros"
      <4>1. i \in 1 .. longest
        BY <2>3
      <4> HIDE DEF longest
      <4>2. QED
        BY <1>6, <4>1 DEF longest
    <3>2. CASE i >= from
      BY <2>2, <3>1, <3>2
    <3>3. CASE ~(i >= from)
      <4>1. i \in 1 .. from - 1
        BY <1>4, <3>3
      <4>2. i =< Len(master.lines) /\ master.lines[i] = new.lines[i]
        BY <2>1, <4>1 DEF Begun, new
      <4>3. QED
        BY <3>1, <3>3, <4>2
    <3>4. QED
      BY <3>2, <3>3
  <2>6. over = new.lines
    BY <1>5, <1>6, <2>4, <2>5, SeqEqual
  <2>7. QED
    BY <1>1, <1>3, <2>6 DEF MasterFile
<1>9. QED
  BY <1>7, <1>8 DEF f, new

LEMMA EditedFile ==
    ASSUME PostfixTypes, NEW service \in OtherServices, EditMaster(service)
    PROVE  master' \in MasterFile /\ Survivors({master}) \subseteq Survivors({master'})
<1>1. service \in Line /\ master \in MasterFile /\ master' = [lines |-> Append(master.lines, service), newline |-> TRUE]
  BY DEF Line, PostfixTypes, EditMaster
<1>2. master' \in MasterFile
  BY <1>1 DEF MasterFile
<1>3. Range(master.lines) \subseteq Range(master'.lines)
  BY <1>1 DEF MasterFile, Range
<1>4. QED
  BY <1>2, <1>3, ServicesOfOne

LEMMA PostfixInductive == PostfixSpec => []PostfixInvariant
<1>1. PostfixInit => PostfixInvariant
  BY OriginalsAssumption
     DEF PostfixInit, PostfixInvariant, PostfixTypes, CopyIsGood, Alone, NoRun, RunState, MasterFile
<1>2. PostfixInvariant /\ [PostfixNext]_postfixVars => PostfixInvariant'
  <2> SUFFICES ASSUME PostfixInvariant, [PostfixNext]_postfixVars PROVE PostfixInvariant'
    OBVIOUS
  <2>1. PostfixTypes
    BY DEF PostfixInvariant
  <2>2. ASSUME NEW u \in Updater, SaveMaps(u) PROVE PostfixInvariant'
    <3>1. PostfixTypes'
      BY <2>1, <2>2 DEF PostfixTypes, SaveMaps, RunState
    <3>2. ASSUME NEW v \in Updater PROVE CopyIsGood(v)'
      BY <2>1, <2>2 DEF PostfixInvariant, PostfixTypes, CopyIsGood, Alone, SaveMaps
    <3>3. QED
      BY <3>1, <3>2 DEF PostfixInvariant
  <2>3. ASSUME NEW u \in Updater, CopyMaster(u) PROVE PostfixInvariant'
    <3>1. PostfixTypes'
      BY <2>1, <2>3 DEF PostfixTypes, CopyMaster, RunState
    <3>2. ASSUME NEW v \in Updater PROVE CopyIsGood(v)'
      BY <2>1, <2>3 DEF PostfixInvariant, PostfixTypes, CopyIsGood, Alone, CopyMaster
    <3>3. QED
      BY <3>1, <3>2 DEF PostfixInvariant
  <2>4. ASSUME NEW u \in Updater, ReadMaster(u) PROVE PostfixInvariant'
    <3>1. PostfixTypes'
      BY <2>1, <2>4 DEF PostfixTypes, ReadMaster, RunState, Ended
    <3>2. ASSUME NEW v \in Updater PROVE CopyIsGood(v)'
      BY <2>1, <2>4 DEF PostfixInvariant, PostfixTypes, CopyIsGood, Alone, ReadMaster, Ended
    <3>3. QED
      BY <3>1, <3>2 DEF PostfixInvariant
  <2>5. ASSUME NEW u \in Updater, NEW n, WriteFirst(u, n) PROVE PostfixInvariant'
    <3>1. /\ update' = [Overtaken EXCEPT ![u] = [pc |-> "rest", overtaken |-> update[u].overtaken,
                                                file |-> update[u].file, from |-> n + 1]]
          /\ backup' = backup /\ update[u].pc = "write" /\ n \in Nat
      BY <2>5 DEF WriteFirst
    <3>2. /\ update'[u] = [pc |-> "rest", overtaken |-> update[u].overtaken,
                           file |-> update[u].file, from |-> n + 1]
          /\ \A v \in Updater \ {u} : update'[v] = Overtaken[v]
      BY <2>1, <3>1, OvertakenRuns
    <3>3. update'[u] \in RunState /\ ~NoEnd(update'[u].file)
      BY <2>1, <3>1, <3>2, NewLines DEF RunState, PostfixTypes
    <3>4. PostfixTypes'
      <4>1. update' \in [Updater -> RunState]
        BY <2>1, <3>1, <3>2, <3>3, OvertakenRuns
      <4>2. \A v \in Updater : update'[v].pc \in {"write", "rest"} => ~NoEnd(update'[v].file)
        BY <2>1, <3>2, <3>3, ChangeOvertakes
      <4>3. master' \in MasterFile /\ backup' \subseteq MasterFile
        BY <2>1, <2>5, <3>1, FirstLinesWritten DEF PostfixTypes
      <4>4. QED
        BY <4>1, <4>2, <4>3 DEF PostfixTypes
    <3>5. CopyIsGood(u)'
      <4>1. Alone(u)' => Alone(u)
        BY <3>1, <3>2 DEF Alone
      <4>2. Alone(u) => Survivors({master}) \subseteq Survivors(backup)
        BY DEF PostfixInvariant, CopyIsGood
      <4>3. Alone(u) => Survivors({master'}) \subseteq Survivors(backup')
        BY <2>5, <3>1, <4>2, FirstLinesWritten
      <4>4. Alone(u) => Begun(update[u].file, master'.lines, n)
        BY <2>5, FirstLinesWritten
      <4>5. update'[u].pc = "rest" /\ update'[u].file = update[u].file /\ update'[u].from = n + 1
        BY <3>2
      <4>6. update'[u].from - 1 = n
        BY <3>1, <4>5
      <4>7. QED
        BY <4>1, <4>3, <4>4, <4>5, <4>6 DEF CopyIsGood
    <3>6. \A v \in Updater \ {u} : CopyIsGood(v)'
      BY <2>1, <3>2, ChangeOvertakes DEF CopyIsGood
    <3>7. QED
      BY <3>4, <3>5, <3>6 DEF PostfixInvariant
  <2>6. ASSUME NEW u \in Updater, WriteRest(u) PROVE PostfixInvariant'
    <3>1. update' = [Overtaken EXCEPT ![u] = [pc |-> "done"]] /\ backup' = backup
      BY <2>6 DEF WriteRest
    <3>2. update'[u] = [pc |-> "done"] /\ \A v \in Updater \ {u} : update'[v] = Overtaken[v]
      BY <2>1, <3>1, OvertakenRuns
    <3>3. PostfixTypes'
      <4>1. update' \in [Updater -> RunState]
        BY <2>1, <3>1, <3>2, OvertakenRuns DEF RunState
      <4>2. \A v \in Updater : update'[v].pc \in {"write", "rest"} => ~NoEnd(update'[v].file)
        BY <2>1, <3>2, ChangeOvertakes
      <4>3. master' \in MasterFile /\ backup' \subseteq MasterFile
        BY <2>1, <2>6, <3>1, LastLinesWritten DEF PostfixTypes
      <4>4. QED
        BY <4>1, <4>2, <4>3 DEF PostfixTypes
    <3>4. \A v \in Updater : CopyIsGood(v)'
      BY <2>1, <3>2, ChangeOvertakes DEF CopyIsGood, Alone
    <3>5. QED
      BY <3>3, <3>4 DEF PostfixInvariant
  <2>7. ASSUME NEW u \in Updater, AbortUpdate(u) PROVE PostfixInvariant'
    <3>1. PostfixTypes'
      BY <2>1, <2>7 DEF PostfixTypes, AbortUpdate, RunState, Ended
    <3>2. ASSUME NEW v \in Updater PROVE CopyIsGood(v)'
      BY <2>1, <2>7 DEF PostfixInvariant, PostfixTypes, CopyIsGood, Alone, AbortUpdate, Ended
    <3>3. QED
      BY <3>1, <3>2 DEF PostfixInvariant
  <2>8. ASSUME NEW service \in OtherServices, EditMaster(service) PROVE PostfixInvariant'
    <3>1. update' = Overtaken /\ backup' = backup
      BY <2>8 DEF EditMaster
    <3>2. PostfixTypes'
      <4>1. \A v \in Updater : update'[v].pc \in {"write", "rest"} => ~NoEnd(update'[v].file)
        BY <2>1, <3>1, ChangeOvertakes
      <4>2. QED
        BY <2>1, <2>8, <3>1, <4>1, OvertakenRuns, EditedFile DEF PostfixTypes
    <3>3. \A v \in Updater : CopyIsGood(v)'
      BY <2>1, <3>1, ChangeOvertakes DEF CopyIsGood
    <3>4. QED
      BY <3>2, <3>3 DEF PostfixInvariant
  <2>9. CASE UNCHANGED postfixVars
    BY <2>9 DEF postfixVars, PostfixInvariant, PostfixTypes, CopyIsGood, Alone
  <2>10. QED
    BY <2>2, <2>3, <2>4, <2>5, <2>6, <2>7, <2>8, <2>9 DEF PostfixNext
<1>3. QED
  BY <1>1, <1>2, PTL DEF PostfixSpec

\* No run of the command, and no edit, loses the last copy of a service of others, but for
\* a run that copies a file that has lost it, or was overtaken after its copy
\* (update_postfix_config, save_master_cf_entry).
THEOREM LastCopiesAreKept == PostfixSpec => LastCopyLostOnlyByLaterRun
<1> DEFINE Kept  == Survivors({master} \cup backup) \subseteq Survivors({master'} \cup backup')
           Loses == \E u \in Updater :
                      \/ update[u].pc = "postmap" /\ update'[u].pc = "open"
                      \/ update[u].pc \in {"write", "rest"} /\ update[u].overtaken
                           /\ update'[u] # update[u]
<1>1. ASSUME PostfixInvariant, [PostfixNext]_postfixVars
      PROVE  [Kept \/ Loses]_postfixVars
  <2>1. PostfixTypes
    BY <1>1 DEF PostfixInvariant
  <2>2. ASSUME Survivors({master}) \subseteq Survivors({master'}) \cup Survivors(backup'),
               backup' = backup
        PROVE  Kept
    <3>1. Survivors({master} \cup backup) = Survivors({master}) \cup Survivors(backup)
      BY SurvivorsSplit
    <3>2. Survivors({master'} \cup backup') = Survivors({master'}) \cup Survivors(backup')
      BY SurvivorsSplit
    <3>3. Survivors(backup') = Survivors(backup)
      BY <2>2
    <3>4. QED
      BY <2>2, <3>1, <3>2, <3>3
  <2>3. ASSUME NEW u \in Updater, CopyMaster(u) PROVE Loses
    BY <2>1, <2>3 DEF CopyMaster, PostfixTypes
  <2>4. ASSUME NEW u \in Updater, NEW n, WriteFirst(u, n) PROVE Kept \/ Loses
    <3>1. update[u].pc = "write" /\ backup' = backup /\ update'[u].pc = "rest"
      BY <2>1, <2>4, OvertakenRuns DEF WriteFirst
    <3>2. CASE update[u].overtaken
      BY <3>1, <3>2
    <3>3. CASE ~update[u].overtaken
      <4>1. Alone(u)
        BY <3>1, <3>3 DEF Alone
      <4>2. Survivors({master}) \subseteq Survivors(backup)
        BY <1>1, <4>1 DEF PostfixInvariant, CopyIsGood
      <4>3. QED
        BY <2>2, <3>1, <4>2
    <3>4. QED
      BY <3>2, <3>3
  <2>5. ASSUME NEW u \in Updater, WriteRest(u) PROVE Kept \/ Loses
    <3>1. update[u].pc = "rest" /\ backup' = backup /\ update'[u].pc = "done"
      BY <2>1, <2>5, OvertakenRuns DEF WriteRest
    <3>2. CASE update[u].overtaken
      BY <3>1, <3>2
    <3>3. CASE ~update[u].overtaken
      <4>1. Alone(u)
        BY <3>1, <3>3 DEF Alone
      <4>2. Survivors({master}) \subseteq Survivors(backup)
        BY <1>1, <4>1 DEF PostfixInvariant, CopyIsGood
      <4>3. QED
        BY <2>2, <3>1, <4>2
    <3>4. QED
      BY <3>2, <3>3
  <2>6. ASSUME NEW service \in OtherServices, EditMaster(service) PROVE Kept
    <3>1. backup' = backup
      BY <2>6 DEF EditMaster
    <3>2. Survivors({master}) \subseteq Survivors({master'})
      BY <2>1, <2>6, EditedFile
    <3>3. QED
      BY <2>2, <3>1, <3>2
  <2>7. ASSUME NEW u \in Updater, SaveMaps(u) \/ ReadMaster(u) \/ AbortUpdate(u) PROVE Kept
    BY <2>2, <2>7 DEF SaveMaps, ReadMaster, AbortUpdate
  <2> HIDE DEF Kept, Loses
  <2>8. QED
    BY <1>1, <2>3, <2>4, <2>5, <2>6, <2>7 DEF PostfixNext
<1>2. QED
  BY <1>1, PostfixInductive, PTL DEF PostfixSpec, LastCopyLostOnlyByLaterRun

-------------------------------------------------------------------------------
\* An entry that is there is replaced by one that looks the same.
LEMMA PlainReplaced ==
    ASSUME NEW conf \in MasterFile, Plain(conf), Starting(conf) # {}
    PROVE  WithEntry(conf) = conf
<1> DEFINE lines == conf.lines
           p == Min(Starting(conf))
<1>1. lines \in Seq(Line) /\ DOMAIN lines = 1 .. Len(lines) /\ Len(lines) \in Nat
  BY DEF MasterFile
<1>2. \A i \in 1 .. Len(lines) : lines[i] \in {"own", "argv"} \cup OtherServices
  BY <1>1 DEF Plain
<1>3. Starting(conf) \subseteq Nat /\ Starting(conf) \subseteq 1 .. Len(lines)
  BY <1>1 DEF Starting
<1>4. p \in Starting(conf) /\ \A i \in Starting(conf) : p =< i
  BY <1>3, LeastOfLines
<1> HIDE DEF p
<1>5. lines[p] = "own" /\ p \in 1 .. Len(lines)
  BY <1>1, <1>2, <1>3, <1>4 DEF Starting, OtherServices
<1>6. Holding(conf, "own") = Starting(conf)
  BY <1>1, <1>2 DEF Holding, Starting, OtherServices
<1>7. Position(conf) = p
  BY <1>5, <1>6 DEF Position, p
<1>8. p < Len(lines) /\ lines[p + 1] = "argv"
  BY <1>1, <1>5 DEF Plain
<1>9. Min(Ends(conf)) = p + 1
  <2>1. p + 1 \in Ends(conf)
    BY <1>1, <1>5, <1>7, <1>8 DEF Ends
  <2>2. Ends(conf) \subseteq Nat /\ Ends(conf) # {}
    BY <1>1, <2>1 DEF Ends
  <2>3. Min(Ends(conf)) \in Ends(conf) /\ Min(Ends(conf)) =< p + 1
    BY <2>1, <2>2, LeastOfLines
  <2> DEFINE m == Min(Ends(conf))
  <2> HIDE DEF m
  <2>4. m \in 1 .. Len(lines) /\ m >= p /\ lines[m] = "argv" /\ m =< p + 1
    BY <1>1, <1>7, <2>3 DEF Ends, m
  <2>5. m # p
    BY <1>5, <2>4
  <2>6. m = p + 1
    BY <1>5, <2>4, <2>5
  <2>7. QED
    BY <2>6 DEF m
<1>10. WithEntry(conf) = [conf EXCEPT !.lines = SubSeq(lines, 1, p - 1) \o <<"own", "argv">>
                                                  \o SubSeq(lines, p + 1 + 1, Len(lines))]
  BY <1>5, <1>7, <1>9 DEF WithEntry, Replaced
<1> HIDE DEF lines
<1>11. SubSeq(lines, 1, p - 1) \o <<"own", "argv">> \o SubSeq(lines, p + 1 + 1, Len(lines)) = lines
  <2> DEFINE before == SubSeq(lines, 1, p - 1)
             after  == SubSeq(lines, p + 1 + 1, Len(lines))
             entry  == <<"own", "argv">>
  <2>1. before \in Seq(Line) /\ Len(before) = p - 1 /\ \A i \in 1 .. p - 1 : before[i] = lines[i]
    BY <1>1, <1>5
  <2>2. /\ after \in Seq(Line) /\ Len(after) = Len(lines) - (p + 1)
        /\ \A i \in 1 .. Len(lines) - (p + 1) : after[i] = lines[i + p + 1]
    <3>1. \A i \in p + 1 + 1 .. Len(lines) : lines[i] \in Line
      BY <1>1, <1>5
    <3>2. p \in Int /\ p + 1 + 1 \in Int /\ Len(lines) \in Int
      BY <1>1, <1>5
    <3>3. /\ after \in Seq(Line)
          /\ Len(after) = IF p + 1 + 1 <= Len(lines) THEN Len(lines) - (p + 1 + 1) + 1 ELSE 0
          /\ \A i \in 1 .. Len(lines) - (p + 1 + 1) + 1 : after[i] = lines[p + 1 + 1 + i - 1]
      BY <3>1, <3>2, SubSeqProperties
    <3> HIDE DEF after
    <3>4. Len(after) = Len(lines) - (p + 1)
      <4>1. CASE p + 1 + 1 <= Len(lines)
        BY <3>2, <3>3, <4>1
      <4>2. CASE ~(p + 1 + 1 <= Len(lines))
        <5>1. Len(lines) = p + 1
          BY <1>8, <3>2, <4>2
        <5>2. QED
          BY <3>2, <3>3, <4>2, <5>1
      <4>3. QED
        BY <4>1, <4>2
    <3>5. Len(lines) - (p + 1 + 1) + 1 = Len(lines) - (p + 1)
      BY <3>2
    <3>6. \A i \in 1 .. Len(lines) - (p + 1) : p + 1 + 1 + i - 1 = i + p + 1
      BY <3>2
    <3>7. QED
      BY <3>3, <3>4, <3>5, <3>6
  <2>3. entry \in Seq(Line) /\ Len(entry) = 2 /\ entry[1] = "own" /\ entry[2] = "argv"
    BY DEF Line
  <2> HIDE DEF before, after, entry
  <2>4. /\ before \o entry \in Seq(Line) /\ Len(before \o entry) = p + 1
        /\ \A i \in 1 .. p + 1 : (before \o entry)[i] = lines[i]
    <3>1. before \o entry \in Seq(Line) /\ Len(before \o entry) = Len(before) + Len(entry)
          /\ \A i \in 1 .. Len(before) + Len(entry) :
               (before \o entry)[i] = IF i <= Len(before) THEN before[i] ELSE entry[i - Len(before)]
      BY <2>1, <2>3, ConcatProperties
    <3>2. ASSUME NEW i \in 1 .. p + 1 PROVE (before \o entry)[i] = lines[i]
      <4>1. (before \o entry)[i] = IF i <= p - 1 THEN before[i] ELSE entry[i - (p - 1)]
        BY <1>1, <1>5, <2>1, <2>3, <3>1
      <4>2. i \in 1 .. p - 1 \/ i = p \/ i = p + 1
        BY <1>1, <1>5
      <4>3. p - (p - 1) = 1 /\ p + 1 - (p - 1) = 2
        BY <1>1, <1>5
      <4>4. QED
        BY <1>1, <1>5, <1>8, <2>1, <2>3, <4>1, <4>2, <4>3
    <3>3. QED
      BY <1>1, <1>5, <2>1, <2>3, <3>1, <3>2
  <2> DEFINE start == before \o entry
  <2> HIDE DEF start
  <2>5. /\ start \in Seq(Line) /\ Len(start) = p + 1 /\ \A i \in 1 .. p + 1 : start[i] = lines[i]
    BY <2>4 DEF start
  <2>6. start \o after \in Seq(Line) /\ Len(start \o after) = Len(start) + Len(after)
        /\ \A i \in 1 .. Len(start) + Len(after) :
             (start \o after)[i] = IF i <= Len(start) THEN start[i] ELSE after[i - Len(start)]
    BY <2>2, <2>5, ConcatProperties
  <2>7. ASSUME NEW i \in 1 .. Len(lines) PROVE (start \o after)[i] = lines[i]
    <3>1. (start \o after)[i] = IF i <= p + 1 THEN start[i] ELSE after[i - (p + 1)]
      BY <1>1, <1>5, <1>8, <2>2, <2>5, <2>6
    <3>2. CASE i <= p + 1
      BY <1>1, <1>5, <2>5, <3>1, <3>2
    <3>3. CASE ~(i <= p + 1)
      <4>1. i - (p + 1) \in 1 .. Len(lines) - (p + 1) /\ i - (p + 1) + p + 1 = i
        BY <1>1, <1>5, <3>3
      <4>2. QED
        BY <2>2, <3>1, <3>3, <4>1
    <3>4. QED
      BY <3>2, <3>3
  <2>8. start \o after = lines
    <3>1. Len(start \o after) = Len(lines)
      BY <1>1, <1>5, <2>2, <2>5, <2>6
    <3>2. QED
      BY <1>1, <2>6, <2>7, <3>1, SeqEqual
  <2>9. QED
    BY <2>8 DEF start, before, after, entry
<1>12. WithEntry(conf) = [conf EXCEPT !.lines = lines]
  BY <1>10, <1>11
<1>13. QED
  BY <1>12 DEF lines, MasterFile

\* The k-th of a set of numbers, as OthersOf counts them
Nth(D, k) == CHOOSE i \in D : Cardinality({j \in D : j <= i}) = k

LEMMA NthOfFirst ==
    ASSUME NEW n \in Nat, NEW k \in 1 .. n
    PROVE  Nth(1 .. n, k) = k
<1>1. ASSUME NEW i \in 1 .. n
      PROVE  Cardinality({j \in 1 .. n : j <= i}) = i
  <2>1. {j \in 1 .. n : j <= i} = 1 .. i
    OBVIOUS
  <2>2. Cardinality(1 .. i) = i
    BY FS_Interval
  <2>3. QED
    BY <2>1, <2>2
<1>2. \A i \in 1 .. n : Cardinality({j \in 1 .. n : j <= i}) = k => i = k
  BY <1>1
<1>3. QED
  BY <1>1, <1>2 DEF Nth

\* Where an entry is appended to lines without one, the others are the old lines.
LEMMA OthersAreOld ==
    ASSUME NEW lines \in Seq(Line), NEW n \in Nat, n =< Len(lines),
           \A i \in 1 .. n : lines[i] # "own",
           \/ n = Len(lines)
           \/ n + 2 = Len(lines) /\ lines[n + 1] = "own" /\ lines[n + 2] = "argv"
    PROVE  OthersOf(lines) = [k \in 1 .. n |-> lines[k]]
<1> DEFINE Mine(i) == lines[i] = "own" \/ (i > 1 /\ lines[i] = "argv" /\ lines[i - 1] = "own")
           mine == {i \in DOMAIN lines : Mine(i)}
           D == DOMAIN lines \ mine
<1>1. DOMAIN lines = 1 .. Len(lines) /\ Len(lines) \in Nat
  OBVIOUS
<1>2. D = 1 .. n
  <2>1. ASSUME NEW i \in 1 .. n PROVE ~Mine(i)
    <3>1. CASE i > 1
      <4>1. i - 1 \in 1 .. n
        BY <3>1
      <4>2. QED
        BY <4>1
    <3>2. QED
      BY <3>1
  <2>2. ASSUME NEW i \in n + 1 .. Len(lines) PROVE Mine(i)
    <3>1. n + 2 = Len(lines) /\ lines[n + 1] = "own" /\ lines[n + 2] = "argv"
      <4>1. n # Len(lines)
        OBVIOUS
      <4>2. QED
        BY <4>1
    <3>2. CASE i = n + 1
      BY <3>1, <3>2
    <3>3. CASE i = n + 2
      <4>1. i - 1 = n + 1 /\ i > 1
        BY <3>3
      <4>2. QED
        BY <3>1, <3>3, <4>1
    <3>4. QED
      BY <3>1, <3>2, <3>3
  <2> HIDE DEF Mine
  <2>3. ASSUME NEW i PROVE i \in D <=> i \in 1 .. n
    <3>1. i \in D <=> i \in 1 .. Len(lines) /\ ~Mine(i)
      BY <1>1
    <3>2. i \in 1 .. Len(lines) <=> i \in 1 .. n \/ i \in n + 1 .. Len(lines)
      OBVIOUS
    <3>3. i \in 1 .. n => i \notin n + 1 .. Len(lines)
      OBVIOUS
    <3>4. QED
      BY <2>1, <2>2, <3>1, <3>2, <3>3
  <2> HIDE DEF D
  <2>4. QED
    BY <2>3
<1>3. OthersOf(lines) = [k \in 1 .. Cardinality(D) |-> lines[Nth(D, k)]]
  BY DEF OthersOf, Nth
<1> HIDE DEF D
<1>4. Cardinality(1 .. n) = n
  BY FS_Interval
<1>5. OthersOf(lines) = [k \in 1 .. n |-> lines[Nth(1 .. n, k)]]
  BY <1>2, <1>3, <1>4
<1>6. QED
  BY <1>5, NthOfFirst

\* The entry leaves a plain file plain, with the services it had.
LEMMA PlainEntry ==
    ASSUME NEW conf \in MasterFile, Plain(conf)
    PROVE  /\ OthersOf(WithEntry(conf).lines) = OthersOf(conf.lines)
           /\ Plain(WithEntry(conf))
           /\ \E i \in DOMAIN WithEntry(conf).lines : WithEntry(conf).lines[i] = "own"
<1>1. CASE Starting(conf) # {}
  <2>1. WithEntry(conf) = conf
    BY <1>1, PlainReplaced
  <2>2. PICK i \in DOMAIN conf.lines : conf.lines[i] \in {"own", "longer"}
    BY <1>1 DEF Starting
  <2>3. conf.lines[i] = "own"
    BY <2>2 DEF Plain, OtherServices
  <2>4. QED
    BY <2>1, <2>3
<1>2. CASE Starting(conf) = {}
  <2> DEFINE lines == conf.lines
             new   == lines \o Entry
             n     == Len(lines)
  <2>1. lines \in Seq(Line) /\ n \in Nat /\ DOMAIN lines = 1 .. n
    BY DEF MasterFile
  <2>2. WithEntry(conf) = [lines |-> new, newline |-> TRUE]
    BY <1>2 DEF WithEntry, Appended, Plain
  <2>3. Entry \in Seq(Line) /\ Len(Entry) = 2 /\ Entry[1] = "own" /\ Entry[2] = "argv"
    BY DEF Entry, Line
  <2>4. \A i \in 1 .. n : lines[i] # "own" /\ lines[i] \in {"argv"} \cup OtherServices
    BY <1>2, <2>1 DEF Starting, Plain
  <2> HIDE DEF lines
  <2>5. /\ new \in Seq(Line) /\ Len(new) = n + 2
        /\ \A i \in 1 .. n + 2 : new[i] = IF i <= n THEN lines[i] ELSE Entry[i - n]
    <3>1. /\ new \in Seq(Line) /\ Len(new) = Len(lines) + Len(Entry)
          /\ \A i \in 1 .. Len(lines) + Len(Entry) :
               new[i] = IF i <= Len(lines) THEN lines[i] ELSE Entry[i - Len(lines)]
      BY <2>1, <2>3, ConcatProperties
    <3> HIDE DEF new
    <3>2. QED
      BY <2>3, <3>1
  <2> HIDE DEF new, n
  <2>6. new[n + 1] = "own" /\ new[n + 2] = "argv" /\ \A i \in 1 .. n : new[i] = lines[i]
    <3>1. n + 1 - n = 1 /\ n + 2 - n = 2
      BY <2>1
    <3>2. new[n + 1] = Entry[n + 1 - n] /\ new[n + 2] = Entry[n + 2 - n]
      BY <2>1, <2>5
    <3>3. QED
      BY <2>1, <2>3, <2>5, <3>1, <3>2
  <2>7. OthersOf(new) = [k \in 1 .. n |-> new[k]]
    BY <2>1, <2>4, <2>5, <2>6, OthersAreOld
  <2>8. OthersOf(lines) = [k \in 1 .. n |-> lines[k]]
    BY <2>1, <2>4, OthersAreOld DEF n
  <2>9. OthersOf(new) = OthersOf(lines)
    BY <2>6, <2>7, <2>8
  <2>10. DOMAIN new = 1 .. n + 2
    BY <2>1, <2>5
  <2>11. Plain([lines |-> new, newline |-> TRUE])
    <3>1. ASSUME NEW i \in 1 .. n + 2
          PROVE  /\ new[i] \in {"own", "argv"} \cup OtherServices
                 /\ new[i] = "own" => i < n + 2 /\ new[i + 1] = "argv"
      <4>1. CASE i \in 1 .. n
        BY <2>4, <2>6, <4>1
      <4>2. CASE i = n + 1
        BY <2>1, <2>6, <4>2
      <4>3. CASE i = n + 2
        BY <2>6, <4>3
      <4>4. QED
        BY <2>1, <4>1, <4>2, <4>3
    <3>2. QED
      BY <2>5, <2>10, <3>1 DEF Plain
  <2>12. n + 1 \in DOMAIN new
    BY <2>1, <2>10
  <2>13. QED
    BY <2>2, <2>6, <2>9, <2>11, <2>12 DEF lines
<1>3. QED
  BY <1>1, <1>2

\* A run of save_master_cf_entry (postfix.rs) that nobody overtakes leaves in a plain
\* master.cf every line of the other services, in order, and an entry.
THEOREM ServicesAreKept == PostfixSpec => OtherServicesAreKept
<1> DEFINE Completes(u) == update'[u].pc = "done" /\ update[u].pc = "rest" /\ ~update[u].overtaken
                        /\ Plain(update[u].file)
           Kept(u) == /\ OthersOf(master'.lines) = OthersOf(update[u].file.lines)
                      /\ Plain(master')
                      /\ \E i \in DOMAIN master'.lines : master'.lines[i] = "own"
<1>1. ASSUME PostfixInvariant, [PostfixNext]_postfixVars
      PROVE  [\A u \in Updater : Completes(u) => Kept(u)]_postfixVars
  <2> SUFFICES ASSUME NEW u \in Updater, Completes(u), PostfixNext
               PROVE  Kept(u)
    BY <1>1
  <2>1. PostfixTypes
    BY <1>1 DEF PostfixInvariant
  <2>2. WriteRest(u)
    <3>1. ASSUME NEW v \in Updater, NEW n, WriteFirst(v, n) PROVE FALSE
      BY <2>1, <3>1, OvertakenRuns DEF WriteFirst
    <3>2. ASSUME NEW v \in Updater, v # u, WriteRest(v) PROVE FALSE
      BY <2>1, <3>2, OvertakenRuns DEF WriteRest
    <3>3. ASSUME NEW service, EditMaster(service) PROVE FALSE
      BY <2>1, <3>3, OvertakenRuns DEF EditMaster
    <3>4. ASSUME NEW v \in Updater, SaveMaps(v) \/ CopyMaster(v) \/ ReadMaster(v) \/ AbortUpdate(v)
          PROVE  FALSE
      BY <2>1, <3>4 DEF SaveMaps, CopyMaster, ReadMaster, AbortUpdate, Ended, PostfixTypes
    <3> HIDE DEF Kept
    <3>5. QED
      BY <3>1, <3>2, <3>3, <3>4 DEF PostfixNext
  <2>3. master' = WithEntry(update[u].file)
    BY <1>1, <2>2, LastLinesWritten DEF Alone
  <2>4. update[u].file \in MasterFile
    BY <2>1, NewLines
  <2>5. QED
    BY <2>3, <2>4, PlainEntry
<1>2. QED
  BY <1>1, PostfixInductive, PTL DEF PostfixSpec, OtherServicesAreKept

-------------------------------------------------------------------------------
(***************************************************************************)
(* All the parts                                                           *)
(***************************************************************************)

\* In a behaviour of all the machines, each takes its own steps or none.
LEMMA PartsRunAlone ==
    Spec => /\ OpeningSpec /\ ListSpec /\ PostingSpec /\ SessionSpec
            /\ RepairSpec /\ QueueSpec /\ PostfixSpec /\ ArchiveSpec
<1>1. Init => /\ OpeningInit /\ ListInit /\ PostingInit /\ SessionInit
              /\ RepairInit /\ QueueInit /\ PostfixInit /\ ArchiveInit
  BY DEF Init
<1>2. [Next]_vars => /\ [OpeningNext]_openingVars /\ [ListNext]_listVars
                     /\ [PostingNext]_postingVars /\ [SessionNext]_sessionVars
                     /\ [RepairNext]_repairVars /\ [QueueNext]_queueVars
                     /\ [PostfixNext]_postfixVars /\ [ArchiveNext]_archiveVars
  BY DEF Next, vars
<1>3. QED
  BY <1>1, <1>2, PTL
     DEF Spec, OpeningSpec, ListSpec, PostingSpec, SessionSpec, RepairSpec, QueueSpec,
         PostfixSpec, ArchiveSpec

\* Whatever the numbers of lists, accounts, rows, processes and browsers: the tables keep
\* the types of their columns, their UNIQUE columns and their foreign keys, and what is
\* in progress is about keys that rows can have.
THEOREM TypesHold == Spec => []TypesOK
<1>1. /\ OpeningTypeOK /\ ListTypeOK /\ PostingTypeOK
      /\ SessionTypeOK /\ RepairTypeOK /\ QueueTypeOK
      => TypesOK
  BY DEF TypesOK
<1>2. QED
  BY <1>1, PartsRunAlone, OpeningTypes, ListTypes, PostingTypes, SessionTypes, RepairTypes,
     QueueTypes, PTL

\* The specification of all the machines, which the run `administration` checks, has every
\* property that one of them has: what moves beside a machine are never its own variables.
THEOREM PartsKeepTheirPromises ==
    Spec => /\ OnlyCreationSpoilsDatabases /\ SettingsSurviveUpgrades
            /\ []NamesFindTheirList /\ OnlyRemovalLeavesStrangersWriting
            /\ DescriptionLostOnlyOnRequest
            /\ ArchivedByRight /\ OnlyLeavingMisdirectsUpdate
            /\ TokenOutlivesVisits /\ UserLostOnlyToAnotherLogin /\ MemoryFalseOnlyWhenOvertaken
            /\ OnlyLateRowsAreLost /\ UnseenDeletedOnlyIfLate
            /\ LastCopyLostOnlyByLaterRun /\ OtherServicesAreKept
            /\ []CompletedSiteIsSound
BY PartsRunAlone, MigrationsSpoilNothing, UpgradesKeepSettings, NamesAreFound,
   StrangersWriteOnlyAfterRemoval, DescriptionsAreKept, PostsAreByRight, UpdatesKeepTheirRow,
   TokensOutliveVisits, UsersAreLostToLogins, MemoryStaysTrue, RepairsAreHarmless,
   DeletionsAreOfListed, LastCopiesAreKept, ServicesAreKept, CompletedSites, PTL
=============================================================================
