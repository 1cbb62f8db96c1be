-------------------------- MODULE ListAdministration --------------------------
(***************************************************************************)
(* The mailing lists themselves: their names, addresses and descriptions,  *)
(* their owners, and who may change them.                                  *)
(*                                                                         *)
(* An owner edits a list in the web interface: list_edit_POST finds the    *)
(* list by the path of the page, reads its owners, and then writes, each   *)
(* in a transaction of its own.  An administrator uses `mpot list`, which  *)
(* asks nobody.                                                            *)
(***************************************************************************)
EXTENDS Tables

CONSTANTS
    MaxLists,       \* bound on the lists created
    ListId,         \* what a list may be called
    KeySpelledBy,   \* the ids that are numerals: the key they spell
    ListAddress,    \* the addresses lists may have
    Policies,       \* what a policy may say, of posts or of subscriptions
    Person,         \* addresses of owners, all with an account
    MaxOwners       \* bound on the keys of owner rows

ASSUME ListBounds == MaxLists \in Nat /\ MaxOwners \in Nat
ASSUME NumeralAssumption == DOMAIN KeySpelledBy \subseteq ListId

ListKey  == 1 .. MaxLists
OwnerKey == 1 .. MaxOwners

VARIABLES
    lists,      \* table `list`: key -> id, address, description
    owners,     \* table `owner`: key -> list, address
    policies,   \* tables `post_policy` and `subscription_policy`, in both of which `list` is
                \* unique: table, list -> policy
    editor      \* per person: the web edit in progress

listVars == <<lists, owners, policies, editor>>

\* A description, or any other column of `list` that may be NULL.
Descriptions == {"null", "text"}

ListRow == [id : ListId, address : ListAddress, description : Descriptions]

\* What a form asks for.  An optional text field left out of the form is kept,
\* one sent empty becomes NULL.
MetadataForm == [type : {"metadata"}, id : ListId, address : ListAddress,
                 description : {"keep"} \cup Descriptions]
PolicyTable  == {"post-policy", "subscription-policy"}
PolicyForm   == [type : PolicyTable, policy : Policies]
Form         == MetadataForm \cup PolicyForm

NoEdit == [pc |-> "idle"]

ListInit ==
    /\ lists = << >>
    /\ owners = << >>
    /\ policies = << >>
    /\ editor = [p \in Person |-> NoEdit]

-------------------------------------------------------------------------------
(***************************************************************************)
(* Queries                                                                 *)
(***************************************************************************)
ListById(i) == {l \in DOMAIN lists : lists[l].id = i}
ListByKey(k) == {k} \cap DOMAIN lists

\* ListPathIdentifier: the web interface takes a name for a key if it can.
WebList(i) == IF i \in DOMAIN KeySpelledBy THEN ListByKey(KeySpelledBy[i]) ELSE ListById(i)

\* Mutant: the commands read a name the way the web interface does.
CliList_KeyFirst(i) ==
    IF i \in DOMAIN KeySpelledBy THEN ListByKey(KeySpelledBy[i]) ELSE ListById(i)

\* list!: the commands look for the id first.
CliList(i) ==
    IF ListById(i) # {} THEN ListById(i)
    ELSE IF i \in DOMAIN KeySpelledBy THEN ListByKey(KeySpelledBy[i]) ELSE {}

Owns(l, p) == \E o \in DOMAIN owners : owners[o] = [list |-> l, address |-> p]

-------------------------------------------------------------------------------
(***************************************************************************)
(* Statements                                                              *)
(***************************************************************************)

\* The UNIQUE columns of `list`.
Unique(table) ==
    \A k, m \in DOMAIN table :
        k # m => table[k].id # table[m].id /\ table[k].address # table[m].address

\* update_list: one UPDATE per column that is given, all of them or none (an
\* error drops the savepoint).
Updated(l, id, address, description) ==
    LET row == lists[l]
    IN  [lists EXCEPT ![l] =
            [id          |-> IF id = "keep" THEN row.id ELSE id,
             address     |-> IF address = "keep" THEN row.address ELSE address,
             description |-> IF description = "keep" THEN row.description ELSE description]]

UpdateList(l, id, address, description) ==
    LET table == Updated(l, id, address, description)
    IN  lists' = IF Unique(table) THEN table ELSE lists

\* INSERT OR REPLACE: the old policy of the list goes when the new one comes.
SetPolicy(table, l, policy) == policies' = Put(policies, <<table, l>>, policy)

-------------------------------------------------------------------------------
(***************************************************************************)
(* list_edit_POST                                                          *)
(***************************************************************************)

\* list(pk) or list_by_id(id)
OpenEdit(p, i, form) ==
    /\ editor[p].pc = "idle"
    /\ \E l \in WebList(i) :
          editor' = [editor EXCEPT ![p] = [pc |-> "check", list |-> l, form |-> form]]
    /\ UNCHANGED <<lists, owners, policies>>

\* Mutant: whoever is logged in may edit.
CheckOwner_Anybody(p) ==
    /\ editor[p].pc = "check"
    /\ editor' = [editor EXCEPT ![p].pc = "write"]
    /\ UNCHANGED <<lists, owners, policies>>

\* Not an owner: the page does not exist.
CheckOwner(p) ==
    /\ editor[p].pc = "check"
    /\ editor' = IF Owns(editor[p].list, p)
                 THEN [editor EXCEPT ![p].pc = "write"]
                 ELSE [editor EXCEPT ![p] = NoEdit]
    /\ UNCHANGED <<lists, owners, policies>>

\* Mutant: a field that the form does not have is written as NULL.
WriteMetadata_ClearsKept(p) ==
    /\ editor[p].pc = "write"
    /\ editor[p].form.type = "metadata"
    /\ LET form == editor[p].form
       IN  UpdateList(editor[p].list, form.id, form.address,
                      IF form.description = "keep" THEN "null" ELSE form.description)
    /\ editor' = [editor EXCEPT ![p] = NoEdit]
    /\ UNCHANGED <<owners, policies>>

WriteMetadata(p) ==
    /\ editor[p].pc = "write"
    /\ editor[p].form.type = "metadata"
    /\ LET form == editor[p].form
       IN  UpdateList(editor[p].list, form.id, form.address, form.description)
    /\ editor' = [editor EXCEPT ![p] = NoEdit]
    /\ UNCHANGED <<owners, policies>>

WritePolicy(p) ==
    /\ editor[p].pc = "write"
    /\ editor[p].form.type \in PolicyTable
    /\ SetPolicy(editor[p].form.type, editor[p].list, editor[p].form.policy)
    /\ editor' = [editor EXCEPT ![p] = NoEdit]
    /\ UNCHANGED <<lists, owners>>

-------------------------------------------------------------------------------
(***************************************************************************)
(* mpot                                                                    *)
(***************************************************************************)

\* Keys are never reused: no list is deleted.
CreateList(i, address, description) ==
    LET l == NextKey(lists)
        table == Put(lists, l, [id |-> i, address |-> address, description |-> description])
    IN  /\ l \in ListKey
        /\ Unique(table)
        /\ lists' = table
        /\ UNCHANGED <<owners, policies, editor>>

\* string_opts!: an option given empty leaves the column alone, and one that
\* is not given at all is passed on as Some(None), which is written as NULL.
CliDescription(option) ==
    CASE option = "empty"  -> "keep"
      [] option = "absent" -> "null"
      [] OTHER             -> option

\* mpot list <i> update --id .. --address .. --description ..
CliUpdate(i, id, address, option) ==
    /\ \E l \in CliList(i) : UpdateList(l, id, address, CliDescription(option))
    /\ UNCHANGED <<owners, policies, editor>>

\* The rowid of a new row is one above the highest.
AddOwner(i, p) ==
    /\ LET o == NextKey(owners)
       IN  /\ o \in OwnerKey
           /\ \E l \in CliList(i) : owners' = Put(owners, o, [list |-> l, address |-> p])
    /\ UNCHANGED <<lists, policies, editor>>

\* By list and key; another list's owner is not found.
RemoveOwner(i, o) ==
    /\ o \in DOMAIN owners
    /\ \E l \in CliList(i) : owners[o].list = l
    /\ owners' = Without(owners, {o})
    /\ UNCHANGED <<lists, policies, editor>>

CliSetPolicy(i, table, policy) ==
    /\ \E l \in CliList(i) : SetPolicy(table, l, policy)
    /\ UNCHANGED <<lists, owners, editor>>

\* The policy is named by its key, and must be the list's.
CliRemovePolicy(i, table) ==
    /\ \E l \in CliList(i) :
         /\ <<table, l>> \in DOMAIN policies
         /\ policies' = Without(policies, {<<table, l>>})
    /\ UNCHANGED <<lists, owners, editor>>

ListNext ==
    \/ \E p \in Person :
         \/ \E i \in ListId, form \in Form : OpenEdit(p, i, form)
         \/ CheckOwner(p) \/ WriteMetadata(p) \/ WritePolicy(p)
    \/ \E i \in ListId :
         \/ \E address \in ListAddress, d \in Descriptions : CreateList(i, address, d)
         \/ \E id \in ListId \cup {"keep"}, address \in ListAddress \cup {"keep"},
               option \in {"absent", "empty", "text"} : CliUpdate(i, id, address, option)
         \/ \E p \in Person : AddOwner(i, p)
         \/ \E o \in OwnerKey : RemoveOwner(i, o)
         \/ \E table \in PolicyTable :
              \/ \E policy \in Policies : CliSetPolicy(i, table, policy)
              \/ CliRemovePolicy(i, table)

ListSpec == ListInit /\ [][ListNext]_listVars

-------------------------------------------------------------------------------
(***************************************************************************)
(* Properties                                                              *)
(***************************************************************************)

\* Type correctness; owners and policies belong to lists that exist (foreign
\* keys), and an edit in progress is about such a list.
ListTypeOK ==
    /\ DOMAIN lists \subseteq ListKey
    /\ lists \in [DOMAIN lists -> ListRow]
    /\ DOMAIN owners \subseteq OwnerKey
    /\ owners \in [DOMAIN owners -> [list : DOMAIN lists, address : Person]]
    /\ DOMAIN policies \subseteq PolicyTable \X DOMAIN lists
    /\ policies \in [DOMAIN policies -> Policies]
    /\ \A p \in Person :
         editor[p] \in {NoEdit} \cup [pc : {"check", "write"}, list : DOMAIN lists, form : Form]

\* Whatever lists are created or renamed, a command finds the list that has the
\* id it names, and so does the web interface unless that id spells a number:
\* then it is taken for a key, and finds another list or none.
NamesFindTheirList ==
    \A l \in DOMAIN lists :
        /\ CliList(lists[l].id) = {l}
        /\ lists[l].id \notin DOMAIN KeySpelledBy => WebList(lists[l].id) = {l}

\* Between the check of the owner and the write, only the removal of the very owner
\* who is writing can make the writer somebody who does not own the list
\* (list_edit_POST reads the owners once and does not hold a lock).
EditorsOwn == \A p \in Person : editor[p].pc = "write" => Owns(editor[p].list, p)

OnlyRemovalLeavesStrangersWriting ==
    [][ EditorsOwn /\ ~EditorsOwn' =>
            \E o \in DOMAIN owners \ DOMAIN owners', p \in Person :
                /\ editor[p].pc = "write"
                /\ owners[o] = [list |-> editor[p].list, address |-> p] ]_listVars

\* A list loses its description only to a form that has the field empty, or to
\* a command: `mpot list update` clears what it is not told to change.
DescriptionLostOnlyOnRequest ==
    [][ \A l \in DOMAIN lists :
          /\ lists[l].description = "text"
          /\ lists'[l].description = "null"
          => \/ editor' = editor
             \/ \E p \in Person : /\ editor[p].pc = "write" /\ editor'[p].pc = "idle"
                                  /\ editor[p].form.type = "metadata"
                                  /\ editor[p].form.description = "null" ]_listVars
=============================================================================
