------------------------------ MODULE PostingRules ------------------------------
(***************************************************************************)
(* What the functions of PostFilters, PostfixFiles and Threads promise of  *)
(* one post, one pair of policies and one thread.  They have no state of   *)
(* their own: an input is a state, and `rule` says which functions it is   *)
(* for.                                                                    *)
(***************************************************************************)
EXTENDS PostFilters, PostfixFiles, Threads

CONSTANT
    Correspondent   \* authors, owners and subscribers

VARIABLES
    rule,           \* the functions a behaviour is about
    input

-------------------------------------------------------------------------------
(***************************************************************************)
(* Inputs                                                                  *)
(***************************************************************************)

\* An author may write any header, that of a list too: of a reply the subject may bear
\* the tag, and a forwarded mail may be from a list.
AuthorHeader == [name : STRING, value : Seq(STRING)]

Mails == [from : Correspondent, ends : Seq({"lf", "crlf", "none"}), headers : Seq(AuthorHeader)]

\* UNIQUE (list, address)
SubscriptionTables ==
    {rows \in SUBSET [address : Correspondent, own : {"yes", "no"}, digest : {"yes", "no"}] :
        \A r, s \in rows : r.address = s.address => r = s}

AcceptedPolicies == {SetListPostPolicy({}, flags) : flags \in SUBSET PostFlags}

FilteredLists ==
    [policy : AcceptedPolicies, owners : SUBSET Correspondent, subscriptions : SubscriptionTables,
     subscribing : SUBSET SubscriptionFlags, archive : {"none", "url"},
     archivedAt : {"absent", "renders", "fails", "no_preserve_carets"},
     subjectTag : {"enabled", "disabled"}]

\* The policies of a list, the flags of another list's, and how long their addresses are
PolicyInputs ==
    [flags : SUBSET PostFlags, subscribing : SUBSET SubscriptionFlags,
     others : SUBSET PostFlags, lengths : [{"list", "other"} -> Nat]]

\* Senders choose the ids, and what a mail replies to.
PostTables == Seq([list : Nat, id : STRING \ {"none"}, reply : STRING])

\* Nobody's child is above it.
Trees ==
    {tree \in UNION {[nodes -> [message : {"yes", "no"}, children : Seq(nodes)]] : nodes \in SUBSET STRING} :
        \E height \in [DOMAIN tree -> Nat] :
            \A n \in DOMAIN tree : \A i \in DOMAIN tree[n].children :
                height[tree[n].children[i]] < height[n]}

RulesInit ==
    \/ rule = "filters"  /\ input \in [mail : Mails, list : FilteredLists]
    \/ rule = "policies" /\ input \in PolicyInputs
    \/ rule = "threads"  /\ input \in [table : PostTables, list : Nat, root : STRING]
    \/ rule = "trees"    /\ input \in {i \in [tree : Trees, root : STRING] : i.root \in DOMAIN i.tree}

RulesNext == UNCHANGED <<rule, input>>

RulesSpec == RulesInit /\ [][RulesNext]_<<rule, input>>

-------------------------------------------------------------------------------
(***************************************************************************)
(* Posts                                                                   *)
(***************************************************************************)

\* What the flags of a policy allow, the strictest first
HasRight(author, list) ==
    /\ "announce_only" \in list.policy => author \in list.owners
    /\ "subscription_only" \in list.policy /\ "announce_only" \notin list.policy
         => author \in SubscriberSet(list)
    /\ "approval_needed" \in list.policy /\ list.policy \cap {"announce_only", "subscription_only"} = {}
         => author \in SubscriberSet(list)

FirstSubject(headers) ==
    {i \in DOMAIN headers : /\ headers[i].name = "Subject"
                            /\ \A j \in DOMAIN headers : headers[j].name = "Subject" => i <= j}

\* The headers of a mail that leaves, next to its author's own
HeadersAsPromised(own, sent, tag) ==
    LET added(name) == {i \in DOMAIN sent \ DOMAIN own : sent[i].name = name}
        prefixed    == IF tag = "disabled" THEN {} ELSE FirstSubject(own)
    IN  /\ \A i \in DOMAIN own \ prefixed : sent[i] = own[i]
        /\ \A i \in prefixed : sent[i] = Header("Subject", <<"[id]">> \o own[i].value)
        /\ \A i \in added("Subject") : Head(sent[i].value) = "[id]"
        /\ Cardinality(prefixed \cup added("Subject")) = (IF tag = "disabled" THEN 0 ELSE 1)
        /\ Cardinality(added("List-Id")) = 1

FilteredAsPromised(mail, list) ==
    LET job == Filtered(mail, list)
    IN  /\ ~HasRight(mail.from, list) =>
              /\ job = [Job(mail, list) EXCEPT !.flow = "stopped", !.action = job.action]
              /\ job.action \in {"Reject", "Defer"}
        /\ job.flow = "panicked" =>
              HasRight(mail.from, list) /\ list.archivedAt = "no_preserve_carets"
        /\ job.action = "Accept" =>
              /\ HasRight(mail.from, list)
              /\ \A i \in DOMAIN mail.ends : job.mail.ends[i] = (IF mail.ends[i] = "none" THEN "none" ELSE "crlf")
              /\ HeadersAsPromised(mail.headers, job.mail.headers, list.subjectTag)
              /\ job.recipients \cap job.digests = {}
              /\ job.recipients \cup job.digests =
                    {p \in SubscriberSet(list) :
                        p = mail.from => \E s \in list.subscriptions : s.address = p /\ s.own = "yes"}

\* What `list_filters` (message_filters.rs) makes of a post.  An author without
\* the right leaves no trace in the mail, whatever it is made of.  A mail that is
\* accepted has no bare line ends; its author's headers are all there, as they were
\* but for the first subject; one subject, that one or an added one, has got the tag
\* unless the list has none; and one List-Id is added.  (So a reply whose subject bears
\* the tag leaves with two tags, and a mail with a List-Id with two of these.)  A
\* subscriber gets the mail, or its digest, but not both, and the author only on
\* request.  Only settings without preserve_carets make the filters panic, and only
\* for an author with the right.
FilteredPosts == rule = "filters" => FilteredAsPromised(input.mail, input.list)

-------------------------------------------------------------------------------
(***************************************************************************)
(* Announcements                                                           *)
(***************************************************************************)

\* Owner, subscriber or stranger of a list, and nobody else's business
ListWith(flags) ==
    [policy |-> flags, owners |-> {"owner"},
     subscriptions |-> {[address |-> "subscriber", own |-> "no", digest |-> "no"]}]

PostOf(author, flags) == CheckRights(Job([from |-> author], ListWith(flags)))

Invited(help) ==
    CASE help = "owners"                -> {"owner"}
      [] help = "subscribers"           -> {"subscriber"}
      [] help = "anyone, with approval" -> {"owner", "subscriber", "stranger"}
      [] OTHER                          -> {}

PoliciesOf(chosen) ==
    [l \in {"list", "other"} |-> SetListPostPolicy({}, IF l = "list" THEN chosen.flags ELSE chosen.others)]

AnnouncedAsPromised(chosen) ==
    LET policies == PoliciesOf(chosen)
        policy   == policies["list"]
        joining  == SetListSubscriptionPolicy({}, chosen.subscribing)
        routes   == GenerateMaps(policies)
        Extra(suffix) == CASE suffix = "" -> 0 [] suffix = "+request" -> 8 [] OTHER -> 6
    IN  /\ \A author \in Invited(HelpOnPosting(policy)) : PostOf(author, policy).action # "Reject"
        /\ HelpOnSubscribing(joining) = "anyone" => Subscribing(joining) = "subscription"
        /\ HelpOnSubscribing(joining) = "anyone, on request" => Subscribing(joining) = "request"
        /\ PostHeader([policy |-> policy]) = "mailto" => <<"list", "">> \in routes
        /\ \A subject \in {"subscribe", "unsubscribe", "help"} :
              ListRequest("request", subject) = ListRequest(subject, "")
        /\ \A route \in routes :
              Padding(MapWidth(policies, chosen.lengths), chosen.lengths[route[1]] + Extra(route[2])) >= 5

\* What a list says of itself, for every two policies that their tables accept: who is
\* invited to post by the help mail is not rejected; who is told that anyone may
\* subscribe need not ask, and who is told to ask is not subscribed at once; the address
\* in List-Post is routed to mpot; a request means the same in the subject as in the
\* address; and no padding of the map goes below zero.  (What the list says and does NOT
\* keep is in PoliciesAreAsDocumented.)
AnnouncementsHold == rule = "policies" => AnnouncedAsPromised(input)

\* A policy has one flag (models.rs: "Only one of the boolean flags must be set to true",
\* "Only one of the policy boolean flags must be set to true").
OneFlag(chosen) ==
    /\ Cardinality(PoliciesOf(chosen)["list"]) <= 1 /\ Cardinality(PoliciesOf(chosen)["other"]) <= 1
    /\ Cardinality(SetListSubscriptionPolicy({}, chosen.subscribing)) <= 1

\* Where the help mail says "This list does not allow posting.", nobody may post.
NobodyPosts(chosen) ==
    HelpOnPosting(PoliciesOf(chosen)["list"]) = "nobody" =>
        \A author \in {"owner", "subscriber", "stranger"} :
            PostOf(author, PoliciesOf(chosen)["list"]).flow = "stopped"

\* "Anyone can subscribe without restrictions. Send an e-mail to <list>+request": it arrives.
RequestsArrive(chosen) ==
    HelpOnSubscribing(SetListSubscriptionPolicy({}, chosen.subscribing)) \in {"anyone", "anyone, on request"} =>
        <<"list", "+request">> \in GenerateMaps(PoliciesOf(chosen))

\* "open": "Anyone can post, but approval from list owners is required."
OpenNeedsApproval(chosen) ==
    "open" \in PoliciesOf(chosen)["list"] =>
        \A author \in {"subscriber", "stranger"} : PostOf(author, PoliciesOf(chosen)["list"]).action = "Defer"

\* What models.rs says of policies, in its comments and in the help mail.
PoliciesAreAsDocumented ==
    rule = "policies" =>
        OneFlag(input) /\ NobodyPosts(input) /\ RequestsArrive(input) /\ OpenNeedsApproval(input)

-------------------------------------------------------------------------------
(***************************************************************************)
(* Threads                                                                 *)
(***************************************************************************)

\* What the pairs of a relation lead to from x, x included
Reached(relation, x) ==
    LET places == {x} \cup {p[2] : p \in relation}
    IN  {y \in places : \A S \in SUBSET places :
            x \in S /\ (\A p \in relation : p[1] \in S => p[2] \in S) => y \in S}

\* The root, the replies to it, and the replies to these, in any list
Conversation(table, root) ==
    Reached({<<table[k].reply, table[k].id>> : k \in DOMAIN table}, root)

ConversationInList(table, l, root) ==
    {table[k].id : k \in InList(table, l)} \cap Conversation(table, root)

IsRootOf(table, l, root) == \E k \in InList(table, l) : table[k].id = root /\ table[k].reply = "none"

IdsOf(table, root, rows) == {IdOf(table, root, row) : row \in rows}

Single(table, id) == \A i, j \in DOMAIN table : table[i].id = id /\ table[j].id = id => i = j

\* Mails with the same id reply to the same mail.
Consistent(table) ==
    \A i, j \in DOMAIN table : table[i].id = table[j].id => table[i].reply = table[j].reply

ThreadAsPromised(table, l, root) ==
    /\ Consistent(table) => ListThread(table, l, root) # {}
    /\ IsRootOf(table, l, root) =>
          \A thread \in ListThread(table, l, root) :
              /\ IdsOf(table, root, thread) \ {root} = ConversationInList(table, l, root) \ {root}
              /\ \A r, s \in thread :
                    /\ IdOf(table, root, r) = IdOf(table, root, s)
                    /\ Single(table, root) /\ \A i \in DOMAIN r : Single(table, table[r[i]].id)
                    => r = s

\* The first message on the way down from the root along the first children
FirstMessage(tree, root) ==
    LET passed == {n \in DOMAIN tree : tree[n].message = "no" /\ tree[n].children # << >>}
    IN  {n \in Reached({<<m, Head(tree[m].children)>> : m \in passed}, root) : tree[n].message = "yes"}

\* A thread of the web archive (list_thread) below a root that is in the list has
\* every reply to it that is in the list, however many of another list are between
\* them, no other post, and a post only once unless it, or a post above it, is there
\* under its id a second time.  The query may fail to end, but not if mails with the same
\* id reply to the same mail, in whichever circles others reply to each other.  A thread
\* of the list page (thread_roots) is named for the first message on the way from its
\* root along the first children, and left out if there is none.
ThreadsShowReplies ==
    /\ rule = "threads" => ThreadAsPromised(input.table, input.list, input.root)
    /\ rule = "trees" => RootMessage(input.tree, input.root) = FirstMessage(input.tree, input.root)

\* export_mbox: "Export a list, message, or thread in mbox format".  An exported thread is
\* the conversation in the list, with the message it begins with.
ExportsWholeThread ==
    rule = "threads" =>
        \A mbox \in Exported(input.table, input.list, input.root, "yes") :
            IsRootOf(input.table, input.list, input.root) =>
                IdsOf(input.table, input.root, mbox)
                    = ConversationInList(input.table, input.list, input.root)
=================================================================================
