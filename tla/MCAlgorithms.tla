------------------------------ MODULE MCAlgorithms ------------------------------
(***************************************************************************)
(* Small sets of inputs for the pure functions of PostFilters,             *)
(* PostfixFiles and Threads.                                               *)
(***************************************************************************)
EXTENDS PostingRules

CONSTANTS
    MaxAddress,     \* bound on the length of an address
    MaxTable        \* bound on the rows of table `post`

\* No subject, one, one too many; that of a reply to a post of the list, and a mail that was
\* on a list before
Written(ends, headers) == [ends |-> ends, headers |-> headers]

\* One author: lists take both correspondents for owners and subscribers.
AuthorMails ==
    {[from |-> "a", ends |-> w.ends, headers |-> w.headers] : w \in
        {Written(<< >>, << >>),
         Written(<<"lf", "crlf">>, <<Header("Subject", <<"s">>), Header("Subject", << >>)>>),
         Written(<<"crlf", "none">>,
                 <<Header("List-Id", <<"other">>), Header("Subject", <<"Re:", "[id]", "s">>)>>),
         Written(<<"lf", "none">>,
                 <<Header("Subject", <<"[id]", "s">>), Header("List-Id", <<"list">>)>>)}}

\* The settings of the other filters and headers, in four combinations
AuthorLists ==
    {list \in FilteredLists :
        <<list.subscribing, list.archive, list.archivedAt, list.subjectTag>> \in
            {<<{}, "none", "absent", "enabled">>, <<{"open"}, "url", "renders", "disabled">>,
             <<{}, "url", "no_preserve_carets", "enabled">>,
             <<{"request"}, "none", "fails", "enabled">>}}

SmallPolicyInputs ==
    [flags : SUBSET PostFlags, subscribing : SUBSET SubscriptionFlags,
     others : {{}, {"open"}, {"announce_only"}}, lengths : [{"list", "other"} -> 3 .. MaxAddress]]

\* A message that is sent to two lists is the same in both; `x` is in no table.
Replies == [a : {"none"}, b : {"none", "a"}, c : {"a", "b", "x"}]

OrderlyTables ==
    {[k \in DOMAIN rows |-> [list |-> rows[k][1], id |-> rows[k][2], reply |-> replies[rows[k][2]]]] :
        rows \in {r \in SeqOf({1, 2} \X {"a", "b", "c"}, MaxTable) :
                    \A i, j \in DOMAIN r : r[i] = r[j] => i = j},
        replies \in Replies}

\* Mails that reply to each other, or have the id of another
DisorderlyTables ==
    SeqOf([list : {1, 2}, id : {"a", "b"}, reply : {"none", "a", "b"}], MaxTable - 1)

\* The threads below "b" in orderly tables are those below "a" with other names.
ThreadInputs ==
    [table : OrderlyTables, list : {1}, root : {"a"}]
    \cup [table : DisorderlyTables, list : {1}, root : {"a", "b"}]

\* Some of the nodes of a chain, a fork and a forest have a message.
Shapes == {[r |-> <<"s">>, s |-> <<"t">>, t |-> <<"u">>, u |-> << >>],
           [r |-> <<"s", "u">>, s |-> <<"t">>, t |-> << >>, u |-> << >>],
           [r |-> <<"u">>, s |-> <<"t", "u">>, t |-> << >>, u |-> << >>]}

TreeInputs ==
    {[tree |-> [n \in DOMAIN shape |-> [message |-> messages[n], children |-> shape[n]]], root |-> root] :
        shape \in Shapes, messages \in [{"r", "s", "t", "u"} -> {"yes", "no"}], root \in {"r", "s"}}

SmallRulesInit ==
    \/ rule = "filters"  /\ input \in [mail : AuthorMails, list : AuthorLists]
    \/ rule = "policies" /\ input \in SmallPolicyInputs
    \/ rule = "threads"  /\ input \in ThreadInputs
    \/ rule = "trees"    /\ input \in TreeInputs

ThreadSpec == SmallRulesInit /\ rule = "threads" /\ [][RulesNext]_<<rule, input>>

\* One list with an open policy, and another whose policy has three flags; of the policy of
\* subscriptions three flags are set.
OpenList ==
    [flags |-> {"open"}, subscribing |-> {"open", "manual", "request"},
     others |-> {"announce_only", "subscription_only", "custom"},
     lengths |-> [l \in {"list", "other"} |-> MaxAddress]]

PolicySpec == rule = "policies" /\ input = OpenList /\ [][RulesNext]_<<rule, input>>
=================================================================================
