-------------------------------- MODULE Threads --------------------------------
(***************************************************************************)
(* Threads of the archive: which posts are shown, or exported, below a     *)
(* post, as pure functions of table `post`.                                *)
(*                                                                         *)
(* A table is a sequence, in the order of the timestamps, of               *)
(* [list, id, reply]: `reply` is the id in the In-Reply-To of the message, *)
(* or "none".  Ids are bare (`mpot repair` makes them so).                 *)
(***************************************************************************)
EXTENDS Naturals, SequencesExt

InList(table, l) == {k \in DOMAIN table : table[k].list = l}

\* list_post_by_message_id: the first post of the list with that id
PostById(table, l, id) ==
    LET at == {k \in InList(table, l) : table[k].id = id}
    IN  IF at = {} THEN {} ELSE {table[CHOOSE k \in at : \A m \in at : k <= m]}

-------------------------------------------------------------------------------
(***************************************************************************)
(* list_thread                                                             *)
(*                                                                         *)
(* A row of cte_thread is named by the way it was found: the posts, of ANY *)
(* list, that were joined to the root one after the other (UNION ALL).     *)
(* Its depth is the length of the way.                                     *)
(***************************************************************************)
IdOf(table, root, row) == IF row = << >> THEN root ELSE table[row[Len(row)]].id

\* The ways of at most n posts from a root, which is a post that replies to nothing
Ways(table, root, n) ==
    {row \in SeqOf(DOMAIN table, n) :
        /\ \E k \in DOMAIN table : table[k].id = root /\ table[k].reply = "none"
        /\ \A i \in DOMAIN row :
              table[row[i]].reply = (IF i = 1 THEN root ELSE table[row[i - 1]].id)}

\* The rows of ALL roots are computed before one is selected.  A way of more posts than
\* there are comes to a post again, and goes on for ever.
Endless(table) ==
    \E k \in DOMAIN table :
        /\ table[k].reply = "none"
        /\ \E row \in Ways(table, table[k].id, Len(table) + 1) : Len(row) > Len(table)

ThreadRows(table, root) == Ways(table, root, Len(table))

\* Mutant: the rows are not looked up in the list.
Shown_AnyList(table, l, root) == ThreadRows(table, root)

\* The rows of which the list has a post.
Shown(table, l, root) ==
    {row \in ThreadRows(table, root) : PostById(table, l, IdOf(table, root, row)) # {}}

\* skip(1): a row of the least depth is left out, whichever comes first.
WithoutFirst(shown) ==
    IF shown = {} THEN {shown}
    ELSE {shown \ {row} : row \in {r \in shown : \A s \in shown : Len(r) <= Len(s)}}

\* What list_thread may return: nothing, if the query does not end.
ListThread(table, l, root) ==
    IF Endless(table) THEN {} ELSE WithoutFirst(Shown(table, l, root))

-------------------------------------------------------------------------------
(***************************************************************************)
(* export_mbox: the messages in the mailbox, each as a row again           *)
(***************************************************************************)
Exported(table, l, id, asThread) ==
    IF id = "none" THEN {{<<k>> : k \in InList(table, l)}}
    ELSE IF asThread = "yes" THEN ListThread(table, l, id)
    ELSE IF PostById(table, l, id) = {} THEN {} ELSE {{<< >>}}

-------------------------------------------------------------------------------
(***************************************************************************)
(* thread_roots: a tree of messages, some of which are only known by the   *)
(* references of others.  `tree` maps a node to [message, children].       *)
(***************************************************************************)

\* The root, or the first message on the way along the first children; a thread
\* without one on that way is left out.
RootMessage(tree, root) ==
    LET Find[n \in DOMAIN tree] ==
          IF tree[n].message = "yes" THEN {n}
          ELSE IF tree[n].children = << >> THEN {}
          ELSE Find[Head(tree[n].children)]
    IN  Find[root]
=============================================================================
