--------------------------- MODULE SubscriptionTables ---------------------------
(***************************************************************************)
(* The three tables that record who is on a list: `subscription`,          *)
(* `candidate_subscription` and `account`, with the effect of every SQL    *)
(* statement the code runs on them.  A database image is a record `d` of   *)
(* partial functions from primary keys to rows; an operator returns the    *)
(* image after the statement AND the triggers and foreign-key actions that *)
(* schema.sql attaches to it, because SQLite runs them in the same         *)
(* statement.  Nothing here is an action: Subscriptions applies these      *)
(* operators to the committed image or to the image inside a transaction.  *)
(***************************************************************************)
EXTENDS Naturals

CONSTANTS
    List,       \* primary keys of mailing lists (no code deletes a list)
    Address,    \* e-mail addresses
    MaxPk       \* bound on primary keys: SQLite's limit is 2^63 - 1

ASSUME MaxPkAssumption == MaxPk \in Nat

Pk == 1..MaxPk

\* SQL NULL in a column that holds a primary key; rowids start at 1.
NoPk == 0

SubRow  == [list : List, address : Address, account : Pk \cup {NoPk}]
CandRow == [list : List, address : Address, accepted : Pk \cup {NoPk}]

NoRows == [k \in {} |-> NoPk]

EmptyDb == [sub |-> NoRows, cand |-> NoRows, account |-> NoRows]

\* The tables with keys in Pk and rows in R.
Rows(R) == UNION {[S -> R] : S \in SUBSET Pk}

Db == [sub : Rows(SubRow), cand : Rows(CandRow), account : Rows(Address)]

-------------------------------------------------------------------------------
(***************************************************************************)
(* Lookups                                                                 *)
(***************************************************************************)

\* The key SQLite gives a new row of an INTEGER PRIMARY KEY table without
\* AUTOINCREMENT: one more than the largest key present, so the key of a
\* deleted last row is used again.
IsNextPk(t, p) ==
    /\ \A k \in DOMAIN t : k < p
    /\ p = 1 \/ p - 1 \in DOMAIN t

At(row, l, a) == row.list = l /\ row.address = a

Subscribed(d, l, a)  == \E k \in DOMAIN d.sub : At(d.sub[k], l, a)
Candidate(d, l, a)   == \E c \in DOMAIN d.cand : At(d.cand[c], l, a)
HasAccount(d, a)     == \E x \in DOMAIN d.account : d.account[x] = a
AccountOf(d, a)      == CHOOSE x \in DOMAIN d.account : d.account[x] = a

-------------------------------------------------------------------------------
(***************************************************************************)
(* INSERT INTO subscription.  Trigger accept_candidate points the          *)
(* candidacy of the same list and address at the new row; trigger          *)
(* add_account_to_subscription fills a NULL `account` column.              *)
(***************************************************************************)
Link(d, a, acc) ==
    IF acc = NoPk /\ HasAccount(d, a) THEN AccountOf(d, a) ELSE acc

\* Mutant: InsertSub without the accept_candidate trigger.
InsertSub_NoAccept(d, p, l, a, acc) ==
    [d EXCEPT !.sub = [k \in DOMAIN d.sub \cup {p} |->
        IF k = p THEN [list |-> l, address |-> a, account |-> Link(d, a, acc)] ELSE d.sub[k]]]

InsertSub(d, p, l, a, acc) ==
    [sub  |-> [k \in DOMAIN d.sub \cup {p} |->
                 IF k = p THEN [list |-> l, address |-> a, account |-> Link(d, a, acc)]
                          ELSE d.sub[k]],
     cand |-> [c \in DOMAIN d.cand |->
                 IF At(d.cand[c], l, a) THEN [d.cand[c] EXCEPT !.accepted = p]
                                        ELSE d.cand[c]],
     account |-> d.account]

\* The insert is possible: UNIQUE (list, address) and the `account` foreign key.
CanInsertSub(d, p, l, a, acc) ==
    /\ IsNextPk(d.sub, p)
    /\ ~Subscribed(d, l, a)
    /\ acc \in DOMAIN d.account \cup {NoPk}

\* INSERT INTO candidate_subscription with `accepted` NULL.
InsertCand(d, p, l, a) ==
    [sub  |-> d.sub,
     cand |-> [c \in DOMAIN d.cand \cup {p} |->
                 IF c = p THEN [list |-> l, address |-> a, accepted |-> NoPk]
                          ELSE d.cand[c]],
     account |-> d.account]

CanInsertCand(d, p, l, a) ==
    /\ IsNextPk(d.cand, p)
    /\ ~Candidate(d, l, a)

\* Mutant: InsertAccount without the add_account trigger.
InsertAccount_NoRelink(d, p, a) ==
    [d EXCEPT !.account = [x \in DOMAIN d.account \cup {p} |->
        IF x = p THEN a ELSE d.account[x]]]

(***************************************************************************)
(* INSERT INTO account.  Trigger add_account links every subscription of   *)
(* the same address, whatever its `account` column held before.            *)
(***************************************************************************)
InsertAccount(d, p, a) ==
    [sub  |-> [k \in DOMAIN d.sub |->
                 IF d.sub[k].address = a THEN [d.sub[k] EXCEPT !.account = p]
                                         ELSE d.sub[k]],
     cand |-> d.cand,
     account |-> [x \in DOMAIN d.account \cup {p} |->
                    IF x = p THEN a ELSE d.account[x]]]

CanInsertAccount(d, p, a) ==
    /\ IsNextPk(d.account, p)
    /\ ~HasAccount(d, a)

\* Mutant: `accepted` without ON DELETE CASCADE.
DeleteSub_NoCascade(d, l, a) ==
    [d EXCEPT !.sub = [k \in {j \in DOMAIN d.sub : ~At(d.sub[j], l, a)} |-> d.sub[k]]]

(***************************************************************************)
(* DELETE FROM subscription: a candidacy whose `accepted` column names a   *)
(* deleted row goes with it (ON DELETE CASCADE).                           *)
(***************************************************************************)
DeleteSub(d, l, a) ==
    LET gone  == {k \in DOMAIN d.sub : At(d.sub[k], l, a)}
        stays == {c \in DOMAIN d.cand : d.cand[c].accepted \notin gone}
    IN  [sub  |-> [k \in DOMAIN d.sub \ gone |-> d.sub[k]],
         cand |-> [c \in stays |-> d.cand[c]],
         account |-> d.account]

\* Mutant: `account` without ON DELETE SET NULL.
DeleteAccounts_NoSetNull(d, S) ==
    [d EXCEPT !.account = [x \in DOMAIN d.account \ S |-> d.account[x]]]

\* DELETE FROM account WHERE pk IN S: subscriptions are unlinked (ON DELETE
\* SET NULL).
DeleteAccounts(d, S) ==
    [sub  |-> [k \in DOMAIN d.sub |->
                 IF d.sub[k].account \in S THEN [d.sub[k] EXCEPT !.account = NoPk]
                                           ELSE d.sub[k]],
     cand |-> d.cand,
     account |-> [x \in DOMAIN d.account \ S |-> d.account[x]]]

-------------------------------------------------------------------------------
(***************************************************************************)
(* What must be true of an image.                                          *)
(***************************************************************************)

\* UNIQUE (list, address) of both tables and UNIQUE (address) of account.
UniqueRows(d) ==
    /\ \A i, j \in DOMAIN d.sub :
         d.sub[i].list = d.sub[j].list /\ d.sub[i].address = d.sub[j].address => i = j
    /\ \A i, j \in DOMAIN d.cand :
         d.cand[i].list = d.cand[j].list /\ d.cand[i].address = d.cand[j].address => i = j
    /\ \A i, j \in DOMAIN d.account : d.account[i] = d.account[j] => i = j

\* A linked account exists.
NoDanglingAccount(d) ==
    \A k \in DOMAIN d.sub : d.sub[k].account \in DOMAIN d.account \cup {NoPk}

\* An accepted candidacy names a live subscription of the same list and the
\* same address, even though subscription keys are used again.
AcceptedIsSubscribed(d) ==
    \A c \in DOMAIN d.cand : d.cand[c].accepted # NoPk =>
        /\ d.cand[c].accepted \in DOMAIN d.sub
        /\ At(d.sub[d.cand[c].accepted], d.cand[c].list, d.cand[c].address)

\* A subscription is linked to an account exactly when its address has one,
\* and then to that one.
LinkedToOwnAccount(d) ==
    \A k \in DOMAIN d.sub :
        /\ d.sub[k].account # NoPk =>
             /\ d.sub[k].account \in DOMAIN d.account
             /\ d.account[d.sub[k].account] = d.sub[k].address
        /\ HasAccount(d, d.sub[k].address) => d.sub[k].account # NoPk

\* Nobody waits for a list they are already on.
NoSubscriberWaits(d) ==
    \A c \in DOMAIN d.cand :
        Subscribed(d, d.cand[c].list, d.cand[c].address) => d.cand[c].accepted # NoPk

\* Everything the constraints and triggers promise together.
GoodDb(d) ==
    UniqueRows(d) /\ NoDanglingAccount(d) /\ AcceptedIsSubscribed(d)
=============================================================================
