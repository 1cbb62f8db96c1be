-------------------------- MODULE Subscriptions_proofs --------------------------
(***************************************************************************)
(* Theorems about Subscriptions for every set of lists, addresses, web     *)
(* users, processes and From headers and every key bound.  Each leaf rests *)
(* on what the first part says of one SQL statement: every INSERT and      *)
(* DELETE, with the triggers and foreign-key actions it fires, keeps the   *)
(* image well-typed and its keys meaningful.                               *)
(***************************************************************************)
EXTENDS Subscriptions, TLAPS


-------------------------------------------------------------------------------
(***************************************************************************)
(* Types                                                                   *)
(***************************************************************************)

\* A table is a function on a set of keys.
LEMMA RowsType ==
    ASSUME NEW R, NEW f
    PROVE  f \in Rows(R) <=> DOMAIN f \subseteq Pk /\ f \in [DOMAIN f -> R]
BY DEF Rows

LEMMA RowsIntro ==
    ASSUME NEW R, NEW S, S \subseteq Pk, NEW f \in [S -> R]
    PROVE  f \in Rows(R)
BY DEF Rows

LEMMA DbFields ==
    ASSUME NEW d \in Db
    PROVE  /\ DOMAIN d.sub \subseteq Pk     /\ d.sub \in [DOMAIN d.sub -> SubRow]
           /\ DOMAIN d.cand \subseteq Pk    /\ d.cand \in [DOMAIN d.cand -> CandRow]
           /\ DOMAIN d.account \subseteq Pk /\ d.account \in [DOMAIN d.account -> Address]
<1>1. d.sub \in Rows(SubRow) /\ d.cand \in Rows(CandRow) /\ d.account \in Rows(Address)
  BY DEF Db
<1>2. QED
  BY <1>1, RowsType

LEMMA NoPkFresh == NoPk \notin Pk
BY MaxPkAssumption DEF NoPk, Pk

\* The account a new subscription is linked to exists, or there is none.
LEMMA LinkType ==
    ASSUME NEW d \in Db, NEW a \in Address, NEW acc \in DOMAIN d.account \cup {NoPk}
    PROVE  /\ Link(d, a, acc) \in DOMAIN d.account \cup {NoPk}
           /\ Link(d, a, acc) \in Pk \cup {NoPk}
           /\ acc = NoPk /\ HasAccount(d, a) =>
                /\ Link(d, a, acc) \in DOMAIN d.account
                /\ d.account[Link(d, a, acc)] = a
BY DbFields DEF Link, HasAccount, AccountOf

LEMMA EmptyDbGood == EmptyDb \in Db /\ GoodDb(EmptyDb) /\ LinkedToOwnAccount(EmptyDb)
                     /\ NoSubscriberWaits(EmptyDb)
<1>1. NoRows \in Rows(SubRow) /\ NoRows \in Rows(CandRow) /\ NoRows \in Rows(Address)
  BY DEF NoRows, Rows
<1>2. DOMAIN NoRows = {}
  BY DEF NoRows
<1>3. QED
  BY <1>1, <1>2 DEF EmptyDb, Db, GoodDb, UniqueRows, NoDanglingAccount,
     AcceptedIsSubscribed, LinkedToOwnAccount, NoSubscriberWaits

-------------------------------------------------------------------------------
(***************************************************************************)
(* INSERT INTO subscription                                                *)
(***************************************************************************)

\* The rows of the image after the insert, column by column.
LEMMA InsertSubRows ==
    ASSUME NEW d \in Db, NEW p \in Pk, NEW l \in List, NEW a \in Address, NEW acc,
           CanInsertSub(d, p, l, a, acc),
           NEW e, e = InsertSub(d, p, l, a, acc)
    PROVE  /\ e \in Db
           /\ p \notin DOMAIN d.sub
           /\ DOMAIN e.sub = DOMAIN d.sub \cup {p}
           /\ \A k \in DOMAIN d.sub : e.sub[k] = d.sub[k]
           /\ e.sub[p].list = l /\ e.sub[p].address = a /\ e.sub[p].account = Link(d, a, acc)
           /\ DOMAIN e.cand = DOMAIN d.cand
           /\ \A c \in DOMAIN d.cand :
                /\ e.cand[c].list = d.cand[c].list
                /\ e.cand[c].address = d.cand[c].address
                /\ e.cand[c].accepted = IF At(d.cand[c], l, a) THEN p ELSE d.cand[c].accepted
           /\ e.account = d.account
<1>1. acc \in DOMAIN d.account \cup {NoPk} /\ p \notin DOMAIN d.sub
  BY DbFields DEF CanInsertSub, IsNextPk, Pk
<1>2. e.sub \in [DOMAIN d.sub \cup {p} -> SubRow]
  BY <1>1, DbFields, LinkType DEF InsertSub, SubRow
<1>3. e.cand \in [DOMAIN d.cand -> CandRow]
  BY DbFields DEF InsertSub, CandRow
<1>4. e \in Db
  <2>1. e.sub \in Rows(SubRow)
    BY <1>2, DbFields, RowsIntro
  <2>2. e.cand \in Rows(CandRow)
    BY <1>3, DbFields, RowsIntro
  <2>3. QED
    BY <2>1, <2>2 DEF InsertSub, Db
<1>5. /\ DOMAIN e.sub = DOMAIN d.sub \cup {p}
      /\ \A k \in DOMAIN d.sub : e.sub[k] = d.sub[k]
      /\ e.sub[p] = [list |-> l, address |-> a, account |-> Link(d, a, acc)]
      /\ DOMAIN e.cand = DOMAIN d.cand
      /\ e.account = d.account
  BY <1>1 DEF InsertSub
<1>6. ASSUME NEW c \in DOMAIN d.cand
      PROVE  /\ e.cand[c].list = d.cand[c].list
             /\ e.cand[c].address = d.cand[c].address
             /\ e.cand[c].accepted = IF At(d.cand[c], l, a) THEN p ELSE d.cand[c].accepted
  <2>1. d.cand[c] \in CandRow
    BY DbFields
  <2>2. e.cand[c] = IF At(d.cand[c], l, a) THEN [d.cand[c] EXCEPT !.accepted = p] ELSE d.cand[c]
    BY DEF InsertSub
  <2>3. QED
    BY <2>1, <2>2 DEF CandRow
<1>7. QED
  BY <1>1, <1>4, <1>5, <1>6

\* A new subscription keeps every key meaningful: the candidacy of its address
\* points at the new row, the others at the rows they pointed at.
LEMMA InsertSubGood ==
    ASSUME NEW d \in Db, GoodDb(d), NEW p \in Pk, NEW l \in List, NEW a \in Address, NEW acc,
           CanInsertSub(d, p, l, a, acc),
           NEW e, e = InsertSub(d, p, l, a, acc)
    PROVE  e \in Db /\ GoodDb(e)
<1>1. UniqueRows(e)
  <2>1. \A k \in DOMAIN d.sub : ~At(d.sub[k], l, a)
    BY DEF CanInsertSub, Subscribed
  <2>2. \A i, j \in DOMAIN e.sub :
           e.sub[i].list = e.sub[j].list /\ e.sub[i].address = e.sub[j].address => i = j
    BY InsertSubRows, <2>1 DEF GoodDb, UniqueRows, At
  <2>3. \A i, j \in DOMAIN e.cand :
           e.cand[i].list = e.cand[j].list /\ e.cand[i].address = e.cand[j].address => i = j
    BY InsertSubRows DEF GoodDb, UniqueRows
  <2>4. QED
    BY InsertSubRows, <2>2, <2>3 DEF GoodDb, UniqueRows
<1>2. NoDanglingAccount(e)
  <2>1. acc \in DOMAIN d.account \cup {NoPk}
    BY DEF CanInsertSub
  <2>2. QED
    BY <2>1, InsertSubRows, LinkType DEF GoodDb, NoDanglingAccount
<1>3. AcceptedIsSubscribed(e)
  <2> SUFFICES ASSUME NEW c \in DOMAIN d.cand, e.cand[c].accepted # NoPk
               PROVE  /\ e.cand[c].accepted \in DOMAIN e.sub
                      /\ At(e.sub[e.cand[c].accepted], d.cand[c].list, d.cand[c].address)
    BY InsertSubRows DEF AcceptedIsSubscribed
  <2>1. CASE At(d.cand[c], l, a)
    BY InsertSubRows, <2>1 DEF At
  <2>2. CASE ~At(d.cand[c], l, a)
    BY InsertSubRows, <2>2 DEF GoodDb, AcceptedIsSubscribed, At
  <2>3. QED
    BY <2>1, <2>2
<1>4. QED
  BY InsertSubRows, <1>1, <1>2, <1>3 DEF GoodDb

\* Links stay right when the row names no account (the trigger finds the right
\* one) or the account of its own address.
LEMMA InsertSubLinks ==
    ASSUME NEW d \in Db, LinkedToOwnAccount(d),
           NEW p \in Pk, NEW l \in List, NEW a \in Address, NEW acc,
           CanInsertSub(d, p, l, a, acc),
           acc # NoPk => d.account[acc] = a,
           NEW e, e = InsertSub(d, p, l, a, acc)
    PROVE  LinkedToOwnAccount(e)
<1>1. acc \in DOMAIN d.account \cup {NoPk}
  BY DEF CanInsertSub
<1>2. /\ Link(d, a, acc) # NoPk => /\ Link(d, a, acc) \in DOMAIN d.account
                                  /\ d.account[Link(d, a, acc)] = a
      /\ HasAccount(d, a) => Link(d, a, acc) # NoPk
  BY <1>1, LinkType, DbFields, NoPkFresh DEF Link
<1>3. \A x \in Address : HasAccount(e, x) <=> HasAccount(d, x)
  BY InsertSubRows DEF HasAccount
<1>4. \A k \in DOMAIN d.sub : d.sub[k].address \in Address
  BY DbFields DEF SubRow
<1>5. QED
  BY InsertSubRows, <1>2, <1>3, <1>4 DEF LinkedToOwnAccount

\* The accept_candidate trigger: nobody is left waiting by being subscribed.
LEMMA InsertSubWaits ==
    ASSUME NEW d \in Db, NoSubscriberWaits(d),
           NEW p \in Pk, NEW l \in List, NEW a \in Address, NEW acc,
           CanInsertSub(d, p, l, a, acc),
           NEW e, e = InsertSub(d, p, l, a, acc)
    PROVE  NoSubscriberWaits(e)
<1> SUFFICES ASSUME NEW c \in DOMAIN d.cand,
                    Subscribed(e, d.cand[c].list, d.cand[c].address)
             PROVE  e.cand[c].accepted # NoPk
  BY InsertSubRows DEF NoSubscriberWaits
<1>1. CASE At(d.cand[c], l, a)
  BY <1>1, InsertSubRows, NoPkFresh
<1>2. CASE ~At(d.cand[c], l, a)
  <2>1. Subscribed(d, d.cand[c].list, d.cand[c].address)
    BY <1>2, InsertSubRows DEF Subscribed, At
  <2>2. QED
    BY <1>2, <2>1, InsertSubRows DEF NoSubscriberWaits
<1>3. QED
  BY <1>1, <1>2

-------------------------------------------------------------------------------
(***************************************************************************)
(* INSERT INTO candidate_subscription                                      *)
(***************************************************************************)
LEMMA InsertCandRows ==
    ASSUME NEW d \in Db, NEW p \in Pk, NEW l \in List, NEW a \in Address,
           CanInsertCand(d, p, l, a),
           NEW e, e = InsertCand(d, p, l, a)
    PROVE  /\ e \in Db
           /\ p \notin DOMAIN d.cand
           /\ DOMAIN e.cand = DOMAIN d.cand \cup {p}
           /\ \A c \in DOMAIN d.cand : e.cand[c] = d.cand[c]
           /\ e.cand[p].list = l /\ e.cand[p].address = a /\ e.cand[p].accepted = NoPk
           /\ e.sub = d.sub /\ e.account = d.account
<1>1. p \notin DOMAIN d.cand
  BY DbFields DEF CanInsertCand, IsNextPk, Pk
<1>2. e.cand \in [DOMAIN d.cand \cup {p} -> CandRow]
  BY <1>1, DbFields DEF InsertCand, CandRow
<1>3. e.cand \in Rows(CandRow)
  BY <1>2, DbFields, RowsIntro
<1>4. QED
  BY <1>1, <1>3 DEF InsertCand, Db

\* A new candidacy names no subscription, so it disturbs nothing; and it leaves
\* no subscriber waiting when its address is not subscribed.
LEMMA InsertCandGood ==
    ASSUME NEW d \in Db, NEW p \in Pk, NEW l \in List, NEW a \in Address,
           CanInsertCand(d, p, l, a),
           NEW e, e = InsertCand(d, p, l, a)
    PROVE  /\ e \in Db
           /\ GoodDb(d) => GoodDb(e)
           /\ LinkedToOwnAccount(d) => LinkedToOwnAccount(e)
           /\ NoSubscriberWaits(d) /\ ~Subscribed(d, l, a) => NoSubscriberWaits(e)
<1>1. \A c \in DOMAIN d.cand : ~At(d.cand[c], l, a)
  BY DEF CanInsertCand, Candidate
<1>2. UniqueRows(d) => UniqueRows(e)
  BY <1>1, InsertCandRows DEF UniqueRows, At
<1>3. NoDanglingAccount(d) => NoDanglingAccount(e)
  BY InsertCandRows DEF NoDanglingAccount
<1>4. AcceptedIsSubscribed(d) => AcceptedIsSubscribed(e)
  BY InsertCandRows DEF AcceptedIsSubscribed
<1>5. LinkedToOwnAccount(d) => LinkedToOwnAccount(e)
  BY InsertCandRows DEF LinkedToOwnAccount, HasAccount
<1>6. NoSubscriberWaits(d) /\ ~Subscribed(d, l, a) => NoSubscriberWaits(e)
  BY InsertCandRows DEF NoSubscriberWaits, Subscribed
<1>7. QED
  BY InsertCandRows, <1>2, <1>3, <1>4, <1>5, <1>6 DEF GoodDb

-------------------------------------------------------------------------------
(***************************************************************************)
(* INSERT INTO account                                                     *)
(***************************************************************************)
LEMMA InsertAccountRows ==
    ASSUME NEW d \in Db, NEW p \in Pk, NEW a \in Address,
           CanInsertAccount(d, p, a),
           NEW e, e = InsertAccount(d, p, a)
    PROVE  /\ e \in Db
           /\ p \notin DOMAIN d.account
           /\ DOMAIN e.account = DOMAIN d.account \cup {p}
           /\ \A x \in DOMAIN d.account : e.account[x] = d.account[x]
           /\ e.account[p] = a
           /\ DOMAIN e.sub = DOMAIN d.sub
           /\ \A k \in DOMAIN d.sub :
                /\ e.sub[k].list = d.sub[k].list
                /\ e.sub[k].address = d.sub[k].address
                /\ e.sub[k].account = IF d.sub[k].address = a THEN p ELSE d.sub[k].account
           /\ e.cand = d.cand
<1>1. p \notin DOMAIN d.account
  BY DbFields DEF CanInsertAccount, IsNextPk, Pk
<1>2. e.sub \in [DOMAIN d.sub -> SubRow]
  BY DbFields DEF InsertAccount, SubRow
<1>3. e.account \in [DOMAIN d.account \cup {p} -> Address]
  BY DbFields DEF InsertAccount
<1>4. e \in Db
  <2>1. e.sub \in Rows(SubRow)
    BY <1>2, DbFields, RowsIntro
  <2>2. e.account \in Rows(Address)
    BY <1>3, DbFields, RowsIntro
  <2>3. QED
    BY <2>1, <2>2 DEF InsertAccount, Db
<1>5. ASSUME NEW k \in DOMAIN d.sub
      PROVE  /\ e.sub[k].list = d.sub[k].list
             /\ e.sub[k].address = d.sub[k].address
             /\ e.sub[k].account = IF d.sub[k].address = a THEN p ELSE d.sub[k].account
  <2>1. d.sub[k] \in SubRow
    BY DbFields
  <2>2. e.sub[k] = IF d.sub[k].address = a THEN [d.sub[k] EXCEPT !.account = p] ELSE d.sub[k]
    BY DEF InsertAccount
  <2>3. QED
    BY <2>1, <2>2 DEF SubRow
<1>6. QED
  BY <1>1, <1>4, <1>5 DEF InsertAccount

\* The add_account trigger relinks every subscription of the new account's
\* address, so the links stay right even if some were NULL before.
LEMMA InsertAccountGood ==
    ASSUME NEW d \in Db, NEW p \in Pk, NEW a \in Address,
           CanInsertAccount(d, p, a),
           NEW e, e = InsertAccount(d, p, a)
    PROVE  /\ e \in Db
           /\ GoodDb(d) => GoodDb(e)
           /\ LinkedToOwnAccount(d) => LinkedToOwnAccount(e)
           /\ NoSubscriberWaits(d) => NoSubscriberWaits(e)
<1>1. \A x \in DOMAIN d.account : d.account[x] # a
  BY DEF CanInsertAccount, HasAccount
<1>2. UniqueRows(d) => UniqueRows(e)
  BY <1>1, InsertAccountRows DEF UniqueRows
<1>3. NoDanglingAccount(d) => NoDanglingAccount(e)
  BY InsertAccountRows DEF NoDanglingAccount
<1>4. AcceptedIsSubscribed(d) => AcceptedIsSubscribed(e)
  BY InsertAccountRows DEF AcceptedIsSubscribed, At
<1>5. LinkedToOwnAccount(d) => LinkedToOwnAccount(e)
  BY InsertAccountRows, NoPkFresh DEF LinkedToOwnAccount, HasAccount
<1>6. NoSubscriberWaits(d) => NoSubscriberWaits(e)
  BY InsertAccountRows DEF NoSubscriberWaits, Subscribed, At
<1>7. QED
  BY InsertAccountRows, <1>2, <1>3, <1>4, <1>5, <1>6 DEF GoodDb

-------------------------------------------------------------------------------
(***************************************************************************)
(* DELETE FROM subscription, DELETE FROM account                           *)
(***************************************************************************)
LEMMA DeleteSubRows ==
    ASSUME NEW d \in Db, NEW l \in List, NEW a \in Address,
           NEW e, e = DeleteSub(d, l, a)
    PROVE  /\ e \in Db
           /\ \A k : k \in DOMAIN e.sub <=> k \in DOMAIN d.sub /\ ~At(d.sub[k], l, a)
           /\ \A k \in DOMAIN e.sub : e.sub[k] = d.sub[k]
           /\ \A c : c \in DOMAIN e.cand <=>
                /\ c \in DOMAIN d.cand
                /\ ~ (/\ d.cand[c].accepted \in DOMAIN d.sub
                      /\ At(d.sub[d.cand[c].accepted], l, a))
           /\ \A c \in DOMAIN e.cand : e.cand[c] = d.cand[c]
           /\ e.account = d.account
<1> DEFINE gone  == {k \in DOMAIN d.sub : At(d.sub[k], l, a)}
           stays == {c \in DOMAIN d.cand : d.cand[c].accepted \notin gone}
<1>1. e = [sub  |-> [k \in DOMAIN d.sub \ gone |-> d.sub[k]],
           cand |-> [c \in stays |-> d.cand[c]],
           account |-> d.account]
  BY DEF DeleteSub
<1>2. e.sub \in [DOMAIN d.sub \ gone -> SubRow] /\ e.cand \in [stays -> CandRow]
  BY <1>1, DbFields
<1>3. e \in Db
  <2>1. e.sub \in Rows(SubRow)
    BY <1>2, DbFields, RowsIntro
  <2>2. e.cand \in Rows(CandRow)
    BY <1>2, DbFields, RowsIntro
  <2>3. QED
    BY <1>1, <2>1, <2>2 DEF Db
<1>4. QED
  BY <1>1, <1>3

\* The cascade keeps `accepted` meaningful: a candidacy that would name a
\* deleted row, whose key the next subscription gets, is deleted with it.
LEMMA DeleteSubGood ==
    ASSUME NEW d \in Db, NEW l \in List, NEW a \in Address,
           NEW e, e = DeleteSub(d, l, a)
    PROVE  /\ e \in Db
           /\ GoodDb(d) => GoodDb(e)
           /\ LinkedToOwnAccount(d) => LinkedToOwnAccount(e)
           /\ NoSubscriberWaits(d) => NoSubscriberWaits(e)
<1>1. UniqueRows(d) => UniqueRows(e)
  BY DeleteSubRows DEF UniqueRows
<1>2. NoDanglingAccount(d) => NoDanglingAccount(e)
  BY DeleteSubRows DEF NoDanglingAccount
<1>3. AcceptedIsSubscribed(d) => AcceptedIsSubscribed(e)
  BY DeleteSubRows DEF AcceptedIsSubscribed
<1>4. LinkedToOwnAccount(d) => LinkedToOwnAccount(e)
  BY DeleteSubRows DEF LinkedToOwnAccount, HasAccount
<1>5. NoSubscriberWaits(d) => NoSubscriberWaits(e)
  BY DeleteSubRows DEF NoSubscriberWaits, Subscribed
<1>6. QED
  BY DeleteSubRows, <1>1, <1>2, <1>3, <1>4, <1>5 DEF GoodDb

LEMMA DeleteAccountsRows ==
    ASSUME NEW d \in Db, NEW S, NEW e, e = DeleteAccounts(d, S)
    PROVE  /\ e \in Db
           /\ DOMAIN e.account = DOMAIN d.account \ S
           /\ \A x \in DOMAIN e.account : e.account[x] = d.account[x]
           /\ DOMAIN e.sub = DOMAIN d.sub
           /\ \A k \in DOMAIN d.sub :
                /\ e.sub[k].list = d.sub[k].list
                /\ e.sub[k].address = d.sub[k].address
                /\ e.sub[k].account = IF d.sub[k].account \in S THEN NoPk ELSE d.sub[k].account
           /\ e.cand = d.cand
<1>1. e.sub \in [DOMAIN d.sub -> SubRow] /\ e.account \in [DOMAIN d.account \ S -> Address]
  BY DbFields DEF DeleteAccounts, SubRow
<1>2. e \in Db
  <2>1. e.sub \in Rows(SubRow)
    BY <1>1, DbFields, RowsIntro
  <2>2. e.account \in Rows(Address)
    BY <1>1, DbFields, RowsIntro
  <2>3. QED
    BY <2>1, <2>2 DEF DeleteAccounts, Db
<1>3. ASSUME NEW k \in DOMAIN d.sub
      PROVE  /\ e.sub[k].list = d.sub[k].list
             /\ e.sub[k].address = d.sub[k].address
             /\ e.sub[k].account = IF d.sub[k].account \in S THEN NoPk ELSE d.sub[k].account
  <2>1. d.sub[k] \in SubRow
    BY DbFields
  <2>2. e.sub[k] = IF d.sub[k].account \in S THEN [d.sub[k] EXCEPT !.account = NoPk] ELSE d.sub[k]
    BY DEF DeleteAccounts
  <2>3. QED
    BY <2>1, <2>2 DEF SubRow
<1>4. QED
  BY <1>2, <1>3 DEF DeleteAccounts

\* ON DELETE SET NULL keeps every remaining link right: a key that is used
\* again by the next account is linked nowhere.
LEMMA DeleteAccountsGood ==
    ASSUME NEW d \in Db, NEW S, NEW e, e = DeleteAccounts(d, S)
    PROVE  /\ e \in Db
           /\ GoodDb(d) => GoodDb(e)
           /\ LinkedToOwnAccount(d) /\ UniqueRows(d) => LinkedToOwnAccount(e)
           /\ NoSubscriberWaits(d) => NoSubscriberWaits(e)
<1>1. UniqueRows(d) => UniqueRows(e)
  BY DeleteAccountsRows DEF UniqueRows
<1>2. NoDanglingAccount(d) => NoDanglingAccount(e)
  BY DeleteAccountsRows DEF NoDanglingAccount
<1>3. AcceptedIsSubscribed(d) => AcceptedIsSubscribed(e)
  BY DeleteAccountsRows DEF AcceptedIsSubscribed, At
<1>4. LinkedToOwnAccount(d) /\ UniqueRows(d) => LinkedToOwnAccount(e)
  BY DeleteAccountsRows DEF LinkedToOwnAccount, HasAccount, UniqueRows
<1>5. NoSubscriberWaits(d) => NoSubscriberWaits(e)
  BY DeleteAccountsRows DEF NoSubscriberWaits, Subscribed, At
<1>6. QED
  BY DeleteAccountsRows, <1>1, <1>2, <1>3, <1>4, <1>5 DEF GoodDb

-------------------------------------------------------------------------------

(***************************************************************************)
(* The inductive invariant.  The properties speak of the committed image,  *)
(* but a commit publishes whatever a transaction built, so the images      *)
(* inside transactions must satisfy them as well; and because the lock     *)
(* keeps `db` still while a transaction is open, what holds of `db` at its *)
(* beginning may be assumed until its end (Carried).                       *)
(***************************************************************************)
Carried(old, new) ==
    /\ LinkedToOwnAccount(old) => LinkedToOwnAccount(new)
    /\ NoSubscriberWaits(old) => NoSubscriberWaits(new)

IInv ==
    /\ TypeOK
    /\ GoodDb(db)
    /\ \A w \in Writer :
         /\ GoodDb(writer[w].work)
         /\ writer[w].pc = "tx" => Carried(db, writer[w].work)
         /\ writer[w].pc \in {"auto", "insert"} => writer[w].approval

LEMMA InitIInv == Init => IInv
<1> SUFFICES ASSUME Init PROVE IInv
  OBVIOUS
<1>1. AnyList \in List
  BY ListAssumption DEF AnyList
<1>2. IdleWriter \in WriterState /\ IdleWeb \in WebState /\ IdleAccept \in AcceptState
  BY <1>1, EmptyDbGood DEF IdleWriter, IdleWeb, IdleAccept, WriterState, WebState, AcceptState
<1>3. TypeOK
  BY <1>2, EmptyDbGood, WriterAssumption DEF Init, TypeOK, IdleWriter
<1>4. QED
  BY <1>3, EmptyDbGood DEF Init, IInv, IdleWriter

\* A step that commits one statement while no transaction is open.
LEMMA StatementStep ==
    ASSUME IInv, Unlocked,
           db' \in Db, GoodDb(db'),
           UNCHANGED <<lock, writer, approval>>,
           web' \in [WebUser -> WebState], accept' \in AcceptState
    PROVE  IInv'
<1>1. TypeOK'
  BY DEF IInv, TypeOK
<1>2. \A w \in Writer : writer[w].pc # "tx"
  BY WriterAssumption DEF IInv, TypeOK, Unlocked
<1>3. QED
  BY <1>1, <1>2 DEF IInv

\* A step that changes no image.
LEMMA ReadStep ==
    ASSUME IInv, UNCHANGED <<db, lock, writer>>,
           web' \in [WebUser -> WebState], accept' \in AcceptState,
           approval' \in [List -> BOOLEAN]
    PROVE  IInv'
<1>1. TypeOK'
  BY DEF IInv, TypeOK
<1>2. QED
  BY <1>1 DEF IInv

\* A step of one writer: the other writers keep their states.
LEMMA WriterChange ==
    ASSUME IInv, NEW w \in Writer,
           NEW s \in WriterState, writer' = [writer EXCEPT ![w] = s],
           lock' \in Writer \cup {NoWriter},
           \A v \in Writer \ {w} : lock' = v <=> lock = v,
           s.pc = "tx" <=> lock' = w,
           s.pc = "insert" => s.froms # << >>,
           db' \in Db, GoodDb(db'), GoodDb(s.work),
           s.pc = "tx" => Carried(db', s.work),
           s.pc \in {"auto", "insert"} => s.approval,
           db' = db \/ (lock \in {w, NoWriter}),
           UNCHANGED <<web, accept, approval>>
    PROVE  IInv'
<1>1. writer' \in [Writer -> WriterState] /\ writer'[w] = s
      /\ \A v \in Writer \ {w} : writer'[v] = writer[v]
  BY DEF IInv, TypeOK
<1>2. TypeOK'
  BY <1>1 DEF IInv, TypeOK
<1>3. ASSUME NEW v \in Writer
      PROVE  /\ GoodDb(writer'[v].work)
             /\ writer'[v].pc = "tx" => Carried(db', writer'[v].work)
             /\ writer'[v].pc \in {"auto", "insert"} => writer'[v].approval
  <2>1. CASE v = w
    BY <1>1, <2>1
  <2>2. CASE v # w
    <3>1. writer[v].pc = "tx" => db' = db
      BY <2>2, WriterAssumption DEF IInv, TypeOK
    <3>2. QED
      BY <1>1, <2>2, <3>1 DEF IInv
  <2>3. QED
    BY <2>1, <2>2
<1>4. QED
  BY <1>2, <1>3 DEF IInv

\* An address served inside the transaction.
LEMMA ServedStep ==
    ASSUME IInv, NEW w \in Writer, writer[w].pc = "tx", writer[w].froms # << >>,
           NEW image \in Db, GoodDb(image), Carried(writer[w].work, image),
           NEW rest \in Seq(Address),
           writer' = [writer EXCEPT ![w].froms = rest, ![w].work = image],
           UNCHANGED <<db, lock, web, accept, approval>>
    PROVE  IInv'
<1> DEFINE s == [writer[w] EXCEPT !.froms = rest, !.work = image]
<1>1. writer[w] \in WriterState
  BY DEF IInv, TypeOK
<1>2. s \in WriterState /\ s.pc = "tx" /\ s.work = image
  BY <1>1 DEF WriterState
<1>3. writer' = [writer EXCEPT ![w] = s]
  BY DEF IInv, TypeOK
<1>4. Carried(db, image)
  BY DEF IInv, Carried
<1>5. lock = w
  BY DEF IInv, TypeOK
<1> HIDE DEF s
<1>6. QED
  BY <1>2, <1>3, <1>4, <1>5, WriterChange DEF IInv, TypeOK

LEMMA ReleaseStep ==
    ASSUME IInv, NEW w \in Writer, Release(w), db' = db \/ lock = w, db' \in Db, GoodDb(db')
    PROVE  IInv'
<1>1. IdleWriter \in WriterState
  BY ListAssumption, EmptyDbGood DEF IdleWriter, WriterState, AnyList
<1>2. QED
  BY <1>1, EmptyDbGood, WriterAssumption, WriterChange
     DEF Release, IdleWriter, IInv, TypeOK

-------------------------------------------------------------------------------
(***************************************************************************)
(* The steps of a writer                                                   *)
(***************************************************************************)
LEMMA WriterFacts ==
    ASSUME IInv, NEW w \in Writer
    PROVE  /\ writer[w] \in WriterState
           /\ writer[w].list \in List /\ writer[w].work \in Db /\ GoodDb(writer[w].work)
           /\ writer[w].froms \in Seq(Address)
           /\ writer[w].froms # << >> =>
                /\ Sender(w) \in Address
                /\ Tail(writer[w].froms) \in Seq(Address)
           /\ << >> \in Seq(Address)
BY DEF IInv, TypeOK, WriterState, Sender

\* Serving an address with a statement that keeps the image good.
LEMMA ServedGood ==
    ASSUME IInv, NEW w \in Writer, NEW job, InTx(w, job),
           NEW image \in Db, GoodDb(image), Carried(writer[w].work, image),
           Served(w, image)
    PROVE  IInv'
<1>1. PICK rest \in {Tail(writer[w].froms), << >>} :
        writer' = [writer EXCEPT ![w].froms = rest, ![w].work = image]
  BY DEF Served
<1>2. rest \in Seq(Address)
  BY WriterFacts DEF InTx
<1>3. QED
  BY <1>1, <1>2, ServedStep DEF Served, InTx

LEMMA TransactionStep ==
    ASSUME IInv, NEW w \in Writer,
           \/ MailAlreadySubscribed(w) \/ MailJoin(w) \/ MailAsk(w)
           \/ MailLeave(w) \/ MailPassword(w) \/ ImportOne(w)
    PROVE  IInv'
<1> DEFINE d == writer[w].work
           l == writer[w].list
           a == Sender(w)
<1>0. /\ d \in Db /\ GoodDb(d) /\ l \in List /\ writer[w].froms # << >>
      /\ a \in Address /\ writer[w].pc = "tx" /\ Tail(writer[w].froms) \in Seq(Address)
  BY WriterFacts DEF MailAlreadySubscribed, MailJoin, MailAsk, MailLeave, MailPassword,
     ImportOne, InTx
<1>1. CASE MailAlreadySubscribed(w)
  BY <1>0, <1>1, ServedGood DEF MailAlreadySubscribed, Carried
<1>2. ASSUME NEW p \in Pk, CanInsertSub(d, p, l, a, NoPk)
      PROVE  /\ InsertSub(d, p, l, a, NoPk) \in Db
             /\ GoodDb(InsertSub(d, p, l, a, NoPk))
             /\ Carried(d, InsertSub(d, p, l, a, NoPk))
  BY <1>0, <1>2, InsertSubGood, InsertSubLinks, InsertSubWaits DEF Carried
<1>3. CASE MailJoin(w)
  <2>1. PICK p \in Pk : /\ CanInsertSub(d, p, l, a, NoPk)
                        /\ Served(w, InsertSub(d, p, l, a, NoPk))
    BY <1>3 DEF MailJoin
  <2>2. InTx(w, "subscribe")
    BY <1>3 DEF MailJoin
  <2>3. QED
    BY <1>2, <2>1, <2>2, ServedGood
<1>4. CASE MailAsk(w)
  <2>1. PICK p \in Pk : /\ CanInsertCand(d, p, l, a)
                        /\ Served(w, InsertCand(d, p, l, a))
    BY <1>4 DEF MailAsk
  <2>2. InTx(w, "subscribe") /\ ~Subscribed(d, l, a)
    BY <1>4 DEF MailAsk
  <2>3. /\ InsertCand(d, p, l, a) \in Db /\ GoodDb(InsertCand(d, p, l, a))
        /\ Carried(d, InsertCand(d, p, l, a))
    BY <1>0, <2>1, <2>2, InsertCandGood DEF Carried
  <2>4. QED
    BY <2>1, <2>2, <2>3, ServedGood
<1>5. CASE MailLeave(w)
  <2>1. /\ DeleteSub(d, l, a) \in Db /\ GoodDb(DeleteSub(d, l, a))
        /\ Carried(d, DeleteSub(d, l, a))
    BY <1>0, DeleteSubGood DEF Carried
  <2>2. QED
    BY <1>5, <2>1, ServedGood DEF MailLeave
<1>6. CASE MailPassword(w)
  <2>1. InTx(w, "password")
    BY <1>6 DEF MailPassword
  <2>2. CASE Served(w, d)
    BY <1>0, <2>1, <2>2, ServedGood DEF Carried
  <2>3. ASSUME NEW p \in Pk, CanInsertAccount(d, p, a), Served(w, InsertAccount(d, p, a))
        PROVE  IInv'
    <3>1. /\ InsertAccount(d, p, a) \in Db /\ GoodDb(InsertAccount(d, p, a))
          /\ Carried(d, InsertAccount(d, p, a))
      BY <1>0, <2>3, InsertAccountGood DEF Carried
    <3>2. QED
      BY <2>1, <2>3, <3>1, ServedGood
  <2>4. QED
    BY <1>6, <2>2, <2>3 DEF MailPassword
<1>7. CASE ImportOne(w)
  <2>1. PICK p \in Pk :
          /\ CanInsertSub(d, p, l, a, NoPk)
          /\ writer' = [writer EXCEPT ![w].froms = Tail(writer[w].froms),
                                      ![w].work = InsertSub(d, p, l, a, NoPk)]
    BY <1>7 DEF ImportOne
  <2>2. UNCHANGED <<db, lock, web, accept, approval>>
    BY <1>7 DEF ImportOne
  <2>3. QED
    BY <1>0, <1>2, <2>1, <2>2, ServedStep
<1>8. QED
  BY <1>1, <1>3, <1>4, <1>5, <1>6, <1>7

\* Beginning, ending and losing a transaction.
LEMMA BeginStep ==
    ASSUME IInv, NEW w \in Writer, Begin(w)
    PROVE  IInv'
<1>1. PICK job \in Jobs, l \in List, f \in Froms :
        writer' = [writer EXCEPT ![w] = [pc |-> "tx", job |-> job, list |-> l, froms |-> f,
                                         approval |-> approval[l], work |-> db]]
  BY DEF Begin
<1> DEFINE s == [pc |-> "tx", job |-> job, list |-> l, froms |-> f,
                 approval |-> approval[l], work |-> db]
<1>2. s \in WriterState
  BY FromsAssumption DEF WriterState, IInv, TypeOK
<1>3. s.pc = "tx" /\ s.work = db
  OBVIOUS
<1>4. QED
  BY <1>1, <1>2, <1>3, WriterAssumption, WriterChange
     DEF Begin, Unlocked, IInv, TypeOK, Carried

LEMMA EndStep ==
    ASSUME IInv, NEW w \in Writer,
           ImportConflict(w) \/ Commit(w) \/ Crash(w) \/ AutoEnd(w)
    PROVE  IInv'
<1>1. CASE Commit(w)
  <2>1. lock = w /\ db' = writer[w].work
    BY <1>1 DEF Commit, IInv, TypeOK
  <2>2. QED
    BY <1>1, <2>1, WriterFacts, ReleaseStep DEF Commit
<1>2. CASE ImportConflict(w) \/ Crash(w) \/ AutoEnd(w)
  BY <1>2, ReleaseStep DEF ImportConflict, Crash, AutoEnd, IInv, TypeOK
<1>3. QED
  BY <1>1, <1>2

LEMMA RollbackStep ==
    ASSUME IInv, NEW w \in Writer, MailAskAgain(w)
    PROVE  IInv'
<1>1. PICK rest \in {Tail(writer[w].froms), << >>} :
        writer' = [writer EXCEPT ![w].pc = "auto", ![w].froms = rest, ![w].work = EmptyDb]
  BY DEF MailAskAgain
<1> DEFINE s == [writer[w] EXCEPT !.pc = "auto", !.froms = rest, !.work = EmptyDb]
<1>2. rest \in Seq(Address)
  BY WriterFacts DEF MailAskAgain, InTx
<1>3. /\ s \in WriterState /\ s.pc = "auto" /\ s.work = EmptyDb
      /\ s.approval = writer[w].approval
  BY <1>2, WriterFacts, EmptyDbGood DEF WriterState
<1>4. writer' = [writer EXCEPT ![w] = s]
  BY <1>1 DEF IInv, TypeOK
<1>5. lock = w /\ lock' = NoWriter /\ writer[w].approval
  BY DEF MailAskAgain, InTx, IInv, TypeOK
<1>6. UNCHANGED <<db, web, accept, approval>>
  BY DEF MailAskAgain
<1> HIDE DEF s
<1>7. QED
  BY <1>3, <1>4, <1>5, <1>6, EmptyDbGood, WriterAssumption, WriterChange DEF IInv, TypeOK

LEMMA AutocommitStep ==
    ASSUME IInv, NEW w \in Writer, AutoCheck(w) \/ AutoAsk(w)
    PROVE  IInv'
<1>0. /\ writer[w].pc \in {"auto", "insert"} /\ writer[w].approval
      /\ writer[w].froms # << >> /\ lock # w
      /\ UNCHANGED <<lock, web, accept, approval>>
  BY DEF AutoCheck, AutoAsk, IInv, TypeOK
<1>1. ASSUME NEW s \in WriterState, writer' = [writer EXCEPT ![w] = s],
             s.pc \in {"auto", "insert"}, s.approval, s.froms = << >> => s.pc = "auto",
             GoodDb(s.work), db' \in Db, GoodDb(db'), db' = db \/ Unlocked
      PROVE  IInv'
  BY <1>0, <1>1, WriterChange DEF IInv, TypeOK, Unlocked
<1>2. ASSUME NEW pc \in {"auto", "insert"}, NEW rest \in Seq(Address),
             rest = << >> => pc = "auto",
             writer' = [writer EXCEPT ![w] = [writer[w] EXCEPT !.pc = pc, !.froms = rest]],
             db' \in Db, GoodDb(db'), db' = db \/ Unlocked
      PROVE  IInv'
  <2> DEFINE s == [writer[w] EXCEPT !.pc = pc, !.froms = rest]
  <2>1. /\ s \in WriterState /\ s.pc = pc /\ s.froms = rest
        /\ s.work = writer[w].work /\ s.approval = writer[w].approval
    BY WriterFacts DEF WriterState
  <2>2. writer' = [writer EXCEPT ![w] = s]
    BY <1>2
  <2> HIDE DEF s
  <2>3. QED
    BY <1>0, <1>1, <1>2, <2>1, <2>2, WriterFacts
<1>3. CASE AutoCheck(w)
  <2>0. db' = db /\ writer[w].pc = "auto"
    BY <1>3 DEF AutoCheck
  <2>1. ASSUME NEW rest \in {Tail(writer[w].froms), << >>},
               writer' = [writer EXCEPT ![w].froms = rest]
        PROVE  IInv'
    <3>1. writer' = [writer EXCEPT ![w] = [writer[w] EXCEPT !.pc = "auto", !.froms = rest]]
      BY <2>0, <2>1, WriterFacts DEF IInv, TypeOK, WriterState
    <3>2. rest \in Seq(Address)
      BY <1>0, WriterFacts
    <3>3. QED
      BY <1>2, <2>0, <3>1, <3>2 DEF IInv, TypeOK
  <2>2. ASSUME writer' = [writer EXCEPT ![w].pc = "insert"]
        PROVE  IInv'
    <3>1. writer' = [writer EXCEPT ![w] =
                       [writer[w] EXCEPT !.pc = "insert", !.froms = writer[w].froms]]
      BY <2>2, WriterFacts DEF IInv, TypeOK, WriterState
    <3>2. QED
      BY <1>0, <1>2, <2>0, <3>1, WriterFacts DEF IInv, TypeOK
  <2>3. QED
    BY <1>3, <2>1, <2>2 DEF AutoCheck
<1>4. CASE AutoAsk(w)
  <2>1. PICK rest \in {Tail(writer[w].froms), << >>} :
          writer' = [writer EXCEPT ![w].pc = "auto", ![w].froms = rest]
    BY <1>4 DEF AutoAsk
  <2>2. writer' = [writer EXCEPT ![w] = [writer[w] EXCEPT !.pc = "auto", !.froms = rest]]
    BY <2>1 DEF IInv, TypeOK
  <2>3. db' \in Db /\ GoodDb(db') /\ (db' = db \/ Unlocked)
    BY <1>4, <1>0, WriterFacts, InsertCandGood DEF AutoAsk, IInv, TypeOK
  <2>4. rest \in Seq(Address)
    BY <1>0, WriterFacts
  <2>5. QED
    BY <1>2, <2>2, <2>3, <2>4
<1>5. QED
  BY <1>3, <1>4

-------------------------------------------------------------------------------
(***************************************************************************)
(* Commands, the acceptance of a request, web sessions                     *)
(***************************************************************************)

\* The `from` image of a statement step is good and so is the `to` image.
LEMMA StatementGood ==
    ASSUME IInv, NEW l \in List, NEW a \in Address,
           \/ \E p \in Pk, acc \in Pk \cup {NoPk} :
                CanInsertSub(db, p, l, a, acc) /\ db' = InsertSub(db, p, l, a, acc)
           \/ \E p \in Pk : CanInsertAccount(db, p, a) /\ db' = InsertAccount(db, p, a)
           \/ db' = DeleteSub(db, l, a)
           \/ \E S : db' = DeleteAccounts(db, S)
           \/ db' = db
    PROVE  db' \in Db /\ GoodDb(db')
BY InsertSubGood, InsertAccountGood, DeleteSubGood, DeleteAccountsGood DEF IInv, TypeOK

LEMMA CommandStep ==
    ASSUME IInv, NEW l \in List, NEW a \in Address,
           \/ CliAddSubscription(l, a) \/ CliRemoveSubscription(l, a)
           \/ CliAddAccount(a) \/ CliRemoveAccount(a)
    PROVE  IInv'
<1>1. Unlocked /\ UNCHANGED <<lock, writer, web, accept, approval>>
  BY DEF CliAddSubscription, CliRemoveSubscription, CliAddAccount, CliRemoveAccount
<1>2. db' \in Db /\ GoodDb(db')
  BY StatementGood
     DEF CliAddSubscription, CliRemoveSubscription, CliAddAccount, CliRemoveAccount
<1>3. QED
  BY <1>1, <1>2, StatementStep DEF IInv, TypeOK

LEMMA AcceptInsertStep ==
    ASSUME IInv, NEW c \in Pk, AcceptInsert(c)
    PROVE  IInv'
<1>1. db.cand[c] \in CandRow /\ db.cand[c].list \in List /\ db.cand[c].address \in Address
  BY DbFields DEF AcceptInsert, IInv, TypeOK, CandRow
<1>2. db' \in Db /\ GoodDb(db')
  BY <1>1, StatementGood DEF AcceptInsert
<1>3. accept' \in AcceptState
  BY <1>1 DEF AcceptInsert, AcceptState
<1>4. QED
  BY <1>2, <1>3, StatementStep DEF AcceptInsert, IInv, TypeOK

LEMMA IdleTypes == IdleWeb \in WebState /\ IdleAccept \in AcceptState
BY ListAssumption DEF IdleWeb, IdleAccept, WebState, AcceptState, AnyList

LEMMA AcceptReadStep ==
    ASSUME IInv, AcceptStep
    PROVE  IInv'
<1>1. accept' \in AcceptState
  BY IdleTypes DEF AcceptStep, AcceptFetch, AcceptAssert, AcceptUnwind, IInv, TypeOK, AcceptState
<1>2. QED
  BY <1>1, ReadStep
     DEF AcceptStep, AcceptFetch, AcceptAssert, AcceptUnwind, IInv, TypeOK

LEMMA WebReadStep ==
    ASSUME IInv, NEW u \in WebUser, NEW l \in List,
           WebAccount(u) \/ WebCheckSubscribe(u, l) \/ WebCheckUnsubscribe(u, l)
           \/ WebSubscribeFails(u)
    PROVE  IInv'
<1>1. web[u] \in WebState
  BY DEF IInv, TypeOK
<1>2. HasAccount(db, u) => AccountOf(db, u) \in Pk
  BY DbFields DEF HasAccount, AccountOf, IInv, TypeOK
<1>3. \E s \in WebState : web' = [web EXCEPT ![u] = s]
  <2>1. CASE WebAccount(u)
    <3> DEFINE s == [web[u] EXCEPT !.pc = "account", !.acc = AccountOf(db, u)]
    <3>1. s \in WebState
      BY <1>1, <1>2, <2>1 DEF WebAccount, WebState
    <3>2. web' = [web EXCEPT ![u] = s]
      BY <2>1 DEF WebAccount, IInv, TypeOK
    <3>3. QED
      BY <3>1, <3>2
  <2>2. CASE ~WebAccount(u)
    BY <1>1, <2>2, IdleTypes DEF WebCheckSubscribe, WebCheckUnsubscribe, WebSubscribeFails, WebState
  <2>3. QED
    BY <2>1, <2>2
<1>4. web' \in [WebUser -> WebState]
  BY <1>3 DEF IInv, TypeOK
<1>5. QED
  BY <1>4, ReadStep
     DEF WebAccount, WebCheckSubscribe, WebCheckUnsubscribe, WebSubscribeFails, IInv, TypeOK

LEMMA WebWriteStep ==
    ASSUME IInv, NEW u \in WebUser, WebSubscribe(u) \/ WebUnsubscribe(u)
    PROVE  IInv'
<1>1. web[u] \in WebState /\ web[u].list \in List /\ web[u].acc \in Pk \cup {NoPk} /\ u \in Address
  BY WebUserAssumption DEF IInv, TypeOK, WebState
<1>2. web' \in [WebUser -> WebState]
  BY IdleTypes DEF WebSubscribe, WebUnsubscribe, IInv, TypeOK
<1>3. db' \in Db /\ GoodDb(db')
  BY <1>1, StatementGood DEF WebSubscribe, WebUnsubscribe
<1>4. CASE Unlocked
  BY <1>2, <1>3, <1>4, StatementStep DEF WebSubscribe, WebUnsubscribe, IInv, TypeOK
<1>5. CASE ~Unlocked
  BY <1>2, <1>5, ReadStep DEF WebSubscribe, WebUnsubscribe, IInv, TypeOK
<1>6. QED
  BY <1>4, <1>5

LEMMA SetApprovalStep ==
    ASSUME IInv, NEW l \in List, NEW needed \in BOOLEAN, SetApproval(l, needed)
    PROVE  IInv'
BY ReadStep DEF SetApproval, IInv, TypeOK

LEMMA NextIInv ==
    ASSUME IInv, [Next]_vars
    PROVE  IInv'
<1>1. ASSUME NEW w \in Writer, Begin(w) \/ WriterStep(w) \/ Crash(w)
      PROVE  IInv'
  BY <1>1, BeginStep, TransactionStep, RollbackStep, AutocommitStep, EndStep DEF WriterStep
<1>2. ASSUME NEW u \in WebUser, WebAccount(u) \/ WebStep(u)
      PROVE  IInv'
  BY <1>2, WebReadStep, WebWriteStep, ListAssumption DEF WebStep
<1>3. CASE UNCHANGED vars
  BY <1>3, ReadStep DEF vars, IInv, TypeOK
<1>4. QED
  BY <1>1, <1>2, <1>3, AcceptInsertStep, AcceptReadStep, CommandStep, SetApprovalStep,
     ListAssumption DEF Next

-------------------------------------------------------------------------------
(***************************************************************************)
(* The theorems                                                            *)
(***************************************************************************)

LEMMA Invariance == Spec => []IInv
BY InitIInv, NextIInv, PTL DEF Spec

\* Types, and the lock is held exactly by the process whose transaction is open
\* (TypeOK), for every instance.
THEOREM TypeCorrect == Spec => []TypeOK
<1>1. IInv => TypeOK
  BY DEF IInv
<1>2. QED
  BY <1>1, Invariance, PTL

\* `accepted` and `account` name live rows of the right list and address, though
\* deleted keys are used again (KeysNameTheirRows).
THEOREM ReferencesSurviveKeyReuse == Spec => []KeysNameTheirRows
<1>1. IInv => KeysNameTheirRows
  BY DEF IInv, KeysNameTheirRows, Images, GoodDb
<1>2. QED
  BY <1>1, Invariance, PTL

\* Which steps change the committed image, and to what.
LEMMA ImageChange ==
    ASSUME IInv, [Next]_vars
    PROVE  \/ db' = db
           \/ \E w \in Writer : Carried(db, db') /\ Commit(w)
           \/ \E l \in List, a \in Address, p \in Pk :
                CanInsertSub(db, p, l, a, NoPk) /\ db' = InsertSub(db, p, l, a, NoPk)
           \/ \E u \in WebUser, p \in Pk :
                /\ web[u].pc = "insert" /\ web[u].list \in List
                /\ CanInsertSub(db, p, web[u].list, u, web[u].acc)
                /\ db' = InsertSub(db, p, web[u].list, u, web[u].acc)
           \/ \E w \in Writer, p \in Pk, l \in List, a \in Address :
                /\ writer[w].pc = "insert" /\ writer[w].approval
                /\ CanInsertCand(db, p, l, a) /\ db' = InsertCand(db, p, l, a)
           \/ \E p \in Pk, a \in Address :
                CanInsertAccount(db, p, a) /\ db' = InsertAccount(db, p, a)
           \/ \E l \in List, a \in Address : db' = DeleteSub(db, l, a)
           \/ \E S : db' = DeleteAccounts(db, S)
<1>1. ASSUME NEW w \in Writer, Begin(w) \/ WriterStep(w) \/ Crash(w), db' # db
      PROVE  \/ Carried(db, db') /\ Commit(w)
             \/ \E p \in Pk, l \in List, a \in Address :
                  /\ writer[w].pc = "insert" /\ writer[w].approval
                  /\ CanInsertCand(db, p, l, a) /\ db' = InsertCand(db, p, l, a)
  <2>1. Commit(w) \/ AutoAsk(w)
    BY <1>1 DEF Begin, WriterStep, Crash, MailAlreadySubscribed, MailJoin, MailAsk,
       MailAskAgain, MailLeave, MailPassword, ImportOne, ImportConflict, AutoCheck,
       AutoEnd, Served
  <2>2. CASE Commit(w)
    BY <2>2 DEF Commit, IInv
  <2>3. CASE AutoAsk(w)
    <3>1. /\ writer[w].pc = "insert" /\ writer[w].approval
          /\ writer[w].list \in List /\ Sender(w) \in Address
      BY <2>3, WriterFacts DEF AutoAsk, IInv, TypeOK
    <3>2. QED
      BY <1>1, <2>3, <3>1 DEF AutoAsk
  <2>4. QED
    BY <2>1, <2>2, <2>3
<1>2. ASSUME NEW u \in WebUser, WebAccount(u) \/ WebStep(u), db' # db
      PROVE  \/ \E p \in Pk :
                  /\ web[u].pc = "insert" /\ web[u].list \in List
                  /\ CanInsertSub(db, p, web[u].list, u, web[u].acc)
                  /\ db' = InsertSub(db, p, web[u].list, u, web[u].acc)
             \/ \E l \in List, a \in Address : db' = DeleteSub(db, l, a)
  <2>1. WebSubscribe(u) \/ WebUnsubscribe(u)
    BY <1>2 DEF WebAccount, WebStep, WebCheckSubscribe, WebCheckUnsubscribe, WebSubscribeFails
  <2>2. web[u].list \in List /\ u \in Address
    BY WebUserAssumption DEF IInv, TypeOK, WebState
  <2>3. QED
    BY <1>2, <2>1, <2>2 DEF WebSubscribe, WebUnsubscribe
<1>3. ASSUME NEW c \in Pk, AcceptInsert(c)
      PROVE  \E l \in List, a \in Address, p \in Pk :
                CanInsertSub(db, p, l, a, NoPk) /\ db' = InsertSub(db, p, l, a, NoPk)
  <2>1. db.cand[c].list \in List /\ db.cand[c].address \in Address
    BY <1>3, DbFields DEF AcceptInsert, IInv, TypeOK, CandRow
  <2>2. QED
    BY <1>3, <2>1 DEF AcceptInsert
<1>4. CASE AcceptStep
  BY <1>4 DEF AcceptStep, AcceptFetch, AcceptAssert, AcceptUnwind
<1>5. ASSUME NEW l \in List, NEW a \in Address,
             CliAddSubscription(l, a) \/ CliRemoveSubscription(l, a)
      PROVE  \/ \E p \in Pk :
                  CanInsertSub(db, p, l, a, NoPk) /\ db' = InsertSub(db, p, l, a, NoPk)
             \/ db' = DeleteSub(db, l, a)
  BY <1>5 DEF CliAddSubscription, CliRemoveSubscription
<1>6. ASSUME NEW a \in Address, CliAddAccount(a) \/ CliRemoveAccount(a)
      PROVE  \/ \E p \in Pk : CanInsertAccount(db, p, a) /\ db' = InsertAccount(db, p, a)
             \/ \E S : db' = DeleteAccounts(db, S)
  BY <1>6 DEF CliAddAccount, CliRemoveAccount
<1>7. ASSUME NEW l \in List, NEW needed \in BOOLEAN, SetApproval(l, needed)
      PROVE  db' = db
  BY <1>7 DEF SetApproval
<1>8. CASE UNCHANGED vars
  BY <1>8 DEF vars
<1>9. CASE Next
  <2>1. CASE \E w \in Writer : Begin(w) \/ WriterStep(w) \/ Crash(w)
    BY <1>1, <2>1
  <2>2. CASE \E u \in WebUser : WebAccount(u) \/ WebStep(u)
    BY <1>2, <2>2
  <2>3. CASE \E c \in Pk : AcceptInsert(c)
    BY <1>3, <2>3
  <2>4. CASE \E l \in List, a \in Address : CliAddSubscription(l, a) \/ CliRemoveSubscription(l, a)
    BY <1>5, <2>4
  <2>5. CASE \E a \in Address : CliAddAccount(a) \/ CliRemoveAccount(a)
    BY <1>6, <2>5
  <2>6. QED
    BY <1>4, <1>7, <1>9, <2>1, <2>2, <2>3, <2>4, <2>5 DEF Next
<1>10. QED
  BY <1>8, <1>9

\* Linking a subscription to the wrong account, or leaving it unlinked from its
\* own, takes a web subscription with an account key that has changed hands.
THEOREM OnlyStaleAccountsBreakLinks == Spec => LinkBreaksOnlyByStaleAccount
<1>1. ASSUME IInv, [Next]_vars, LinkedToOwnAccount(db), ~LinkedToOwnAccount(db')
      PROVE  \E u \in WebUser :
               /\ web[u].pc = "insert"
               /\ web[u].acc \in DOMAIN db.account
               /\ db.account[web[u].acc] # u
  <2>1. db \in Db /\ UniqueRows(db) /\ NoPk \notin DOMAIN db.account
    BY <1>1, DbFields, NoPkFresh DEF IInv, TypeOK, GoodDb
  <2>2. PICK u \in WebUser, p \in Pk :
          /\ web[u].pc = "insert" /\ web[u].list \in List
          /\ CanInsertSub(db, p, web[u].list, u, web[u].acc)
          /\ db' = InsertSub(db, p, web[u].list, u, web[u].acc)
    BY <1>1, <2>1, ImageChange, InsertSubLinks, InsertCandGood, InsertAccountGood,
       DeleteSubGood, DeleteAccountsGood DEF Carried
  <2>3. web[u].acc \in DOMAIN db.account \cup {NoPk} /\ u \in Address
    BY <2>2, WebUserAssumption DEF CanInsertSub
  <2>4. ~(web[u].acc # NoPk => db.account[web[u].acc] = u)
    BY <1>1, <2>1, <2>2, <2>3, InsertSubLinks
  <2>5. QED
    BY <2>2, <2>3, <2>4
<1>2. IInv /\ [Next]_vars =>
        [ LinkedToOwnAccount(db) /\ ~LinkedToOwnAccount(db)' =>
            \E u \in WebUser :
               /\ web[u].pc = "insert"
               /\ web[u].acc \in DOMAIN db.account
               /\ db.account[web[u].acc] # u ]_vars
  BY <1>1
<1>3. QED
  BY <1>2, Invariance, PTL DEF Spec, LinkBreaksOnlyByStaleAccount

\* Only a handler that outlived its transaction makes a subscriber wait.
THEOREM OnlyRollbackMakesSubscribersWait == Spec => WaitingSubscriberOnlyAfterRollback
<1>1. ASSUME IInv, [Next]_vars, NoSubscriberWaits(db), ~NoSubscriberWaits(db')
      PROVE  \E w \in Writer : writer[w].pc = "insert" /\ writer[w].approval
  <2>1. db \in Db
    BY <1>1 DEF IInv, TypeOK
  <2>2. WebUser \subseteq Address
    BY WebUserAssumption
  <2>3. QED
    BY <1>1, <2>1, <2>2, ImageChange, InsertSubWaits, InsertAccountGood, DeleteSubGood,
       DeleteAccountsGood DEF Carried
<1>2. IInv /\ [Next]_vars =>
        [ NoSubscriberWaits(db) /\ ~NoSubscriberWaits(db)' =>
            \E w \in Writer : writer[w].pc = "insert" /\ writer[w].approval ]_vars
  BY <1>1
<1>3. QED
  BY <1>2, Invariance, PTL DEF Spec, WaitingSubscriberOnlyAfterRollback
=============================================================================
