--------------------------- MODULE Membership_proofs ---------------------------
(***************************************************************************)
(* Everyone who changes a database of subscriptions together implements    *)
(* Membership, for every set of lists, addresses, processes and web users. *)
(*                                                                         *)
(* A statement that commits on its own is one step of Membership.  What a  *)
(* transaction commits is the work of many statements, so the proof        *)
(* carries, for every open transaction, the one Membership step its image  *)
(* amounts to so far (Built): the lock keeps the image it started from     *)
(* still, and the request's list and its policy were read once.            *)
(***************************************************************************)
EXTENDS Subscriptions_proofs

\* The three kinds of change, between two images.
Joins(old, new, S) ==
    /\ S \cap Members(old) = {}
    /\ Members(new) = Members(old) \cup S
    /\ Waiting(new) = Waiting(old) \ S

Leaves(old, new, S) ==
    /\ S \subseteq Members(old)
    /\ Members(new) = Members(old) \ S
    /\ Waiting(new) = Waiting(old)

Asks(old, new, S) ==
    /\ S \cap Waiting(old) = {}
    /\ Waiting(new) = Waiting(old) \cup S
    /\ Members(new) = Members(old)

SameMembership(old, new) == Members(new) = Members(old) /\ Waiting(new) = Waiting(old)

\* What the transaction in state `s` amounts to, begun when the image was `old`.
Built(old, s) ==
    \E A \in SUBSET Address :
        /\ s.job = "import" => Joins(old, s.work, {s.list} \X A)
        /\ s.job = "subscribe" /\ ~s.approval => Joins(old, s.work, {s.list} \X A)
        /\ s.job = "subscribe" /\ s.approval => Asks(old, s.work, {s.list} \X A)
        /\ s.job = "unsubscribe" => Leaves(old, s.work, {s.list} \X A)
        /\ s.job = "password" => SameMembership(old, s.work)

BuiltInv == \A w \in Writer : writer[w].pc = "tx" => Built(db, writer[w])

-------------------------------------------------------------------------------
(***************************************************************************)
(* What one statement does to membership                                   *)
(***************************************************************************)
LEMMA PairIn ==
    ASSUME NEW l \in List, NEW a \in Address, NEW m \in List \X Address
    PROVE  m \in {l} \X {a} <=> m[1] = l /\ m[2] = a
OBVIOUS

\* A new subscription makes one member, who waits no longer.
LEMMA InsertSubJoins ==
    ASSUME NEW d \in Db, NEW p \in Pk, NEW l \in List, NEW a \in Address, NEW acc,
           CanInsertSub(d, p, l, a, acc),
           NEW e, e = InsertSub(d, p, l, a, acc)
    PROVE  Joins(d, e, {l} \X {a})
<1>1. \A x \in List, y \in Address :
        Subscribed(e, x, y) <=> Subscribed(d, x, y) \/ (x = l /\ y = a)
  BY InsertSubRows DEF Subscribed, At
<1>2. ~Subscribed(d, l, a)
  BY DEF CanInsertSub
<1>3. \A c \in DOMAIN d.cand : At(e.cand[c], l, a) => e.cand[c].accepted # NoPk
  BY InsertSubRows, NoPkFresh DEF At
<1>4. \A x \in List, y \in Address : ~(x = l /\ y = a) =>
        ( (\E c \in DOMAIN e.cand : At(e.cand[c], x, y) /\ e.cand[c].accepted = NoPk)
          <=> (\E c \in DOMAIN d.cand : At(d.cand[c], x, y) /\ d.cand[c].accepted = NoPk) )
  BY InsertSubRows DEF At
<1>5. DOMAIN e.cand = DOMAIN d.cand
  BY InsertSubRows
<1>6. ASSUME NEW m \in List \X Address
      PROVE  /\ m \in Members(e) <=> m \in Members(d) \cup ({l} \X {a})
             /\ m \in Waiting(e) <=> m \in Waiting(d) \ ({l} \X {a})
             /\ ~(m \in {l} \X {a} /\ m \in Members(d))
  BY <1>1, <1>2, <1>3, <1>4, <1>5, PairIn DEF Members, Waiting
<1>7. QED
  BY <1>6 DEF Joins, Members, Waiting

\* A new request makes one address wait.
LEMMA InsertCandAsks ==
    ASSUME NEW d \in Db, NEW p \in Pk, NEW l \in List, NEW a \in Address,
           CanInsertCand(d, p, l, a),
           NEW e, e = InsertCand(d, p, l, a)
    PROVE  Asks(d, e, {l} \X {a})
<1>1. \A x \in List, y \in Address : Subscribed(e, x, y) <=> Subscribed(d, x, y)
  BY InsertCandRows DEF Subscribed
<1>2. \A c \in DOMAIN d.cand : ~At(d.cand[c], l, a)
  BY DEF CanInsertCand, Candidate
<1>3. \A x \in List, y \in Address :
        ( (\E c \in DOMAIN e.cand : At(e.cand[c], x, y) /\ e.cand[c].accepted = NoPk)
          <=> \/ x = l /\ y = a
              \/ \E c \in DOMAIN d.cand : At(d.cand[c], x, y) /\ d.cand[c].accepted = NoPk )
  BY InsertCandRows DEF At
<1>4. ASSUME NEW m \in List \X Address
      PROVE  /\ m \in Members(e) <=> m \in Members(d)
             /\ m \in Waiting(e) <=> m \in Waiting(d) \cup ({l} \X {a})
             /\ ~(m \in {l} \X {a} /\ m \in Waiting(d))
  BY <1>1, <1>2, <1>3, PairIn DEF Members, Waiting
<1>5. QED
  BY <1>4 DEF Asks, Members, Waiting

\* A deleted subscription makes nobody wait: what goes with it was accepted.
LEMMA DeleteSubLeaves ==
    ASSUME NEW d \in Db, NEW l \in List, NEW a \in Address,
           NEW e, e = DeleteSub(d, l, a)
    PROVE  \/ Subscribed(d, l, a) /\ Leaves(d, e, {l} \X {a})
           \/ ~Subscribed(d, l, a) /\ Leaves(d, e, {l} \X {})
<1>1. \A x \in List, y \in Address :
        Subscribed(e, x, y) <=> Subscribed(d, x, y) /\ ~(x = l /\ y = a)
  BY DeleteSubRows DEF Subscribed, At
<1>2. \A c \in DOMAIN d.cand : d.cand[c].accepted = NoPk => c \in DOMAIN e.cand
  BY DeleteSubRows, DbFields, NoPkFresh
<1>3. \A x \in List, y \in Address :
        ( (\E c \in DOMAIN e.cand : At(e.cand[c], x, y) /\ e.cand[c].accepted = NoPk)
          <=> (\E c \in DOMAIN d.cand : At(d.cand[c], x, y) /\ d.cand[c].accepted = NoPk) )
  BY <1>2, DeleteSubRows DEF At
<1>4. ASSUME NEW m \in List \X Address
      PROVE  /\ m \in Members(e) <=> m \in Members(d) \ ({l} \X {a})
             /\ m \in Waiting(e) <=> m \in Waiting(d)
             /\ m \in {l} \X {a} => (m \in Members(d) <=> Subscribed(d, l, a))
  BY <1>1, <1>3, PairIn DEF Members, Waiting
<1>5. \A m \in {l} \X {a} : m \in List \X Address
  OBVIOUS
<1>6. Waiting(e) = Waiting(d) /\ Members(e) = Members(d) \ ({l} \X {a})
  BY <1>4 DEF Members, Waiting
<1>7. CASE Subscribed(d, l, a)
  BY <1>4, <1>5, <1>6, <1>7 DEF Leaves
<1>8. CASE ~Subscribed(d, l, a)
  <2>1. Members(e) = Members(d)
    BY <1>4, <1>5, <1>6, <1>8
  <2>2. {l} \X {} = {}
    OBVIOUS
  <2>3. QED
    BY <1>6, <1>8, <2>1, <2>2 DEF Leaves
<1>9. QED
  BY <1>7, <1>8

\* Accounts are no business of membership.
LEMMA AccountsKeepMembership ==
    ASSUME NEW d \in Db, NEW e,
           \/ \E p \in Pk, a \in Address :
                CanInsertAccount(d, p, a) /\ e = InsertAccount(d, p, a)
           \/ \E S : e = DeleteAccounts(d, S)
    PROVE  SameMembership(d, e)
<1>1. /\ e.cand = d.cand /\ DOMAIN e.sub = DOMAIN d.sub
      /\ \A k \in DOMAIN d.sub : /\ e.sub[k].list = d.sub[k].list
                                 /\ e.sub[k].address = d.sub[k].address
  BY InsertAccountRows, DeleteAccountsRows
<1>2. \A x, y : Subscribed(e, x, y) <=> Subscribed(d, x, y)
  BY <1>1 DEF Subscribed, At
<1>3. QED
  BY <1>1, <1>2 DEF SameMembership, Members, Waiting

-------------------------------------------------------------------------------
(***************************************************************************)
(* What the statements of one transaction amount to together               *)
(***************************************************************************)
LEMMA Compose ==
    ASSUME NEW old, NEW mid, NEW new, NEW l \in List,
           NEW A \in SUBSET Address, NEW B \in SUBSET Address
    PROVE  /\ Joins(old, mid, {l} \X A) /\ Joins(mid, new, {l} \X B) =>
                Joins(old, new, {l} \X (A \cup B))
           /\ Leaves(old, mid, {l} \X A) /\ Leaves(mid, new, {l} \X B) =>
                Leaves(old, new, {l} \X (A \cup B))
           /\ Asks(old, mid, {l} \X A) /\ Asks(mid, new, {l} \X B) =>
                Asks(old, new, {l} \X (A \cup B))
<1> DEFINE S == {l} \X A
           T == {l} \X B
<1>1. {l} \X (A \cup B) = S \cup T
  OBVIOUS
<1> HIDE DEF S, T
<1>2. Joins(old, mid, S) /\ Joins(mid, new, T) => Joins(old, new, S \cup T)
  BY DEF Joins
<1>3. Leaves(old, mid, S) /\ Leaves(mid, new, T) => Leaves(old, new, S \cup T)
  BY DEF Leaves
<1>4. Asks(old, mid, S) /\ Asks(mid, new, T) => Asks(old, new, S \cup T)
  BY DEF Asks
<1>5. QED
  BY <1>1, <1>2, <1>3, <1>4 DEF S, T

\* A transaction that has done nothing yet, whatever it is for.
LEMMA NothingBuilt ==
    ASSUME NEW old, NEW s, s.work = old
    PROVE  Built(old, s)
<1>1. {s.list} \X {} = {}
  OBVIOUS
<1>2. /\ Joins(old, old, {}) /\ Leaves(old, old, {}) /\ Asks(old, old, {})
      /\ SameMembership(old, old)
  BY DEF Joins, Leaves, Asks, SameMembership
<1>3. {} \in SUBSET Address
  OBVIOUS
<1>4. QED
  BY <1>1, <1>2, <1>3 DEF Built

\* A transaction does to membership what its kind of request does, once more.
LEMMA BuildOn ==
    ASSUME NEW old, NEW s, NEW t, NEW B \in SUBSET Address,
           s.list \in List, s.job \in {"import", "subscribe", "unsubscribe", "password"},
           Built(old, s), t.job = s.job, t.list = s.list, t.approval = s.approval,
           \/ SameMembership(s.work, t.work)
           \/ /\ s.job = "import" \/ (s.job = "subscribe" /\ ~s.approval)
              /\ Joins(s.work, t.work, {s.list} \X B)
           \/ s.job = "subscribe" /\ s.approval /\ Asks(s.work, t.work, {s.list} \X B)
           \/ s.job = "unsubscribe" /\ Leaves(s.work, t.work, {s.list} \X B)
    PROVE  Built(old, t)
<1>1. PICK A \in SUBSET Address :
        /\ s.job = "import" => Joins(old, s.work, {s.list} \X A)
        /\ s.job = "subscribe" /\ ~s.approval => Joins(old, s.work, {s.list} \X A)
        /\ s.job = "subscribe" /\ s.approval => Asks(old, s.work, {s.list} \X A)
        /\ s.job = "unsubscribe" => Leaves(old, s.work, {s.list} \X A)
        /\ s.job = "password" => SameMembership(old, s.work)
  BY DEF Built
<1>2. CASE SameMembership(s.work, t.work)
  BY <1>1, <1>2 DEF Built, SameMembership, Joins, Leaves, Asks
<1>3. CASE ~SameMembership(s.work, t.work)
  <2>1. A \cup B \in SUBSET Address
    OBVIOUS
  <2>2. /\ t.job = "import" => Joins(old, t.work, {t.list} \X (A \cup B))
        /\ t.job = "subscribe" /\ ~t.approval => Joins(old, t.work, {t.list} \X (A \cup B))
        /\ t.job = "subscribe" /\ t.approval => Asks(old, t.work, {t.list} \X (A \cup B))
        /\ t.job = "unsubscribe" => Leaves(old, t.work, {t.list} \X (A \cup B))
        /\ t.job # "password"
    BY <1>1, <1>3, Compose
  <2>3. QED
    BY <2>1, <2>2 DEF Built
<1>4. QED
  BY <1>2, <1>3

-------------------------------------------------------------------------------
(***************************************************************************)
(* BuiltInv is invariant                                                   *)
(***************************************************************************)

\* Serving one address builds on what the transaction has done.
LEMMA TransactionBuilds ==
    ASSUME IInv, BuiltInv, NEW w \in Writer,
           \/ MailAlreadySubscribed(w) \/ MailJoin(w) \/ MailAsk(w)
           \/ MailLeave(w) \/ MailPassword(w) \/ ImportOne(w)
    PROVE  Built(db', writer'[w])
<1> DEFINE s == writer[w]
           t == writer'[w]
           l == writer[w].list
           a == Sender(w)
<1>1. /\ s \in WriterState /\ s.pc = "tx" /\ l \in List /\ a \in Address /\ s.work \in Db
      /\ s.job \in {"import", "subscribe", "unsubscribe", "password"}
      /\ {a} \in SUBSET Address /\ {} \in SUBSET Address
      /\ Built(db, s)
  BY WriterFacts, JobsAssumption DEF BuiltInv, MailAlreadySubscribed, MailJoin, MailAsk, MailLeave,
     MailPassword, ImportOne, InTx, WriterState
<1>2. ASSUME NEW image, Served(w, image)
      PROVE  /\ t.job = s.job /\ t.list = l /\ t.approval = s.approval
             /\ t.work = image /\ db' = db
  BY <1>1, <1>2 DEF Served, WriterState, IInv, TypeOK
<1>3. CASE MailAlreadySubscribed(w)
  <2>1. Served(w, s.work)
    BY <1>3 DEF MailAlreadySubscribed
  <2>2. SameMembership(s.work, t.work)
    BY <1>2, <2>1 DEF SameMembership
  <2>3. QED
    BY <1>1, <1>2, <2>1, <2>2, BuildOn
<1>4. CASE MailJoin(w)
  <2>1. PICK p \in Pk : /\ CanInsertSub(s.work, p, l, a, NoPk)
                        /\ Served(w, InsertSub(s.work, p, l, a, NoPk))
    BY <1>4 DEF MailJoin
  <2>2. Joins(s.work, t.work, {l} \X {a})
    BY <1>1, <1>2, <2>1, InsertSubJoins
  <2>3. s.job = "subscribe" /\ ~s.approval
    BY <1>4 DEF MailJoin, InTx
  <2>4. QED
    BY <1>1, <1>2, <2>1, <2>2, <2>3, BuildOn
<1>5. CASE MailAsk(w)
  <2>1. PICK p \in Pk : /\ CanInsertCand(s.work, p, l, a)
                        /\ Served(w, InsertCand(s.work, p, l, a))
    BY <1>5 DEF MailAsk
  <2>2. Asks(s.work, t.work, {l} \X {a})
    BY <1>1, <1>2, <2>1, InsertCandAsks
  <2>3. s.job = "subscribe" /\ s.approval
    BY <1>5 DEF MailAsk, InTx
  <2>4. QED
    BY <1>1, <1>2, <2>1, <2>2, <2>3, BuildOn
<1>6. CASE MailLeave(w)
  <2>1. Served(w, DeleteSub(s.work, l, a)) /\ s.job = "unsubscribe"
    BY <1>6 DEF MailLeave, InTx
  <2>2. Leaves(s.work, t.work, {l} \X {a}) \/ Leaves(s.work, t.work, {l} \X {})
    BY <1>1, <1>2, <2>1, DeleteSubLeaves
  <2>3. QED
    BY <1>1, <1>2, <2>1, <2>2, BuildOn
<1>7. CASE MailPassword(w)
  <2>1. CASE Served(w, s.work)
    <3>1. SameMembership(s.work, t.work)
      BY <1>2, <2>1 DEF SameMembership
    <3>2. QED
      BY <1>1, <1>2, <2>1, <3>1, BuildOn
  <2>2. ASSUME NEW p \in Pk, CanInsertAccount(s.work, p, a),
               Served(w, InsertAccount(s.work, p, a))
        PROVE  Built(db', t)
    <3>1. SameMembership(s.work, t.work)
      BY <1>1, <1>2, <2>2, AccountsKeepMembership
    <3>2. QED
      BY <1>1, <1>2, <2>2, <3>1, BuildOn
  <2>3. QED
    BY <1>7, <2>1, <2>2 DEF MailPassword
<1>8. CASE ImportOne(w)
  <2>1. PICK p \in Pk :
          /\ CanInsertSub(s.work, p, l, a, NoPk)
          /\ writer' = [writer EXCEPT ![w].froms = Tail(writer[w].froms),
                                      ![w].work = InsertSub(s.work, p, l, a, NoPk)]
    BY <1>8 DEF ImportOne
  <2>2. /\ t.job = s.job /\ t.list = l /\ t.approval = s.approval
        /\ t.work = InsertSub(s.work, p, l, a, NoPk) /\ db' = db
    BY <1>1, <1>8, <2>1 DEF ImportOne, WriterState, IInv, TypeOK
  <2>3. Joins(s.work, t.work, {l} \X {a})
    BY <1>1, <2>1, <2>2, InsertSubJoins
  <2>4. s.job = "import"
    BY <1>8 DEF ImportOne, InTx
  <2>5. QED
    BY <1>1, <2>2, <2>3, <2>4, BuildOn
<1>9. QED
  BY <1>3, <1>4, <1>5, <1>6, <1>7, <1>8

\* Everyone else: an open transaction is not touched, nor the image it began with.
LEMMA OthersLeaveTransaction ==
    ASSUME IInv, [Next]_vars, NEW w \in Writer, writer[w].pc = "tx",
           ~(WriterStep(w) \/ Crash(w))
    PROVE  writer'[w] = writer[w] /\ db' = db
<1>1. lock = w /\ ~Unlocked
  BY WriterAssumption DEF IInv, TypeOK, Unlocked
<1>2. ASSUME NEW v \in Writer, v # w, Begin(v) \/ WriterStep(v) \/ Crash(v)
      PROVE  writer'[w] = writer[w] /\ db' = db
  <2>1. writer[v].pc # "tx"
    BY <1>1, <1>2 DEF IInv, TypeOK
  <2>2. AutoCheck(v) \/ AutoAsk(v) \/ AutoEnd(v) \/ Crash(v)
    BY <1>1, <1>2, <2>1 DEF Begin, WriterStep, MailAlreadySubscribed, MailJoin, MailAsk,
       MailAskAgain, MailLeave, MailPassword, ImportOne, ImportConflict, Commit, InTx
  <2>3. QED
    BY <1>1, <1>2, <2>2 DEF AutoCheck, AutoAsk, AutoEnd, Crash, Release, IInv, TypeOK
<1>3. ASSUME NEW u \in WebUser, WebAccount(u) \/ WebStep(u)
      PROVE  writer' = writer /\ db' = db
  BY <1>1, <1>3 DEF WebAccount, WebStep, WebCheckSubscribe, WebCheckUnsubscribe,
     WebSubscribe, WebSubscribeFails, WebUnsubscribe
<1>4. CASE AcceptStep
  BY <1>4 DEF AcceptStep, AcceptFetch, AcceptAssert, AcceptUnwind
<1>5. CASE UNCHANGED vars
  BY <1>5 DEF vars
<1>6. ~Begin(w)
  BY DEF Begin
<1>7. QED
  BY <1>1, <1>2, <1>3, <1>4, <1>5, <1>6
     DEF Next, AcceptInsert, CliAddSubscription, CliRemoveSubscription, CliAddAccount,
         CliRemoveAccount, SetApproval

LEMMA BuiltStep ==
    ASSUME IInv, BuiltInv, [Next]_vars
    PROVE  BuiltInv'
<1> SUFFICES ASSUME NEW w \in Writer, writer'[w].pc = "tx"
             PROVE  Built(db', writer'[w])
  BY DEF BuiltInv
<1>0. IInv'
  BY NextIInv
<1>1. CASE \/ MailAlreadySubscribed(w) \/ MailJoin(w) \/ MailAsk(w)
           \/ MailLeave(w) \/ MailPassword(w) \/ ImportOne(w)
  BY <1>1, TransactionBuilds
<1>2. CASE Begin(w)
  <2>1. writer'[w].work = db /\ db' = db
    BY <1>2 DEF Begin, IInv, TypeOK
  <2>2. QED
    BY <2>1, NothingBuilt
<1>3. ~(MailAskAgain(w) \/ ImportConflict(w) \/ Commit(w) \/ Crash(w)
        \/ AutoCheck(w) \/ AutoAsk(w) \/ AutoEnd(w))
  <2>1. writer[w] \in WriterState
    BY DEF IInv, TypeOK
  <2>2. QED
    BY <2>1 DEF MailAskAgain, ImportConflict, Commit, Crash, AutoCheck, AutoAsk, AutoEnd,
       Release, IdleWriter, IInv, TypeOK, WriterState
<1>4. CASE writer[w].pc = "tx" /\ ~(WriterStep(w) \/ Crash(w))
  BY <1>4, OthersLeaveTransaction DEF BuiltInv
<1>5. CASE writer[w].pc # "tx" /\ ~Begin(w)
  <2>1. writer'[w].pc = writer[w].pc
    <3>1. ~WriterStep(w)
      BY <1>5, <1>3 DEF WriterStep, MailAlreadySubscribed, MailJoin, MailAsk, MailLeave,
         MailPassword, ImportOne, InTx
    <3>2. ASSUME NEW v \in Writer, v # w, Begin(v) \/ WriterStep(v) \/ Crash(v)
          PROVE  writer'[w] = writer[w]
      BY <3>2 DEF Begin, WriterStep, Crash, MailAlreadySubscribed, MailJoin, MailAsk,
         MailAskAgain, MailLeave, MailPassword, ImportOne, ImportConflict, Commit,
         AutoCheck, AutoAsk, AutoEnd, Served, Release, IInv, TypeOK
    <3>3. ASSUME NEW u \in WebUser, WebAccount(u) \/ WebStep(u)
          PROVE  writer' = writer
      BY <3>3 DEF WebAccount, WebStep, WebCheckSubscribe, WebCheckUnsubscribe,
         WebSubscribe, WebSubscribeFails, WebUnsubscribe
    <3>4. QED
      BY <1>3, <1>5, <3>1, <3>2, <3>3
         DEF Next, vars, AcceptStep, AcceptFetch, AcceptAssert, AcceptUnwind, AcceptInsert,
             CliAddSubscription, CliRemoveSubscription, CliAddAccount, CliRemoveAccount,
             SetApproval
  <2>2. QED
    BY <1>5, <2>1
<1>6. QED
  BY <1>1, <1>2, <1>3, <1>4, <1>5 DEF WriterStep

LEMMA BuiltInvariance == Spec => [](IInv /\ BuiltInv)
<1>1. Init => BuiltInv
  BY DEF Init, IdleWriter, BuiltInv
<1>2. IInv /\ BuiltInv /\ [Next]_vars => (IInv /\ BuiltInv)'
  BY NextIInv, BuiltStep
<1>3. QED
  BY <1>1, <1>2, InitIInv, PTL DEF Spec

-------------------------------------------------------------------------------
(***************************************************************************)
(* The refinement                                                          *)
(***************************************************************************)

\* One change of one list is a step of Membership.
LEMMA ChangeIsStep ==
    ASSUME NEW l \in List, NEW A \in SUBSET Address,
           \/ Joins(db, db', {l} \X A)
           \/ Leaves(db, db', {l} \X A)
           \/ Asks(db, db', {l} \X A)
    PROVE  Mship!Next
<1> DEFINE S == {l} \X A
<1>1. Mship!Join(S) \/ Mship!Leave(S) \/ Mship!Ask(S)
  BY DEF Mship!Join, Mship!Leave, Mship!Ask, Joins, Leaves, Asks, Members, Waiting
<1>2. QED
  BY <1>1 DEF Mship!Next

LEMMA MembershipStep ==
    ASSUME IInv, BuiltInv, [Next]_vars
    PROVE  Mship!Next \/ UNCHANGED <<Members(db), Waiting(db)>>
<1>0. /\ db \in Db /\ WebUser \subseteq Address
      /\ \A a \in Address : {a} \in SUBSET Address
  BY WebUserAssumption DEF IInv, TypeOK
<1>1. CASE db' = db
  BY <1>1 DEF Members, Waiting
<1>2. ASSUME NEW w \in Writer, Commit(w)
      PROVE  Mship!Next \/ UNCHANGED <<Members(db), Waiting(db)>>
  <2>1. /\ db' = writer[w].work /\ writer[w].list \in List
        /\ writer[w].job \in {"import", "subscribe", "unsubscribe", "password"}
        /\ Built(db, writer[w])
    BY <1>2, WriterFacts, JobsAssumption DEF Commit, BuiltInv, WriterState
  <2>2. CASE writer[w].job = "password"
    <3>1. SameMembership(db, db')
      BY <2>1, <2>2 DEF Built
    <3>2. QED
      BY <3>1 DEF SameMembership, Members, Waiting
  <2>3. CASE writer[w].job # "password"
    <3>1. \E A \in SUBSET Address :
            \/ Joins(db, db', {writer[w].list} \X A)
            \/ Leaves(db, db', {writer[w].list} \X A)
            \/ Asks(db, db', {writer[w].list} \X A)
      BY <2>1, <2>3 DEF Built
    <3>2. QED
      BY <2>1, <3>1, ChangeIsStep
  <2>4. QED
    BY <2>2, <2>3
<1>3. ASSUME NEW l \in List, NEW a \in Address, NEW p \in Pk, NEW acc,
             CanInsertSub(db, p, l, a, acc), db' = InsertSub(db, p, l, a, acc)
      PROVE  Mship!Next
  BY <1>0, <1>3, InsertSubJoins, ChangeIsStep
<1>4. ASSUME NEW l \in List, NEW a \in Address, NEW p \in Pk,
             CanInsertCand(db, p, l, a), db' = InsertCand(db, p, l, a)
      PROVE  Mship!Next
  BY <1>0, <1>4, InsertCandAsks, ChangeIsStep
<1>5. ASSUME NEW l \in List, NEW a \in Address, db' = DeleteSub(db, l, a)
      PROVE  Mship!Next
  <2>1. {} \in SUBSET Address
    OBVIOUS
  <2>2. QED
    BY <1>0, <1>5, <2>1, DeleteSubLeaves, ChangeIsStep
<1>6. ASSUME \/ \E p \in Pk, a \in Address :
                  CanInsertAccount(db, p, a) /\ db' = InsertAccount(db, p, a)
             \/ \E S : db' = DeleteAccounts(db, S)
      PROVE  UNCHANGED <<Members(db), Waiting(db)>>
  <2>1. SameMembership(db, db')
    BY <1>0, <1>6, AccountsKeepMembership
  <2>2. QED
    BY <2>1 DEF SameMembership, Members, Waiting
<1>7. QED
  BY <1>0, <1>1, <1>2, <1>3, <1>4, <1>5, <1>6, ImageChange

LEMMA StartsEmpty == Init => Mship!Init
BY DEF Init, Mship!Init, Members, Waiting, Subscribed, EmptyDb, NoRows

\* Every message, command or click changes one list in one way, and nobody stops
\* waiting without becoming a member: all writers together implement Membership.
THEOREM ChangesMembershipAsPromised == Spec => ImplementsMembership
<1>1. IInv /\ BuiltInv /\ [Next]_vars => [Mship!Next]_<<Members(db), Waiting(db)>>
  BY MembershipStep
<1>2. QED
  BY <1>1, StartsEmpty, BuiltInvariance, PTL DEF Spec, ImplementsMembership, Mship!Spec
=============================================================================
