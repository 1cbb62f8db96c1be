---------------------------- MODULE Archives_proofs ----------------------------
(***************************************************************************)
(* A run of the static archive generator that ends well leaves a sound     *)
(* site, for any number of lists, posts, dates and earlier runs, however   *)
(* posts and lists are added and wherever earlier runs stopped.            *)
(*                                                                         *)
(* Nothing the generator found on the disk is assumed to be right, so the  *)
(* invariant follows the run: what it has already written is right, and    *)
(* stays so, because a run writes only the pages of its current list.  The *)
(* posts it has read need not be the first of their list (a late mail may  *)
(* be dated before them), but they are its posts for ever, and each page   *)
(* is written again for every later date with the same id.                 *)
(***************************************************************************)
EXTENDS Archives, SequenceTheorems, FiniteSetTheorems, WellFoundedInduction, TLAPS

Row == [list : Nat, id : MessageId, time : Timestamp, dated : Dated]

\* The pages of these posts show each of them, or one of them with the same id that
\* is as young.
PagesShow(l, keys) ==
    \A k \in keys :
        /\ <<l, archived[k].id>> \in DOMAIN site.pages
        /\ LET shown == site.pages[<<l, archived[k].id>>]
           IN  shown \in keys /\ archived[shown].id = archived[k].id
                              /\ archived[shown].time >= archived[k].time

\* A list whose pages this run has finished.
Finished(l) ==
    /\ l \in DOMAIN site.lists
    /\ gen.begun[l] \subseteq site.lists[l] /\ site.lists[l] \subseteq PostsOf(l)
    /\ PagesShow(l, site.lists[l])

\* The posts that were read are of the current list, those the run began with among
\* them, in the order of their dates.
ReadInOrder ==
    /\ Len(gen.read) \in Nat /\ DOMAIN gen.read = 1 .. Len(gen.read)
    /\ gen.begun[Current] \subseteq Range(gen.read) /\ Range(gen.read) \subseteq PostsOf(Current)
    /\ \A i, j \in DOMAIN gen.read :
         i < j => archived[gen.read[i]].time <= archived[gen.read[j]].time

\* The posts whose pages are written.
FirstRead == {gen.read[i] : i \in 1 .. gen.next - 1}

Running == gen.pc # "idle"

ArchiveTypeOK ==
    /\ listNo \in Nat
    /\ archived \in Seq(Row)
    /\ site = [index |-> site.index, lists |-> site.lists, pages |-> site.pages]
    /\ gen = [pc |-> gen.pc, todo |-> gen.todo, begun |-> gen.begun, months |-> gen.months,
              read |-> gen.read, next |-> gen.next]
    /\ gen.todo \subseteq Nat
    /\ gen.next \in Nat

ArchiveInvariant ==
    /\ ArchiveTypeOK
    /\ Running =>
        /\ gen.todo \subseteq DOMAIN gen.begun
        /\ \A l \in DOMAIN gen.begun : gen.begun[l] \subseteq PostsOf(l)
    /\ gen.pc = "index" => gen.todo = DOMAIN gen.begun
    /\ Running /\ gen.pc # "index" =>
        /\ site.index = DOMAIN gen.begun
        /\ \A l \in DOMAIN gen.begun \ gen.todo : Finished(l)
    /\ gen.pc \in {"index", "lists", "posts", "list page"} => gen.next = 1
    /\ gen.pc \in {"posts", "list page", "pages"} => gen.todo # {}
    /\ gen.pc \in {"list page", "pages"} => ReadInOrder
    /\ gen.pc = "pages" =>
        /\ Current \in DOMAIN site.lists /\ site.lists[Current] = Range(gen.read)
        /\ gen.next \in 1 .. Len(gen.read) + 1
        /\ PagesShow(Current, FirstRead)
    /\ gen.pc = "done" => gen.todo = {}

-------------------------------------------------------------------------------
(***************************************************************************)
(* Helpers                                                                 *)
(***************************************************************************)
LEMMA LeastExists ==
    ASSUME NEW S, S \subseteq Nat, S # {}
    PROVE  Min(S) \in S
<1>1. PICK d \in S : \A e \in S : ~(<<e, d>> \in OpToRel(<, Nat))
  BY NatLessThanWellFounded, WFMin
<1>2. ASSUME NEW e \in S
      PROVE  d =< e
  <2>1. ~(e < d)
    BY <1>1 DEF OpToRel
  <2>2. d \in Nat /\ e \in Nat
    OBVIOUS
  <2>3. QED
    BY <2>1, <2>2
<1>3. QED
  BY <1>2 DEF Min

LEMMA CurrentIsLeft ==
    ASSUME ArchiveInvariant, Running, gen.todo # {}
    PROVE  Current \in gen.todo /\ Current \in DOMAIN gen.begun
                                /\ gen.begun[Current] \subseteq PostsOf(Current)
<1>1. gen.todo \subseteq Nat
  BY DEF ArchiveInvariant, ArchiveTypeOK
<1>2. Current \in gen.todo
  BY <1>1, LeastExists DEF Current
<1>3. QED
  BY <1>2 DEF ArchiveInvariant

LEMMA RowType ==
    ASSUME ArchiveInvariant
    PROVE  /\ Len(archived) \in Nat /\ DOMAIN archived = 1 .. Len(archived)
           /\ \A k \in DOMAIN archived : archived[k] \in Row /\ archived[k].time \in Nat
<1>1. archived \in Seq(Row)
  BY DEF ArchiveInvariant, ArchiveTypeOK
<1>2. \A k \in DOMAIN archived : archived[k] \in Row
  BY <1>1
<1>3. \A k \in DOMAIN archived : archived[k].time \in Nat
  BY <1>2, TimestampAssumption DEF Row
<1>4. QED
  BY <1>1, <1>2, <1>3

\* What list_posts returns are the posts of the list.
LEMMA PostsInOrder ==
    ASSUME ArchiveInvariant, NEW l, NEW s \in ByTime(PostsOf(l))
    PROVE  Len(s) \in Nat /\ DOMAIN s = 1 .. Len(s) /\ Range(s) = PostsOf(l)
<1>1. PostsOf(l) \subseteq 1 .. Len(archived) /\ Len(archived) \in Nat
  BY RowType DEF PostsOf
<1>2. IsFiniteSet(1 .. Len(archived))
  BY <1>1, FS_Interval
<1>3. Cardinality(PostsOf(l)) \in Nat
  BY <1>1, <1>2, FS_Subset, FS_CardinalityType
<1>4. s \in [1 .. Cardinality(PostsOf(l)) -> PostsOf(l)] /\ Range(s) = PostsOf(l)
  BY DEF ByTime
<1>5. s \in Seq(PostsOf(l))
  BY <1>3, <1>4, SeqDef
<1>6. QED
  BY <1>4, <1>5, LenProperties

\* A finished list stays finished while its files are kept and its posts are.
LEMMA FinishedFrame ==
    ASSUME ArchiveInvariant, NEW l, Finished(l), gen'.begun = gen.begun,
           l \in DOMAIN site'.lists, site'.lists[l] = site.lists[l],
           \A page \in DOMAIN site.pages : page[1] = l =>
             page \in DOMAIN site.pages' /\ site.pages'[page] = site.pages[page],
           DOMAIN archived \subseteq DOMAIN archived',
           \A k \in DOMAIN archived :
             archived'[k].list = archived[k].list /\ archived'[k].id = archived[k].id
                                                /\ archived'[k].time = archived[k].time
    PROVE  Finished(l)'
<1> DEFINE keys == site.lists[l]
<1>1. gen.begun[l] \subseteq keys /\ keys \subseteq PostsOf(l) /\ PagesShow(l, keys)
  BY DEF Finished
<1>2. PostsOf(l) \subseteq DOMAIN archived /\ PostsOf(l) \subseteq PostsOf(l)'
  BY DEF PostsOf
<1> HIDE DEF keys
<1>3. ASSUME NEW k \in keys
      PROVE  /\ <<l, archived'[k].id>> \in DOMAIN site.pages'
             /\ site.pages'[<<l, archived'[k].id>>] \in keys
             /\ archived'[site.pages'[<<l, archived'[k].id>>]].id = archived'[k].id
             /\ archived'[site.pages'[<<l, archived'[k].id>>]].time >= archived'[k].time
  <2> DEFINE page == <<l, archived[k].id>>
             j    == site.pages[page]
  <2>1. page \in DOMAIN site.pages /\ j \in keys /\ archived[j].id = archived[k].id
        /\ archived[j].time >= archived[k].time
    BY <1>1 DEF PagesShow
  <2>2. k \in DOMAIN archived /\ j \in DOMAIN archived
    BY <1>1, <1>2, <2>1
  <2>3. page[1] = l
    OBVIOUS
  <2> HIDE DEF page
  <2>4. page \in DOMAIN site.pages' /\ site.pages'[page] = j
    BY <2>1, <2>3
  <2>5. page = <<l, archived'[k].id>>
    BY <2>2 DEF page
  <2> HIDE DEF j
  <2>6. QED
    BY <2>1, <2>2, <2>4, <2>5
<1>4. keys = site'.lists[l]
  BY DEF keys
<1>5. QED
  BY <1>1, <1>2, <1>3, <1>4 DEF Finished, PagesShow

-------------------------------------------------------------------------------
(***************************************************************************)
(* The invariant                                                           *)
(***************************************************************************)
LEMMA ArchiveInitInvariant == ArchiveInit => ArchiveInvariant
BY DEF ArchiveInit, Idle, ArchiveInvariant, ArchiveTypeOK, Running

\* Between two runs nothing is known of the files.
LEMMA StoppedInvariant ==
    ASSUME ArchiveInvariant, gen' = Idle, archived' = archived, listNo' = listNo,
           site' = [index |-> site'.index, lists |-> site'.lists, pages |-> site'.pages]
    PROVE  ArchiveInvariant'
BY DEF Idle, ArchiveInvariant, ArchiveTypeOK, Running

LEMMA BeginInvariant == ArchiveInvariant /\ BeginArchive => ArchiveInvariant'
<1> SUFFICES ASSUME ArchiveInvariant, BeginArchive
             PROVE  ArchiveInvariant'
  OBVIOUS
<1>1. UNCHANGED <<listNo, archived, site>> /\ listNo \in Nat
  BY DEF BeginArchive, ArchiveInvariant, ArchiveTypeOK
<1>2. gen' = [pc |-> "index", todo |-> 1 .. listNo, begun |-> [l \in 1 .. listNo |-> PostsOf(l)],
              months |-> {}, read |-> << >>, next |-> 1]
  BY DEF BeginArchive, Idle
<1>3. 1 .. listNo \subseteq Nat /\ \A l : PostsOf(l)' = PostsOf(l)
  BY <1>1 DEF PostsOf
<1>4. \A l \in DOMAIN gen'.begun : gen'.begun[l] \subseteq PostsOf(l)'
  BY <1>2, <1>3
<1>5. QED
  BY <1>1, <1>2, <1>3, <1>4 DEF ArchiveInvariant, ArchiveTypeOK, Running

LEMMA IndexInvariant == ArchiveInvariant /\ WriteIndex => ArchiveInvariant'
<1> SUFFICES ASSUME ArchiveInvariant, WriteIndex
             PROVE  ArchiveInvariant'
  OBVIOUS
<1>1. UNCHANGED <<listNo, archived>> /\ gen.pc = "index" /\ gen.todo = DOMAIN gen.begun
      /\ gen.next = 1
  BY DEF WriteIndex, ArchiveInvariant
<1>2. gen' = [pc |-> "lists", todo |-> gen.todo, begun |-> gen.begun, months |-> gen.months,
              read |-> gen.read, next |-> gen.next]
  BY DEF WriteIndex, ArchiveInvariant, ArchiveTypeOK
<1>3. site' = [index |-> gen.todo, lists |-> site.lists, pages |-> site.pages]
  BY DEF WriteIndex, ArchiveInvariant, ArchiveTypeOK
<1>4. \A l : PostsOf(l)' = PostsOf(l)
  BY <1>1 DEF PostsOf
<1>5. QED
  BY <1>1, <1>2, <1>3, <1>4 DEF ArchiveInvariant, ArchiveTypeOK, Running

\* A step that writes no file and adds no post keeps every finished list.
LEMMA FinishedKept ==
    ASSUME ArchiveInvariant, Running, gen.pc # "index", UNCHANGED <<archived, site>>,
           gen'.begun = gen.begun
    PROVE  \A l \in DOMAIN gen.begun \ gen.todo : Finished(l)'
<1> TAKE l \in DOMAIN gen.begun \ gen.todo
<1>1. Finished(l)
  BY DEF ArchiveInvariant
<1>2. PostsOf(l)' = PostsOf(l)
  BY DEF PostsOf
<1>3. QED
  BY <1>1, <1>2 DEF Finished, PagesShow

LEMMA PeriodsInvariant == ArchiveInvariant /\ ReadPeriods => ArchiveInvariant'
<1> SUFFICES ASSUME ArchiveInvariant, ReadPeriods
             PROVE  ArchiveInvariant'
  OBVIOUS
<1>1. UNCHANGED <<listNo, archived, site>> /\ gen.pc = "lists" /\ gen.todo # {} /\ Running
      /\ gen.next = 1
  BY DEF ReadPeriods, Running, ArchiveInvariant
<1> DEFINE months == {MonthOf[archived[k].time] : k \in PostsOf(Current)}
<1>2. gen' = [pc |-> "posts", todo |-> gen.todo, begun |-> gen.begun, months |-> months,
              read |-> gen.read, next |-> gen.next]
  BY DEF ReadPeriods, ArchiveInvariant, ArchiveTypeOK
<1> HIDE DEF months
<1>3. \A l \in DOMAIN gen.begun \ gen.todo : Finished(l)'
  BY <1>1, <1>2, FinishedKept
<1>4. \A l : PostsOf(l)' = PostsOf(l)
  BY <1>1 DEF PostsOf
<1>5. QED
  BY <1>1, <1>2, <1>3, <1>4 DEF ArchiveInvariant, ArchiveTypeOK, Running

LEMMA PostsInvariant == ArchiveInvariant /\ ReadPosts => ArchiveInvariant'
<1> SUFFICES ASSUME ArchiveInvariant, ReadPosts
             PROVE  ArchiveInvariant'
  OBVIOUS
<1>1. UNCHANGED <<listNo, archived, site>> /\ gen.pc = "posts" /\ gen.todo # {} /\ Running
      /\ gen.next = 1
  BY DEF ReadPosts, ArchiveInvariant, Running
<1>2. CASE gen' = Idle
  BY <1>1, <1>2, StoppedInvariant DEF ArchiveInvariant, ArchiveTypeOK
<1>3. ASSUME NEW s \in ByTime(PostsOf(Current)),
             gen' = [gen EXCEPT !.pc = "list page", !.read = s]
      PROVE  ArchiveInvariant'
  <2>1. gen' = [pc |-> "list page", todo |-> gen.todo, begun |-> gen.begun, months |-> gen.months,
                read |-> s, next |-> gen.next]
    BY <1>3 DEF ArchiveInvariant, ArchiveTypeOK
  <2>2. Current' = Current /\ \A l : PostsOf(l)' = PostsOf(l)
    BY <1>1, <2>1 DEF Current, PostsOf
  <2>3. Len(s) \in Nat /\ DOMAIN s = 1 .. Len(s) /\ Range(s) = PostsOf(Current)
    BY PostsInOrder
  <2>4. \A i, j \in DOMAIN s : i < j => archived[s[i]].time <= archived[s[j]].time
    BY DEF ByTime
  <2>5. gen.begun[Current] \subseteq PostsOf(Current)
    BY <1>1, CurrentIsLeft
  <2>6. ReadInOrder'
    BY <1>1, <2>1, <2>2, <2>3, <2>4, <2>5 DEF ReadInOrder
  <2>7. \A l \in DOMAIN gen.begun \ gen.todo : Finished(l)'
    BY <1>1, <2>1, FinishedKept
  <2>8. QED
    BY <1>1, <2>1, <2>2, <2>6, <2>7 DEF ArchiveInvariant, ArchiveTypeOK, Running
<1>4. QED
  BY <1>2, <1>3 DEF ReadPosts

LEMMA EndOfListInvariant == ArchiveInvariant /\ EndOfList => ArchiveInvariant'
<1> SUFFICES ASSUME ArchiveInvariant, EndOfList
             PROVE  ArchiveInvariant'
  OBVIOUS
<1>1. UNCHANGED <<listNo, archived, site>> /\ gen.pc = "pages" /\ gen.todo # {} /\ Running /\ ~HasPage
  BY DEF EndOfList, ArchiveInvariant, Running
<1>2. gen' = [pc |-> "lists", todo |-> gen.todo \ {Current}, begun |-> gen.begun, months |-> {},
              read |-> << >>, next |-> 1]
  BY DEF EndOfList, ArchiveInvariant, ArchiveTypeOK
<1>3. Finished(Current)
  <2>1. ReadInOrder /\ Current \in DOMAIN site.lists /\ site.lists[Current] = Range(gen.read)
        /\ gen.next \in 1 .. Len(gen.read) + 1 /\ PagesShow(Current, FirstRead)
    BY <1>1 DEF ArchiveInvariant
  <2>2. Len(gen.read) \in Nat /\ gen.next \in Nat /\ ~(gen.next <= Len(gen.read))
    BY <1>1, <2>1 DEF ReadInOrder, HasPage, ArchiveInvariant, ArchiveTypeOK
  <2>3. gen.next - 1 = Len(gen.read)
    BY <2>1, <2>2
  <2>4. FirstRead = Range(gen.read)
    BY <2>1, <2>3 DEF FirstRead, Range, ReadInOrder
  <2>5. QED
    BY <2>1, <2>4 DEF ReadInOrder, Finished
<1>4. \A l \in DOMAIN gen.begun \ gen.todo : Finished(l)'
  BY <1>1, <1>2, FinishedKept
<1>5. ASSUME NEW l \in DOMAIN gen.begun \ gen'.todo
      PROVE  Finished(l)'
  <2>1. CASE l \in gen.todo
    <3>1. Finished(l)
      BY <1>2, <1>3, <2>1
    <3>2. QED
      BY <1>1, <1>2, <3>1 DEF Finished, PagesShow, PostsOf
  <2>2. QED
    BY <1>4, <2>1
<1>6. \A l : PostsOf(l)' = PostsOf(l)
  BY <1>1 DEF PostsOf
<1>7. QED
  BY <1>1, <1>2, <1>5, <1>6 DEF ArchiveInvariant, ArchiveTypeOK, Running

LEMMA EndInvariant == ArchiveInvariant /\ EndArchive => ArchiveInvariant'
<1> SUFFICES ASSUME ArchiveInvariant, EndArchive
             PROVE  ArchiveInvariant'
  OBVIOUS
<1>1. UNCHANGED <<listNo, archived, site>> /\ gen.pc = "lists" /\ gen.todo = {} /\ Running
  BY DEF EndArchive, Running
<1>2. gen' = [pc |-> "done", todo |-> gen.todo, begun |-> gen.begun, months |-> gen.months,
              read |-> gen.read, next |-> gen.next]
  BY DEF EndArchive, ArchiveInvariant, ArchiveTypeOK
<1>3. \A l \in DOMAIN gen.begun \ gen.todo : Finished(l)'
  BY <1>1, <1>2, FinishedKept
<1>4. \A l : PostsOf(l)' = PostsOf(l)
  BY <1>1 DEF PostsOf
<1>5. QED
  BY <1>1, <1>2, <1>3, <1>4 DEF ArchiveInvariant, ArchiveTypeOK, Running

LEMMA ListPageInvariant == ArchiveInvariant /\ WriteListPage => ArchiveInvariant'
<1> SUFFICES ASSUME ArchiveInvariant, WriteListPage
             PROVE  ArchiveInvariant'
  OBVIOUS
<1>1. UNCHANGED <<listNo, archived>> /\ gen.pc = "list page" /\ gen.todo # {} /\ Running
      /\ ReadInOrder /\ gen.next = 1
  BY DEF WriteListPage, ArchiveInvariant, Running
<1>2. gen' = [pc |-> "pages", todo |-> gen.todo, begun |-> gen.begun, months |-> gen.months,
              read |-> gen.read, next |-> gen.next]
  BY DEF WriteListPage, ArchiveInvariant, ArchiveTypeOK
<1> DEFINE lists == Put(site.lists, Current, Range(gen.read))
<1>3. /\ Current \in DOMAIN lists /\ lists[Current] = Range(gen.read)
      /\ \A l \in DOMAIN site.lists : l # Current => l \in DOMAIN lists /\ lists[l] = site.lists[l]
  BY DEF Put
<1>4. site' = [index |-> site.index, lists |-> lists, pages |-> site.pages]
  BY DEF WriteListPage, ArchiveInvariant, ArchiveTypeOK
<1> HIDE DEF lists
<1>5. Current' = Current /\ \A l : PostsOf(l)' = PostsOf(l)
  BY <1>1, <1>2 DEF Current, PostsOf
<1>6. ASSUME NEW l \in DOMAIN gen.begun \ gen.todo
      PROVE  Finished(l)'
  <2>1. Finished(l) /\ l # Current
    BY <1>1, CurrentIsLeft DEF ArchiveInvariant
  <2>2. l \in DOMAIN lists /\ lists[l] = site.lists[l]
    BY <1>3, <2>1 DEF Finished
  <2>3. QED
    BY <1>1, <1>2, <1>4, <1>5, <2>1, <2>2 DEF Finished, PagesShow
<1>7. ReadInOrder'
  BY <1>1, <1>2, <1>5 DEF ReadInOrder
<1>8. PagesShow(Current, FirstRead)'
  <2>1. gen'.next = 1
    BY <1>1, <1>2
  <2>2. FirstRead' = {}
    <3>1. \A i \in 1 .. gen'.next - 1 : FALSE
      BY <2>1
    <3>2. QED
      BY <3>1 DEF FirstRead
  <2>3. QED
    BY <2>2 DEF PagesShow
<1>9. Current' \in DOMAIN site'.lists /\ site'.lists[Current'] = Range(gen'.read)
      /\ gen'.next \in 1 .. Len(gen'.read) + 1
  <2>1. gen'.next = 1 /\ gen'.read = gen.read /\ Len(gen.read) \in Nat
    BY <1>1, <1>2 DEF ReadInOrder
  <2>2. gen'.next \in 1 .. Len(gen'.read) + 1
    BY <2>1
  <2>3. QED
    BY <1>2, <1>3, <1>4, <1>5, <2>2
<1>10. QED
  BY <1>1, <1>2, <1>4, <1>5, <1>6, <1>7, <1>8, <1>9 DEF ArchiveInvariant, ArchiveTypeOK, Running

\* A page replaces that of a post of the list that is not younger, if any.
LEMMA PageInvariant == ArchiveInvariant /\ WritePage => ArchiveInvariant'
<1> SUFFICES ASSUME ArchiveInvariant, WritePage
             PROVE  ArchiveInvariant'
  OBVIOUS
<1> DEFINE n == gen.next
           c == Current
           r == gen.read[n]
<1>1. /\ UNCHANGED <<listNo, archived>> /\ gen.pc = "pages" /\ gen.todo # {} /\ Running
      /\ ReadInOrder /\ PagesShow(c, FirstRead)
  BY DEF WritePage, HasPage, ArchiveInvariant, Running
<1>2. gen' = [pc |-> "pages", todo |-> gen.todo, begun |-> gen.begun, months |-> gen.months,
              read |-> gen.read, next |-> n + 1]
  BY DEF WritePage, HasPage, ArchiveInvariant, ArchiveTypeOK
<1>3. n \in 1 .. Len(gen.read) /\ n \in Nat /\ Len(gen.read) \in Nat
  <2>1. gen.next \in 1 .. Len(gen.read) + 1 /\ gen.next =< Len(gen.read)
        /\ Len(gen.read) \in Nat
    BY <1>1 DEF ArchiveInvariant, WritePage, HasPage, ReadInOrder
  <2>2. QED
    BY <2>1
<1>4. \A i \in 1 .. Len(gen.read) :
        /\ gen.read[i] \in DOMAIN archived
        /\ archived[gen.read[i]].time \in Nat
        /\ i =< n => archived[gen.read[i]].time <= archived[r].time
  <2>1. DOMAIN gen.read = 1 .. Len(gen.read) /\ Range(gen.read) \subseteq PostsOf(c)
        /\ \A i, j \in DOMAIN gen.read :
              i < j => archived[gen.read[i]].time <= archived[gen.read[j]].time
    BY <1>1 DEF ReadInOrder
  <2>2. \A i \in 1 .. Len(gen.read) : gen.read[i] \in DOMAIN archived
    BY <2>1 DEF Range, PostsOf
  <2>3. \A i \in 1 .. Len(gen.read) : archived[gen.read[i]].time \in Nat
    BY <2>2, RowType
  <2>4. QED
    BY <1>3, <2>1, <2>2, <2>3
<1>5. Current' = c /\ \A l : PostsOf(l)' = PostsOf(l)
  BY <1>1, <1>2 DEF Current, PostsOf
<1>6. c \in gen.todo
  BY <1>1, CurrentIsLeft
<1>7. Page = <<c, archived[r].id>>
  BY DEF Page
<1>8. FirstRead' = FirstRead \cup {r}
  BY <1>2, <1>3 DEF FirstRead
<1> HIDE DEF n, c, r
<1> DEFINE pages == Put(site.pages, Page, r)
<1>9. /\ Page \in DOMAIN pages /\ pages[Page] = r
      /\ \A page \in DOMAIN site.pages :
           page \in DOMAIN pages /\ (page # Page => pages[page] = site.pages[page])
  BY DEF Put
<1>10. site' = [index |-> site.index, lists |-> site.lists, pages |-> pages]
  BY DEF WritePage, ArchiveInvariant, ArchiveTypeOK, r, n
<1> HIDE DEF pages
<1>11. ASSUME NEW l \in DOMAIN gen.begun \ gen.todo
       PROVE  Finished(l)'
  <2>1. Finished(l) /\ l # c
    BY <1>1, <1>6 DEF ArchiveInvariant
  <2>2. \A page \in DOMAIN site.pages : page[1] = l =>
          page \in DOMAIN pages /\ pages[page] = site.pages[page]
    BY <1>7, <1>9, <2>1
  <2>3. l \in DOMAIN site'.lists /\ site'.lists[l] = site.lists[l]
    BY <1>10, <2>1 DEF Finished
  <2>4. QED
    BY <1>1, <1>2, <1>10, <2>1, <2>2, <2>3, FinishedFrame
<1>12. ASSUME NEW k \in FirstRead \cup {r}
       PROVE  /\ <<c, archived[k].id>> \in DOMAIN pages
              /\ LET shown == pages[<<c, archived[k].id>>]
                 IN  shown \in FirstRead \cup {r} /\ archived[shown].id = archived[k].id
                     /\ archived[shown].time >= archived[k].time
  <2>1. archived[k].time \in Nat /\ archived[r].time \in Nat /\ archived[k].time <= archived[r].time
    <3>1. \E i \in 1 .. n : k = gen.read[i]
      BY <1>3 DEF FirstRead, r, n
    <3>2. QED
      BY <1>3, <1>4, <3>1 DEF r
  <2>2. CASE archived[k].id = archived[r].id
    BY <1>7, <1>9, <2>1, <2>2
  <2>3. CASE archived[k].id # archived[r].id
    <3> DEFINE page == <<c, archived[k].id>>
    <3>1. k \in FirstRead
      BY <2>3
    <3>2. page \in DOMAIN site.pages /\ site.pages[page] \in FirstRead
          /\ archived[site.pages[page]].id = archived[k].id
          /\ archived[site.pages[page]].time >= archived[k].time
      BY <1>1, <3>1 DEF PagesShow
    <3>3. page # Page
      BY <1>7, <2>3
    <3>4. page \in DOMAIN pages /\ pages[page] = site.pages[page]
      BY <1>9, <3>2, <3>3
    <3>5. QED
      BY <3>2, <3>4
  <2>4. QED
    BY <2>2, <2>3
<1>13. PagesShow(Current, FirstRead)'
  BY <1>1, <1>5, <1>8, <1>10, <1>12 DEF PagesShow
<1>14. ReadInOrder'
  BY <1>1, <1>2, <1>5 DEF ReadInOrder, c
<1>15. Current' \in DOMAIN site'.lists /\ site'.lists[Current'] = Range(gen'.read)
       /\ gen'.next \in 1 .. Len(gen'.read) + 1
  BY <1>1, <1>2, <1>3, <1>5, <1>10 DEF ArchiveInvariant, c
<1>16. QED
  BY <1>1, <1>2, <1>3, <1>5, <1>10, <1>11, <1>13, <1>14, <1>15
     DEF ArchiveInvariant, ArchiveTypeOK, Running

LEMMA CutInvariant == ArchiveInvariant /\ CutFile => ArchiveInvariant'
<1> SUFFICES ASSUME ArchiveInvariant, CutFile
             PROVE  ArchiveInvariant'
  OBVIOUS
<1>1. gen' = Idle /\ UNCHANGED <<listNo, archived>>
  BY DEF CutFile
<1>2. site' = [index |-> site'.index, lists |-> site'.lists, pages |-> site'.pages]
  BY DEF CutFile, ArchiveInvariant, ArchiveTypeOK
<1>3. QED
  BY <1>1, <1>2, StoppedInvariant

-------------------------------------------------------------------------------
(***************************************************************************)
(* The database meanwhile                                                  *)
(***************************************************************************)
LEMMA GrowInvariant ==
    ASSUME ArchiveInvariant, gen' = gen, site' = site, listNo' \in Nat, archived' \in Seq(Row),
           DOMAIN archived \subseteq DOMAIN archived',
           \A k \in DOMAIN archived :
             archived'[k].list = archived[k].list /\ archived'[k].id = archived[k].id
                                                /\ archived'[k].time = archived[k].time
    PROVE  ArchiveInvariant'
<1>1. Current' = Current /\ FirstRead' = FirstRead
  BY DEF Current, FirstRead
<1>2. \A l : PostsOf(l) \subseteq PostsOf(l)' /\ PostsOf(l) \subseteq DOMAIN archived
  BY DEF PostsOf
<1>3. ASSUME Running
      PROVE  \A l \in DOMAIN gen.begun : gen.begun[l] \subseteq PostsOf(l)'
  BY <1>2, <1>3 DEF ArchiveInvariant
<1>4. ASSUME Running, gen.pc # "index"
      PROVE  \A l \in DOMAIN gen.begun \ gen.todo : Finished(l)'
  <2> TAKE l \in DOMAIN gen.begun \ gen.todo
  <2>1. Finished(l) /\ l \in DOMAIN site.lists
    BY <1>4 DEF ArchiveInvariant, Finished
  <2>2. QED
    BY <2>1, FinishedFrame
<1>5. ASSUME gen.pc \in {"list page", "pages"}
      PROVE  ReadInOrder'
  <2>1. ReadInOrder
    BY <1>5 DEF ArchiveInvariant
  <2>2. \A i \in DOMAIN gen.read : gen.read[i] \in DOMAIN archived
    BY <1>2, <2>1 DEF ReadInOrder, Range
  <2>3. \A i, j \in DOMAIN gen.read :
          i < j => archived'[gen.read[i]].time <= archived'[gen.read[j]].time
    BY <2>1, <2>2 DEF ReadInOrder
  <2>4. gen.begun[Current] \subseteq Range(gen.read) /\ Range(gen.read) \subseteq PostsOf(Current)'
    BY <1>1, <1>2, <2>1 DEF ReadInOrder
  <2>5. QED
    BY <1>1, <2>1, <2>3, <2>4 DEF ReadInOrder
<1>6. ASSUME gen.pc = "pages"
      PROVE  PagesShow(Current, FirstRead)'
  <2>1. ReadInOrder /\ gen.next \in 1 .. Len(gen.read) + 1 /\ PagesShow(Current, FirstRead)
    BY <1>6 DEF ArchiveInvariant
  <2>2. FirstRead \subseteq DOMAIN archived
    <3>1. Len(gen.read) \in Nat /\ DOMAIN gen.read = 1 .. Len(gen.read)
          /\ Range(gen.read) \subseteq DOMAIN archived
      BY <1>2, <2>1 DEF ReadInOrder
    <3>2. 1 .. gen.next - 1 \subseteq DOMAIN gen.read
      BY <2>1, <3>1
    <3>3. QED
      BY <3>1, <3>2 DEF Range, FirstRead
  <2>3. \A k \in FirstRead : /\ archived'[k].id = archived[k].id
                             /\ archived'[k].time = archived[k].time
    BY <2>2
  <2>4. QED
    BY <1>1, <2>1, <2>3 DEF PagesShow
<1>7. QED
  BY <1>1, <1>3, <1>4, <1>5, <1>6 DEF ArchiveInvariant, ArchiveTypeOK, Running

LEMMA InsertPostInvariant ==
    ASSUME ArchiveInvariant, NEW l \in 1 .. listNo, NEW id \in MessageId, NEW time \in Timestamp,
           NEW dated \in Dated, InsertPost(l, id, time, dated)
    PROVE  ArchiveInvariant'
<1> DEFINE row == [list |-> l, id |-> id, time |-> time, dated |-> dated]
<1>1. archived \in Seq(Row) /\ row \in Row /\ listNo \in Nat
  <2>1. archived \in Seq(Row) /\ listNo \in Nat
    BY DEF ArchiveInvariant, ArchiveTypeOK
  <2>2. l \in Nat
    BY <2>1
  <2>3. QED
    BY <2>1, <2>2 DEF Row
<1>2. archived' = Append(archived, row) /\ UNCHANGED <<listNo, site, gen>>
  BY DEF InsertPost
<1> HIDE DEF row
<1>3. archived' \in Seq(Row) /\ DOMAIN archived \subseteq DOMAIN archived'
      /\ \A k \in DOMAIN archived : archived'[k] = archived[k]
  BY <1>1, <1>2, AppendProperties
<1>4. QED
  BY <1>1, <1>2, <1>3, GrowInvariant

LEMMA RepairDatesInvariant ==
    ASSUME ArchiveInvariant, NEW keys \in SUBSET DOMAIN archived, RepairDates(keys)
    PROVE  ArchiveInvariant'
<1>1. \A k \in DOMAIN archived : archived[k] \in Row
      /\ Len(archived) \in Nat /\ DOMAIN archived = 1 .. Len(archived)
  BY RowType
<1>2. ASSUME NEW k \in DOMAIN archived
      PROVE  /\ archived'[k] \in Row /\ archived'[k].list = archived[k].list
             /\ archived'[k].id = archived[k].id /\ archived'[k].time = archived[k].time
  <2>1. archived'[k] = (IF k \in keys THEN [archived[k] EXCEPT !.dated = "text"] ELSE archived[k])
    BY DEF RepairDates
  <2>2. QED
    BY <1>1, <2>1 DEF Row, Dated
<1>3. DOMAIN archived' = DOMAIN archived /\ UNCHANGED <<listNo, site, gen>>
  BY DEF RepairDates
<1>4. archived' \in [1 .. Len(archived) -> Row]
  BY <1>1, <1>2, <1>3 DEF RepairDates
<1>5. archived' \in Seq(Row)
  BY <1>1, <1>4, SeqDef
<1>6. listNo' \in Nat
  BY <1>3 DEF ArchiveInvariant, ArchiveTypeOK
<1>7. QED
  BY <1>2, <1>3, <1>5, <1>6, GrowInvariant

LEMMA InsertListInvariant == ArchiveInvariant /\ InsertList => ArchiveInvariant'
<1> SUFFICES ASSUME ArchiveInvariant, InsertList
             PROVE  ArchiveInvariant'
  OBVIOUS
<1>1. listNo' \in Nat
  <2>1. listNo \in Nat /\ listNo' = listNo + 1
    BY DEF InsertList, ArchiveInvariant, ArchiveTypeOK
  <2>2. QED
    BY <2>1
<1>2. archived' = archived /\ archived \in Seq(Row) /\ UNCHANGED <<site, gen>>
  BY DEF InsertList, ArchiveInvariant, ArchiveTypeOK
<1>3. \A k \in DOMAIN archived : archived'[k] = archived[k]
  BY <1>2
<1>4. DOMAIN archived \subseteq DOMAIN archived'
  BY <1>2
<1>5. archived' \in Seq(Row) /\ gen' = gen /\ site' = site
  BY <1>2
<1>6. QED
  BY <1>1, <1>3, <1>4, <1>5, GrowInvariant

LEMMA ArchiveNextInvariant == ArchiveInvariant /\ [ArchiveNext]_archiveVars => ArchiveInvariant'
<1> SUFFICES ASSUME ArchiveInvariant, [ArchiveNext]_archiveVars
             PROVE  ArchiveInvariant'
  OBVIOUS
<1>1. CASE UNCHANGED archiveVars
  BY <1>1, GrowInvariant DEF archiveVars, ArchiveInvariant, ArchiveTypeOK
<1>2. CASE AbortArchive
  BY <1>2, StoppedInvariant DEF AbortArchive, ArchiveInvariant, ArchiveTypeOK
<1>3. ASSUME NEW l \in 1 .. listNo, NEW id \in MessageId, NEW time \in Timestamp,
             NEW dated \in Dated, InsertPost(l, id, time, dated)
      PROVE  ArchiveInvariant'
  BY <1>3, InsertPostInvariant
<1>4. ASSUME NEW keys \in SUBSET DOMAIN archived, RepairDates(keys)
      PROVE  ArchiveInvariant'
  BY <1>4, RepairDatesInvariant
<1>5. QED
  BY <1>1, <1>2, <1>3, <1>4, BeginInvariant, IndexInvariant, PeriodsInvariant, PostsInvariant,
     ListPageInvariant, PageInvariant, EndOfListInvariant, EndInvariant, CutInvariant,
     InsertListInvariant DEF ArchiveNext

-------------------------------------------------------------------------------
(***************************************************************************)
(* What it gives                                                           *)
(***************************************************************************)
LEMMA InvariantGivesSoundSite == ArchiveInvariant => CompletedSiteIsSound
<1> SUFFICES ASSUME ArchiveInvariant, gen.pc = "done"
             PROVE  CompletedSiteIsSound
  BY DEF CompletedSiteIsSound
<1>1. site.index = DOMAIN gen.begun /\ \A l \in DOMAIN gen.begun : Finished(l)
  BY DEF ArchiveInvariant, Running
<1>2. ASSUME NEW l \in site.index
      PROVE  /\ l \in DOMAIN site.lists /\ gen.begun[l] \subseteq site.lists[l]
             /\ \A k \in site.lists[l] :
                  /\ archived[k].list = l
                  /\ <<l, archived[k].id>> \in DOMAIN site.pages
                  /\ ShownFor(k, site.pages[<<l, archived[k].id>>])
  BY <1>1 DEF Finished, PostsOf, PagesShow, ShownFor
<1>3. QED
  BY <1>1, <1>2 DEF CompletedSiteIsSound

\* What mailpot-archives leaves behind when it ends well has no dead link, lists
\* every post that was archived when it began, and shows each or one of its list
\* with the same id that is as young: whatever the files were before, and whatever
\* was added meanwhile, with whatever date.
THEOREM CompletedSites == ArchiveSpec => []CompletedSiteIsSound
<1>1. ArchiveInvariant /\ [ArchiveNext]_archiveVars => ArchiveInvariant'
  BY ArchiveNextInvariant
<1>2. QED
  BY <1>1, ArchiveInitInvariant, InvariantGivesSoundSite, PTL DEF ArchiveSpec
=============================================================================
