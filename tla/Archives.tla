-------------------------------- MODULE Archives --------------------------------
(***************************************************************************)
(* `mailpot-archives`: the files of a static archive are written one after *)
(* the other, over those of earlier runs, while posts and lists are added. *)
(* Any step of a run may be its last.  Posts are listed in the order of    *)
(* the dates their authors gave them, whenever they came.                  *)
(***************************************************************************)
EXTENDS Tables, Sequences

CONSTANTS
    MaxListNo,      \* bound on the keys of the lists
    MessageId,      \* ids of posts; the table does not make them unique
    Timestamp,      \* dates of mails
    MonthOf,        \* the month of each
    MaxArchived     \* bound on the posts

ASSUME ArchiveBounds == MaxListNo \in Nat \ {0} /\ MaxArchived \in Nat
ASSUME TimestampAssumption == Timestamp \subseteq Nat /\ DOMAIN MonthOf = Timestamp

VARIABLES
    listNo,     \* how many lists there are; their keys are 1, 2, ...
    archived,   \* table `post`, in the order of its keys: [list, id, time, dated]
    site,       \* the files: [index, lists, pages]
    gen         \* the run of the generator

archiveVars == <<listNo, archived, site, gen>>

\* Characters 8 to 10 of the Date header, which is stored as it was written, are the
\* number of a day ("2023-10-19...", "19 Oct 2023 ...") or are not ("Thu, 19 Oct 2023 ...").
Dated == {"day", "text"}

\* todo: the lists without a page yet; months, read: what was read of the first of
\* them.  `begun` is bookkeeping: the posts that each list had at first.
Idle == [pc |-> "idle", todo |-> {}, begun |-> << >>, months |-> {}, read |-> << >>, next |-> 1]

\* index: the lists that index.html links to; lists: the posts that the page of a
\* list links to; pages: the post that a page shows, 0 for none.
ArchiveInit ==
    /\ listNo = 1
    /\ archived = << >>
    /\ site = [index |-> {}, lists |-> << >>, pages |-> << >>]
    /\ gen = Idle

-------------------------------------------------------------------------------
(***************************************************************************)
(* run_app                                                                 *)
(***************************************************************************)
PostsOf(l) == {k \in DOMAIN archived : archived[k].list = l}

BeginArchive ==
    /\ gen.pc \in {"idle", "done"}
    /\ gen' = [Idle EXCEPT !.pc = "index", !.todo = 1 .. listNo,
                           !.begun = [l \in 1 .. listNo |-> PostsOf(l)]]
    /\ UNCHANGED <<listNo, archived, site>>

WriteIndex ==
    /\ gen.pc = "index"
    /\ site' = [site EXCEPT !.index = gen.todo]
    /\ gen' = [gen EXCEPT !.pc = "lists"]
    /\ UNCHANGED <<listNo, archived>>

\* The lists come in the order of their keys.
Current == Min(gen.todo)
Page    == <<Current, archived[gen.read[gen.next]].id>>
HasPage == gen.pc = "pages" /\ gen.next <= Len(gen.read)

\* months()
ReadPeriods ==
    /\ gen.pc = "lists" /\ gen.todo # {}
    /\ gen' = [gen EXCEPT !.pc = "posts", !.months = {MonthOf[archived[k].time] : k \in PostsOf(Current)}]
    /\ UNCHANGED <<listNo, archived, site>>

\* ORDER BY timestamp, which is the date of the mail: equal dates come in any order.
ByTime(keys) ==
    {s \in [1 .. Cardinality(keys) -> keys] :
        /\ Range(s) = keys
        /\ \A i, j \in DOMAIN s : i < j => archived[s[i]].time <= archived[s[j]].time}

\* list_posts(), then the count of the posts of each day of the months read before: it
\* panics on a day of another month, and passes over a date whose day it cannot read.
ReadPosts ==
    /\ gen.pc = "posts"
    /\ gen' \in IF \E k \in PostsOf(Current) :
                      archived[k].dated = "day" /\ MonthOf[archived[k].time] \notin gen.months
                THEN {Idle}
                ELSE {[gen EXCEPT !.pc = "list page", !.read = s] : s \in ByTime(PostsOf(Current))}
    /\ UNCHANGED <<listNo, archived, site>>

\* The page of the list links to the page of every post.
WriteListPage ==
    /\ gen.pc = "list page"
    /\ site' = [site EXCEPT !.lists = Put(@, Current, Range(gen.read))]
    /\ gen' = [gen EXCEPT !.pc = "pages"]
    /\ UNCHANGED <<listNo, archived>>

\* Mutant: a page that is there is not written again.
WritePage_KeepsPage ==
    /\ HasPage
    /\ site' = [site EXCEPT !.pages = IF Page \in DOMAIN @ THEN @ ELSE Put(@, Page, gen.read[gen.next])]
    /\ gen' = [gen EXCEPT !.next = @ + 1]
    /\ UNCHANGED <<listNo, archived>>

\* The file is named for the id of the post: it replaces that of an earlier one.
WritePage ==
    /\ HasPage
    /\ site' = [site EXCEPT !.pages = Put(@, Page, gen.read[gen.next])]
    /\ gen' = [gen EXCEPT !.next = @ + 1]
    /\ UNCHANGED <<listNo, archived>>

EndOfList ==
    /\ gen.pc = "pages" /\ ~HasPage
    /\ gen' = [gen EXCEPT !.pc = "lists", !.todo = @ \ {Current}, !.months = {}, !.read = << >>,
                          !.next = 1]
    /\ UNCHANGED <<listNo, archived, site>>

EndArchive ==
    /\ gen.pc = "lists" /\ gen.todo = {}
    /\ gen' = [gen EXCEPT !.pc = "done"]
    /\ UNCHANGED <<listNo, archived, site>>

\* An error, a panic (the number of a day above 31), or the death of the process, before
\* a file is opened
AbortArchive ==
    /\ gen.pc \notin {"idle", "done"}
    /\ gen' = Idle
    /\ UNCHANGED <<listNo, archived, site>>

\* A file is truncated when it is opened, before its template is rendered.
CutFile ==
    /\ \/ gen.pc = "index" /\ site' = [site EXCEPT !.index = {}]
       \/ gen.pc = "list page" /\ site' = [site EXCEPT !.lists = Put(@, Current, {})]
       \/ HasPage /\ site' = [site EXCEPT !.pages = Put(@, Page, 0)]
    /\ gen' = Idle
    /\ UNCHANGED <<listNo, archived>>

-------------------------------------------------------------------------------
(***************************************************************************)
(* The database meanwhile.  Nothing removes a list or a post; ids are bare *)
(* in the names of the files, whether `mpot repair` has made them so or    *)
(* not.                                                                    *)
(***************************************************************************)

\* `mpot post` archives a mail, or `mpot import-maildir` the next file of a maildir: each
\* file with an INSERT of its own.  Its date may be older than those of earlier posts.
InsertPost(l, id, time, dated) ==
    /\ Len(archived) < MaxArchived
    /\ archived' = Append(archived, [list |-> l, id |-> id, time |-> time, dated |-> dated])
    /\ UNCHANGED <<listNo, site, gen>>

\* `mpot repair`: datetime_header_value_lint writes the dates it cannot read anew, as
\* RFC 2822 does, in one transaction.
RepairDates(keys) ==
    /\ \A k \in keys : archived[k].dated = "day"
    /\ archived' = [k \in DOMAIN archived |->
                       IF k \in keys THEN [archived[k] EXCEPT !.dated = "text"] ELSE archived[k]]
    /\ UNCHANGED <<listNo, site, gen>>

\* `mpot create-list`
InsertList ==
    /\ listNo < MaxListNo
    /\ listNo' = listNo + 1
    /\ UNCHANGED <<archived, site, gen>>

ArchiveNext ==
    \/ BeginArchive \/ WriteIndex \/ ReadPeriods \/ ReadPosts \/ WriteListPage \/ WritePage
    \/ EndOfList \/ EndArchive \/ AbortArchive \/ CutFile
    \/ \E l \in 1 .. listNo, id \in MessageId, time \in Timestamp, dated \in Dated :
          InsertPost(l, id, time, dated)
    \/ \E keys \in SUBSET DOMAIN archived : RepairDates(keys)
    \/ InsertList

ArchiveSpec == ArchiveInit /\ [][ArchiveNext]_archiveVars

-------------------------------------------------------------------------------
(***************************************************************************)
(* Properties                                                              *)
(***************************************************************************)

\* The page that the page of its list links to for a post shows the post, or another
\* one that is listed, has the same id and is not older.
ShownFor(k, shown) ==
    /\ shown \in site.lists[archived[k].list]
    /\ archived[shown].id = archived[k].id
    /\ archived[shown].time >= archived[k].time

\* When a run of mailpot-archives has ended well, whatever earlier runs left
\* behind and whatever was archived meanwhile, in whatever order of dates: every
\* post that was archived when it began is listed, every link of a list leads to
\* a post of that list, and no link is dead: the page is there and shows the post,
\* unless one of the list with the same id that is as young has replaced it.
CompletedSiteIsSound ==
    gen.pc = "done" =>
        /\ DOMAIN gen.begun = site.index /\ site.index \subseteq DOMAIN site.lists
        /\ \A l \in site.index :
            /\ gen.begun[l] \subseteq site.lists[l]
            /\ \A k \in site.lists[l] :
                /\ archived[k].list = l
                /\ <<l, archived[k].id>> \in DOMAIN site.pages
                /\ ShownFor(k, site.pages[<<l, archived[k].id>>])
=============================================================================
