-------------------------- MODULE PostingRules_proofs --------------------------
(***************************************************************************)
(* What PostingRules says of the filters, the announcements and threads,   *)
(* for mails and headers of any length, lists with any owners and          *)
(* subscribers, every set of policy flags, addresses of any length, and    *)
(* archives of any size.                                                   *)
(***************************************************************************)
EXTENDS PostingRules, FiniteSetTheorems, WellFoundedInduction, TLAPS

-------------------------------------------------------------------------------
(***************************************************************************)
(* Announcements                                                           *)
(***************************************************************************)

\* The column is as wide as the longest address of a list with a policy.
LEMMA WidthSuffices ==
    ASSUME NEW policies, NEW lengths \in [{"list", "other"} -> Nat],
           DOMAIN policies = {"list", "other"},
           NEW l \in {"list", "other"}, policies[l] # {}
    PROVE  /\ MapWidth(policies, lengths) \in Nat
           /\ MapWidth(policies, lengths) >= lengths[l] + 8
<1> DEFINE width(m) == IF policies[m] = {} THEN 0 ELSE lengths[m] + 8
           widths == {width(m) : m \in {"list", "other"}}
<1>1. width("list") \in Nat /\ width("other") \in Nat /\ width(l) = lengths[l] + 8
  OBVIOUS
<1>2. widths = {width("list"), width("other")} /\ width(l) \in widths
  OBVIOUS
<1>3. MapWidth(policies, lengths) = Max(widths)
  BY DEF MapWidth
<1> HIDE DEF width
<1>4. \E x \in widths : \A y \in widths : x >= y
  BY <1>1, <1>2
<1>5. Max(widths) \in widths /\ \A y \in widths : Max(widths) >= y
  BY <1>4 DEF Max
<1>6. QED
  BY <1>1, <1>2, <1>3, <1>5

LEMMA SpacesRemain ==
    ASSUME NEW width \in Nat, NEW length \in Nat, width >= length + 8, NEW extra \in 0 .. 8
    PROVE  Padding(width, length + extra) >= 5
BY DEF Padding

LEMMA AnnouncementsAreTrue ==
    ASSUME NEW chosen \in PolicyInputs
    PROVE  AnnouncedAsPromised(chosen)
<1> DEFINE policies == PoliciesOf(chosen)
           policy   == policies["list"]
           joining  == SetListSubscriptionPolicy({}, chosen.subscribing)
           routes   == GenerateMaps(policies)
           Extra(suffix) == CASE suffix = "" -> 0 [] suffix = "+request" -> 8 [] OTHER -> 6
<1>1. DOMAIN policies = {"list", "other"} /\ chosen.lengths \in [{"list", "other"} -> Nat]
  BY DEF PoliciesOf, PolicyInputs
<1> HIDE DEF policies, joining
<1>2. \A author \in Invited(HelpOnPosting(policy)) : PostOf(author, policy).action # "Reject"
  BY DEF Invited, HelpOnPosting, PostOf, CheckRights, Job, ListWith, SubscriberSet, Stop
<1>3. /\ HelpOnSubscribing(joining) = "anyone" => Subscribing(joining) = "subscription"
      /\ HelpOnSubscribing(joining) = "anyone, on request" => Subscribing(joining) = "request"
  BY DEF HelpOnSubscribing, Subscribing
<1>4. PostHeader([policy |-> policy]) = "mailto" => <<"list", "">> \in routes
  BY <1>1 DEF PostHeader, RoutedSuffixes, GenerateMaps
<1>5. \A subject \in {"subscribe", "unsubscribe", "help"} :
         ListRequest("request", subject) = ListRequest(subject, "")
  BY DEF ListRequest
<1>6. ASSUME NEW route \in routes
      PROVE  Padding(MapWidth(policies, chosen.lengths), chosen.lengths[route[1]] + Extra(route[2])) >= 5
  <2>1. route[1] \in {"list", "other"} /\ policies[route[1]] # {}
    BY <1>1 DEF GenerateMaps, RoutedSuffixes
  <2>2. /\ MapWidth(policies, chosen.lengths) \in Nat
        /\ MapWidth(policies, chosen.lengths) >= chosen.lengths[route[1]] + 8
    BY <1>1, <2>1, WidthSuffices
  <2>3. chosen.lengths[route[1]] \in Nat /\ Extra(route[2]) \in 0 .. 8
    BY <1>1, <2>1
  <2>4. QED
    BY <2>2, <2>3, SpacesRemain
<1>7. QED
  BY <1>2, <1>3, <1>4, <1>5, <1>6 DEF AnnouncedAsPromised, policies, joining

\* AnnouncementsHold (policies.rs, postfix.rs, models.rs): for every set of flags, of both
\* kinds of policy and of another list, and for addresses of any length.
THEOREM AnnouncementsAreKept == RulesSpec => []AnnouncementsHold
<1>1. RulesInit => AnnouncementsHold
  BY AnnouncementsAreTrue DEF RulesInit, AnnouncementsHold
<1>2. AnnouncementsHold /\ [RulesNext]_<<rule, input>> => AnnouncementsHold'
  BY DEF AnnouncementsHold, RulesNext
<1>3. QED
  BY <1>1, <1>2, PTL DEF RulesSpec

-------------------------------------------------------------------------------
(***************************************************************************)
(* Headers                                                                 *)
(***************************************************************************)
LEMMA LeastExists ==
    ASSUME NEW S \in SUBSET Nat, S # {}
    PROVE  \E i \in S : \A j \in S : i =< j
<1>1. PICK i \in S : \A j \in S : ~(<<j, i>> \in OpToRel(<, Nat))
  BY NatLessThanWellFounded, WFMin
<1>2. ASSUME NEW j \in S PROVE i =< j
  <2>1. ~(j < i)
    BY <1>1 DEF OpToRel
  <2>2. QED
    BY <2>1
<1>3. QED
  BY <1>2

Names  == STRING \cup {"Subject", "Sender", "List-Id", "List-Help", "List-Post",
                       "List-Unsubscribe", "List-Subscribe", "List-Archive", "Archived-At"}
Words  == STRING \cup {"list", "mailto", "NO", "url", "link", "[id]", "no_subject"}
AnyHeader == [name : Names, value : Seq(Words)]

LEMMA Words1 == ASSUME NEW w \in Words PROVE <<w>> \in Seq(Words)
OBVIOUS

\* What the filters add to the headers own: one List-Id, no Subject.
Extended(headers, own) ==
    /\ headers \in Seq(AnyHeader)
    /\ Len(headers) >= Len(own) + 4
    /\ \A i \in 1 .. Len(own) : headers[i] = own[i]
    /\ \A i \in Len(own) + 1 .. Len(headers) :
          /\ headers[i].name = "List-Id" <=> i = Len(own) + 2
          /\ headers[i].name # "Subject"

LEMMA Joined ==
    ASSUME NEW S, NEW s \in Seq(S), NEW t \in Seq(S)
    PROVE  /\ s \o t \in Seq(S)
           /\ Len(s \o t) = Len(s) + Len(t)
           /\ \A i \in 1 .. Len(s) : (s \o t)[i] = s[i]
           /\ \A i \in Len(s) + 1 .. Len(s) + Len(t) : (s \o t)[i] = t[i - Len(s)]
OBVIOUS

\* The second of these headers is the only List-Id, and none is a Subject.
OnlySecond(headers) ==
    /\ headers \in Seq(AnyHeader)
    /\ Len(headers) >= 4
    /\ \A i \in 1 .. Len(headers) :
          /\ headers[i].name = "List-Id" <=> i = 2
          /\ headers[i].name # "Subject"

LEMMA JoinedSecond ==
    ASSUME NEW s, OnlySecond(s), NEW t \in Seq(AnyHeader),
           \A i \in 1 .. Len(t) : t[i].name \notin {"List-Id", "Subject"}
    PROVE  OnlySecond(s \o t)
<1>1. s \in Seq(AnyHeader) /\ Len(s) \in Nat /\ Len(t) \in Nat /\ Len(s) >= 4
  BY DEF OnlySecond
<1>2. s \o t \in Seq(AnyHeader) /\ Len(s \o t) = Len(s) + Len(t)
  BY <1>1, Joined
<1>3. ASSUME NEW i \in 1 .. Len(s) + Len(t)
      PROVE  ((s \o t)[i].name = "List-Id" <=> i = 2) /\ (s \o t)[i].name # "Subject"
  <2>1. CASE i \in 1 .. Len(s)
    BY <1>1, <2>1, Joined DEF OnlySecond
  <2>2. CASE i \notin 1 .. Len(s)
    <3>1. i \in Len(s) + 1 .. Len(s) + Len(t) /\ i - Len(s) \in 1 .. Len(t) /\ i # 2
      BY <1>1, <2>2
    <3>2. (s \o t)[i] = t[i - Len(s)]
      BY <1>1, <3>1, Joined
    <3>3. QED
      BY <3>1, <3>2
  <2>3. QED
    BY <2>1, <2>2
<1>4. QED
  BY <1>1, <1>2, <1>3 DEF OnlySecond

LEMMA HeaderIn ==
    ASSUME NEW name \in Names, NEW word \in Words
    PROVE  Header(name, <<word>>) \in AnyHeader
BY Words1 DEF Header, AnyHeader

LEMMA ListHeadersFacts ==
    ASSUME NEW list, list.archive \in {"none", "url"}
    PROVE  OnlySecond(ListHeaders(list))
<1> DEFINE first  == <<Header("Sender", <<"list">>), Header("List-Id", <<"list">>),
                       Header("List-Help", <<"mailto">>), Header("List-Post", <<PostHeader(list)>>)>>
           second == IF list.subscribing = {} THEN << >>
                     ELSE <<Header("List-Unsubscribe", <<"mailto">>), Header("List-Subscribe", <<"mailto">>)>>
           third  == IF list.archive = "none" THEN << >> ELSE <<Header("List-Archive", <<list.archive>>)>>
<1>1. "list" \in Words /\ "mailto" \in Words /\ "url" \in Words /\ PostHeader(list) \in Words
  BY DEF PostHeader, Words
<1>2. /\ Header("Sender", <<"list">>) \in AnyHeader
      /\ Header("List-Id", <<"list">>) \in AnyHeader
      /\ Header("List-Help", <<"mailto">>) \in AnyHeader
      /\ Header("List-Post", <<PostHeader(list)>>) \in AnyHeader
  BY <1>1, HeaderIn DEF Names
<1>3. /\ Header("List-Unsubscribe", <<"mailto">>) \in AnyHeader
      /\ Header("List-Subscribe", <<"mailto">>) \in AnyHeader
      /\ Header("List-Archive", <<"url">>) \in AnyHeader
  BY <1>1, HeaderIn DEF Names
<1>4. /\ Header("Sender", <<"list">>).name = "Sender"
      /\ Header("List-Id", <<"list">>).name = "List-Id"
      /\ Header("List-Help", <<"mailto">>).name = "List-Help"
      /\ Header("List-Post", <<PostHeader(list)>>).name = "List-Post"
      /\ Header("List-Unsubscribe", <<"mailto">>).name = "List-Unsubscribe"
      /\ Header("List-Subscribe", <<"mailto">>).name = "List-Subscribe"
      /\ Header("List-Archive", <<"url">>).name = "List-Archive"
  BY DEF Header
<1>5. OnlySecond(first)
  <2>1. first \in Seq(AnyHeader) /\ Len(first) = 4
    BY <1>2
  <2>2. \A i \in 1 .. 4 : i = 1 \/ i = 2 \/ i = 3 \/ i = 4
    OBVIOUS
  <2>3. QED
    BY <1>4, <2>1, <2>2 DEF OnlySecond
<1>6. /\ second \in Seq(AnyHeader)
      /\ \A i \in 1 .. Len(second) : second[i].name \notin {"List-Id", "Subject"}
  BY <1>3, <1>4
<1>7. /\ third \in Seq(AnyHeader)
      /\ \A i \in 1 .. Len(third) : third[i].name \notin {"List-Id", "Subject"}
  BY <1>3, <1>4
<1>8. ListHeaders(list) = (first \o second) \o third
  BY DEF ListHeaders
<1> HIDE DEF first, second, third
<1>9. QED
  BY <1>5, <1>6, <1>7, <1>8, JoinedSecond

LEMMA ListHeadersExtend ==
    ASSUME NEW list, list.archive \in {"none", "url"}, NEW own \in Seq(AnyHeader)
    PROVE  Extended(own \o ListHeaders(list), own)
<1> DEFINE added == ListHeaders(list)
<1>1. OnlySecond(added)
  BY ListHeadersFacts
<1> HIDE DEF added
<1>2. added \in Seq(AnyHeader) /\ Len(added) \in Nat /\ Len(own) \in Nat /\ Len(added) >= 4
  BY <1>1 DEF OnlySecond
<1>3. own \o added \in Seq(AnyHeader) /\ Len(own \o added) = Len(own) + Len(added)
  BY <1>2, Joined
<1>4. \A i \in 1 .. Len(own) : (own \o added)[i] = own[i]
  BY <1>2, Joined
<1>5. ASSUME NEW i \in Len(own) + 1 .. Len(own) + Len(added)
      PROVE  /\ (own \o added)[i].name = "List-Id" <=> i = Len(own) + 2
             /\ (own \o added)[i].name # "Subject"
  <2>1. i - Len(own) \in 1 .. Len(added) /\ (own \o added)[i] = added[i - Len(own)]
    BY <1>2, Joined
  <2>2. i - Len(own) = 2 <=> i = Len(own) + 2
    BY <1>2
  <2>3. QED
    BY <1>1, <2>1, <2>2 DEF OnlySecond
<1>6. Extended(own \o added, own)
  BY <1>2, <1>3, <1>4, <1>5 DEF Extended
<1>7. QED
  BY <1>6 DEF added

LEMMA AppendExtends ==
    ASSUME NEW own \in Seq(AnyHeader), NEW headers, Extended(headers, own),
           NEW header \in AnyHeader, header.name \notin {"List-Id", "Subject"}
    PROVE  Extended(Append(headers, header), own)
BY DEF Extended

LEMMA MoreWords == ASSUME NEW S, NEW T, S \subseteq T PROVE Seq(S) \subseteq Seq(T)
OBVIOUS

LEMMA AuthorHeadersFacts ==
    ASSUME NEW own \in Seq(AuthorHeader)
    PROVE  /\ own \in Seq(AnyHeader)
           /\ Len(own) \in Nat /\ DOMAIN own = 1 .. Len(own)
<1>1. ASSUME NEW i \in 1 .. Len(own) PROVE own[i] \in AnyHeader
  <2>1. own[i] \in AuthorHeader
    OBVIOUS
  <2>2. STRING \subseteq Names /\ Seq(STRING) \subseteq Seq(Words)
    BY MoreWords DEF Names, Words
  <2> HIDE DEF Names, Words
  <2>3. QED
    BY <2>1, <2>2 DEF AuthorHeader, AnyHeader
<1>2. Len(own) \in Nat /\ DOMAIN own = 1 .. Len(own) /\ own = [i \in 1 .. Len(own) |-> own[i]]
  BY DEF AuthorHeader
<1>3. own \in Seq(AnyHeader)
  BY <1>1, <1>2
<1>4. QED
  BY <1>2, <1>3

LEMMA ExtendedFacts ==
    ASSUME NEW own \in Seq(AuthorHeader), NEW headers, Extended(headers, own)
    PROVE  /\ headers \in Seq(AnyHeader) /\ Len(headers) \in Nat /\ DOMAIN headers = 1 .. Len(headers)
           /\ Len(own) \in Nat /\ DOMAIN own = 1 .. Len(own) /\ Len(headers) >= Len(own) + 4
           /\ \A i \in 1 .. Len(own) : headers[i] = own[i]
           /\ \A i \in Len(own) + 1 .. Len(headers) :
                 /\ headers[i].name = "List-Id" <=> i = Len(own) + 2
                 /\ headers[i].name # "Subject"
BY AuthorHeadersFacts DEF Extended

Added(own, sent, name) == {i \in DOMAIN sent \ DOMAIN own : sent[i].name = name}

LEMMA WithoutTag ==
    ASSUME NEW own \in Seq(AuthorHeader), NEW headers, Extended(headers, own)
    PROVE  HeadersAsPromised(own, headers, "disabled")
<1>1. \A i \in DOMAIN own : headers[i] = own[i]
  BY ExtendedFacts
<1>2. Added(own, headers, "Subject") = {}
  BY ExtendedFacts DEF Added
<1>3. Added(own, headers, "List-Id") = {Len(own) + 2}
  BY ExtendedFacts DEF Added
<1>4. Cardinality({}) = 0 /\ Cardinality({Len(own) + 2}) = 1
  BY FS_EmptySet, FS_Singleton
<1>5. QED
  BY <1>1, <1>2, <1>3, <1>4 DEF HeadersAsPromised, Added

\* What AddSubjectTagPrefix makes of the headers
Prefixed(headers) ==
    LET subjects == {i \in DOMAIN headers : headers[i].name = "Subject"}
        first    == CHOOSE i \in subjects : \A j \in subjects : i <= j
    IN  IF subjects = {} THEN Append(headers, Header("Subject", <<"[id]", "no_subject">>))
        ELSE [headers EXCEPT ![first].value = <<"[id]">> \o @]

LEMMA WithTag ==
    ASSUME NEW own \in Seq(AuthorHeader), NEW headers, Extended(headers, own)
    PROVE  HeadersAsPromised(own, Prefixed(headers), "enabled")
<1> DEFINE subjects == {i \in DOMAIN headers : headers[i].name = "Subject"}
           first    == CHOOSE i \in subjects : \A j \in subjects : i <= j
           n == Len(headers)
           after == Prefixed(headers)
<1>1. /\ headers \in Seq(AnyHeader) /\ n \in Nat /\ DOMAIN headers = 1 .. n
      /\ Len(own) \in Nat /\ DOMAIN own = 1 .. Len(own) /\ n >= Len(own) + 4
      /\ \A i \in 1 .. Len(own) : headers[i] = own[i]
      /\ \A i \in Len(own) + 1 .. n :
            /\ headers[i].name = "List-Id" <=> i = Len(own) + 2
            /\ headers[i].name # "Subject"
  BY ExtendedFacts
<1>2. \A x : Cardinality({x}) = 1
  BY FS_Singleton
<1>3. \A i \in subjects : i \in 1 .. Len(own) /\ own[i].name = "Subject"
  BY <1>1
<1>4. CASE subjects = {}
  <2> DEFINE made == Header("Subject", <<"[id]", "no_subject">>)
  <2>1. after = Append(headers, made)
    BY <1>4 DEF Prefixed
  <2>2. made.name = "Subject" /\ Head(made.value) = "[id]"
    BY DEF Header
  <2>3. FirstSubject(own) = {}
    BY <1>1, <1>4 DEF FirstSubject
  <2> HIDE DEF made, after, subjects
  <2>4. /\ DOMAIN after = 1 .. n + 1
        /\ \A i \in 1 .. n : after[i] = headers[i]
        /\ after[n + 1] = made
    BY <1>1, <2>1
  <2> HIDE DEF n
  <2>5. \A i \in DOMAIN own : after[i] = own[i]
    BY <1>1, <2>4
  <2>6. Added(own, after, "Subject") = {n + 1}
    <3>1. \A i \in (1 .. n + 1) \ (1 .. Len(own)) : i = n + 1 \/ i \in Len(own) + 1 .. n
      BY <1>1
    <3>2. \A i \in Len(own) + 1 .. n : after[i].name # "Subject"
      BY <1>1, <2>4
    <3>3. n + 1 \in (1 .. n + 1) \ (1 .. Len(own)) /\ after[n + 1].name = "Subject"
      BY <1>1, <2>2, <2>4
    <3>4. QED
      BY <1>1, <2>4, <3>1, <3>2, <3>3 DEF Added
  <2>7. Added(own, after, "List-Id") = {Len(own) + 2}
    BY <1>1, <2>2, <2>4 DEF Added
  <2>8. {} \cup {n + 1} = {n + 1}
    OBVIOUS
  <2>9. HeadersAsPromised(own, after, "enabled")
    <3>1. \A i \in Added(own, after, "Subject") : Head(after[i].value) = "[id]"
      BY <2>2, <2>4, <2>6
    <3>2. Cardinality(FirstSubject(own) \cup Added(own, after, "Subject")) = 1
      BY <1>2, <2>3, <2>6, <2>8
    <3>3. Cardinality(Added(own, after, "List-Id")) = 1
      BY <1>2, <2>7
    <3>4. QED
      BY <2>3, <2>5, <3>1, <3>2, <3>3 DEF HeadersAsPromised, Added
  <2>10. QED
    BY <2>9 DEF after
<1>5. CASE subjects # {}
  <2>1. subjects \in SUBSET Nat
    BY <1>1
  <2>2. first \in subjects /\ \A j \in subjects : first =< j
    BY <1>5, <2>1, LeastExists
  <2> DEFINE tagged == [headers[first] EXCEPT !.value = <<"[id]">> \o @]
  <2>3. after = [headers EXCEPT ![first] = tagged]
    BY <1>5 DEF Prefixed
  <2> HIDE DEF first, after
  <2>4. first \in 1 .. Len(own) /\ headers[first] = own[first] /\ own[first].name = "Subject"
    BY <1>1, <1>3, <2>2
  <2>5. \A i \in DOMAIN own : own[i].name = "Subject" => i \in subjects
    BY <1>1
  <2>6. FirstSubject(own) = {first}
    BY <1>1, <1>3, <2>1, <2>2, <2>4, <2>5 DEF FirstSubject
  <2>7. headers[first] \in AnyHeader
    BY <1>1, <2>4
  <2> HIDE DEF subjects, n
  <2>8. tagged = Header("Subject", <<"[id]">> \o own[first].value)
    BY <2>4, <2>7 DEF AnyHeader, Header
  <2> HIDE DEF tagged
  <2>9. /\ DOMAIN after = 1 .. n
        /\ after[first] = tagged
        /\ \A i \in 1 .. n : i # first => after[i] = headers[i]
    BY <1>1, <2>3, <2>4
  <2>10. \A i \in DOMAIN own \ {first} : after[i] = own[i]
    BY <1>1, <2>9
  <2>11. Added(own, after, "Subject") = {}
    BY <1>1, <2>4, <2>9 DEF Added
  <2>12. Added(own, after, "List-Id") = {Len(own) + 2}
    BY <1>1, <2>4, <2>9 DEF Added
  <2>13. {first} \cup {} = {first}
    OBVIOUS
  <2>14. QED
    BY <1>2, <2>6, <2>8, <2>9, <2>10, <2>11, <2>12, <2>13 DEF HeadersAsPromised, Added, after
<1>6. QED
  BY <1>4, <1>5

-------------------------------------------------------------------------------
(***************************************************************************)
(* The chain of filters                                                    *)
(***************************************************************************)

\* A job while no filter has stopped it
Working(mail, list, ends, headers) ==
    [mail |-> [from |-> mail.from, ends |-> ends, headers |-> headers],
     list |-> list, action |-> "Hold", flow |-> "next", recipients |-> {}, digests |-> {}]

LEMMA MailFields ==
    ASSUME NEW mail \in Mails
    PROVE  /\ mail = [from |-> mail.from, ends |-> mail.ends, headers |-> mail.headers]
           /\ mail.headers \in Seq(AuthorHeader)
BY DEF Mails

LEMMA JobWorks ==
    ASSUME NEW mail \in Mails, NEW list
    PROVE  Job(mail, list) = Working(mail, list, mail.ends, mail.headers)
BY MailFields DEF Job, Working

\* An author with the right passes, one without is stopped.
LEMMA Rights ==
    ASSUME NEW job, NEW list, job.list = list, NEW from, job.mail.from = from
    PROVE  /\ HasRight(from, list) => CheckRights(job) = job
           /\ ~HasRight(from, list) =>
                 CheckRights(job) = Stop(job, "Reject") \/ CheckRights(job) = Stop(job, "Defer")
<1>1. CASE "announce_only" \in list.policy
  BY <1>1 DEF HasRight, CheckRights
<1>2. CASE "announce_only" \notin list.policy /\ "subscription_only" \in list.policy
  BY <1>2 DEF HasRight, CheckRights
<1>3. CASE "announce_only" \notin list.policy /\ "subscription_only" \notin list.policy
  BY <1>3 DEF HasRight, CheckRights
<1>4. QED
  BY <1>1, <1>2, <1>3

LEMMA StoppedStays ==
    ASSUME NEW job, job.flow # "next", NEW filter
    PROVE  Feed(job, filter) = job
BY DEF Feed

LEMMA WorkingFed ==
    ASSUME NEW job, job.flow = "next"
    PROVE  /\ Feed(job, "recipients") = FinalizeRecipients(job)
           /\ Feed(job, "tag") = AddSubjectTagPrefix(job)
           /\ Feed(job, "link") = ArchivedAtLink(job)
           /\ Feed(job, "headers") = AddListHeaders(job)
           /\ Feed(job, "crlf") = FixCRLF(job)
           /\ Feed(job, "mimes") = job
           /\ Feed(job, "rights") = CheckRights(job)
<1>1. Feed(job, "recipients") = FinalizeRecipients(job)
  BY DEF Feed
<1>2. Feed(job, "tag") = AddSubjectTagPrefix(job)
  BY DEF Feed
<1>3. Feed(job, "link") = ArchivedAtLink(job)
  BY DEF Feed
<1>4. Feed(job, "headers") = AddListHeaders(job)
  BY DEF Feed
<1>5. Feed(job, "crlf") = FixCRLF(job)
  BY DEF Feed
<1>6. Feed(job, "mimes") = job
  BY DEF Feed, MimeReject
<1>7. Feed(job, "rights") = CheckRights(job)
  BY DEF Feed
<1>8. QED
  BY <1>1, <1>2, <1>3, <1>4, <1>5, <1>6, <1>7

Crlf(ends) == [i \in DOMAIN ends |-> IF ends[i] = "none" THEN "none" ELSE "crlf"]

LEMMA HeadersSet ==
    ASSUME NEW mail, NEW list, NEW ends, NEW headers, NEW after
    PROVE  [Working(mail, list, ends, headers) EXCEPT !.mail.headers = after]
             = Working(mail, list, ends, after)
BY DEF Working

LEMMA ListHeadersSet ==
    ASSUME NEW job
    PROVE  AddListHeaders(job) = [job EXCEPT !.mail.headers = job.mail.headers \o ListHeaders(job.list)]
BY DEF AddListHeaders

LEMMA WorkingGoesOn ==
    ASSUME NEW mail, NEW list, NEW ends, NEW headers
    PROVE  Working(mail, list, ends, headers).flow = "next"
BY DEF Working

LEMMA HeadersStep ==
    ASSUME NEW mail, NEW list, NEW ends, NEW headers
    PROVE  AddListHeaders(Working(mail, list, ends, headers))
             = Working(mail, list, ends, headers \o ListHeaders(list))
<1> DEFINE job == Working(mail, list, ends, headers)
<1>1. job.mail.headers = headers /\ job.list = list
  BY DEF Working
<1> DEFINE after == headers \o ListHeaders(list)
<1>2. AddListHeaders(job) = [job EXCEPT !.mail.headers = after]
  BY <1>1, ListHeadersSet
<1> HIDE DEF after
<1>3. [job EXCEPT !.mail.headers = after] = Working(mail, list, ends, after)
  BY HeadersSet
<1>4. QED
  BY <1>2, <1>3 DEF after

LEMMA TagStep ==
    ASSUME NEW mail, NEW list, NEW ends, NEW headers
    PROVE  AddSubjectTagPrefix(Working(mail, list, ends, headers)) =
             Working(mail, list, ends,
                     IF list.subjectTag = "disabled" THEN headers ELSE Prefixed(headers))
<1> DEFINE job == Working(mail, list, ends, headers)
<1> DEFINE subjects == {i \in DOMAIN headers : headers[i].name = "Subject"}
           first    == CHOOSE i \in subjects : \A j \in subjects : i <= j
           tagged   == [headers EXCEPT ![first].value = <<"[id]">> \o @]
<1>1. job.mail.headers = headers /\ job.list = list
  BY DEF Working
<1>2. CASE list.subjectTag = "disabled"
  BY <1>1, <1>2 DEF AddSubjectTagPrefix
<1>3. CASE list.subjectTag # "disabled" /\ subjects = {}
  <2>1. AddSubjectTagPrefix(job) = [job EXCEPT !.mail.headers = Prefixed(headers)]
    BY <1>1, <1>3 DEF AddSubjectTagPrefix, Prefixed
  <2>2. QED
    BY <1>3, <2>1, HeadersSet
<1>4. CASE list.subjectTag # "disabled" /\ subjects # {}
  <2>1. Prefixed(headers) = tagged
    BY <1>4 DEF Prefixed
  <2>2. AddSubjectTagPrefix(job) =
          [job EXCEPT !.mail.headers[first].value = <<"[id]">> \o @]
    BY <1>1, <1>4 DEF AddSubjectTagPrefix
  <2> HIDE DEF first
  <2>3. [job EXCEPT !.mail.headers[first].value = <<"[id]">> \o @]
          = [job EXCEPT !.mail.headers = tagged]
    BY <1>1 DEF Working
  <2> HIDE DEF tagged
  <2>4. [job EXCEPT !.mail.headers = tagged] = Working(mail, list, ends, tagged)
    BY HeadersSet
  <2>5. QED
    BY <1>4, <2>1, <2>2, <2>3, <2>4 DEF first
<1>5. QED
  BY <1>2, <1>3, <1>4

\* Whom FinalizeRecipients sends the mail to
LEMMA ServedOnce ==
    ASSUME NEW mail, NEW list, list.subscriptions \in SubscriptionTables, NEW ends, NEW headers
    PROVE  LET job   == Working(mail, list, ends, headers)
               after == FinalizeRecipients(job)
           IN  /\ after.mail = job.mail /\ after.action = "Accept" /\ after.flow = "next"
               /\ after.recipients \cap after.digests = {}
               /\ after.recipients \cup after.digests =
                    {p \in SubscriberSet(list) :
                        p = mail.from => \E s \in list.subscriptions : s.address = p /\ s.own = "yes"}
<1> DEFINE gets == {s \in list.subscriptions : s.address # mail.from \/ s.own = "yes"}
           AddressesOf(digest) == {s.address : s \in {t \in gets : t.digest = digest}}
           recipients == AddressesOf("no")
           digests    == AddressesOf("yes")
<1>1. /\ \A s \in list.subscriptions : s.digest \in {"yes", "no"}
      /\ \A r, s \in list.subscriptions : r.address = s.address => r = s
  BY DEF SubscriptionTables
<1>2. recipients \cap digests = {}
  BY <1>1
<1>3. recipients \cup digests = {s.address : s \in gets}
  BY <1>1
<1>4. {s.address : s \in gets} =
        {p \in SubscriberSet(list) :
            p = mail.from => \E s \in list.subscriptions : s.address = p /\ s.own = "yes"}
  BY <1>1 DEF SubscriberSet
<1> DEFINE job == Working(mail, list, ends, headers)
<1>5. job.list = list /\ job.mail.from = mail.from
  BY DEF Working
<1>6. FinalizeRecipients(job) =
        [job EXCEPT !.recipients = recipients, !.digests = digests, !.action = "Accept"]
  BY <1>5 DEF FinalizeRecipients
<1> HIDE DEF recipients, digests
<1>7. LET after == [job EXCEPT !.recipients = recipients, !.digests = digests, !.action = "Accept"]
      IN  /\ after.mail = job.mail /\ after.action = "Accept" /\ after.flow = "next"
          /\ after.recipients = recipients /\ after.digests = digests
  BY DEF Working
<1>8. QED
  BY <1>2, <1>3, <1>4, <1>6, <1>7
\* The filters after the check of the rights
Rest(job) == Feed(Rewritten(Feed(job, "mimes")), "recipients")

LEMMA StoppedRest ==
    ASSUME NEW job, job.flow # "next"
    PROVE  Rest(job) = job
BY StoppedStays DEF Rest, Rewritten

\* An author with the right: the chain ends in a panic, with the post on hold, or with a mail
\* that is sent.
LEMMA WorkingRest ==
    ASSUME NEW mail \in Mails, NEW list \in FilteredLists
    PROVE  LET job == Rest(Working(mail, list, mail.ends, mail.headers))
           IN  \/ /\ job.flow = "panicked" /\ job.action = "Hold"
                  /\ list.archivedAt = "no_preserve_carets"
               \/ job.flow = "stopped" /\ job.action = "Hold"
               \/ \E headers :
                     /\ HeadersAsPromised(mail.headers, headers, list.subjectTag)
                     /\ job = FinalizeRecipients(Working(mail, list, Crlf(mail.ends), headers))
<1> DEFINE own == mail.headers
           ends == Crlf(mail.ends)
           start == Working(mail, list, mail.ends, own)
           listed == own \o ListHeaders(list)
           second == Working(mail, list, ends, own)
           third  == Working(mail, list, ends, listed)
<1>1. /\ own \in Seq(AuthorHeader)
      /\ list.archive \in {"none", "url"} /\ list.subjectTag \in {"enabled", "disabled"}
      /\ list.archivedAt \in {"absent", "renders", "fails", "no_preserve_carets"}
  BY MailFields DEF FilteredLists
<1>2. own \in Seq(AnyHeader)
  BY <1>1, AuthorHeadersFacts
<1>3. Rest(start) = Feed(Feed(Feed(Feed(Feed(start, "crlf"), "headers"),
                       "link"), "tag"), "recipients")
  BY WorkingGoesOn, WorkingFed DEF Rest, Rewritten
<1>4. Feed(start, "crlf") = second
  <2>1. start.flow = "next" /\ FixCRLF(start) = second
    BY DEF Working, FixCRLF, Crlf
  <2>2. QED
    BY <2>1, WorkingFed
<1>5. Feed(second, "headers") = third
  <2>1. second.flow = "next" /\ AddListHeaders(second) = third
    BY HeadersStep, WorkingGoesOn, Zenon
  <2>2. QED
    BY <2>1, WorkingFed
<1>6. Extended(listed, own)
  BY <1>1, <1>2, ListHeadersExtend
<1>7. Rest(start) = Feed(Feed(Feed(third, "link"), "tag"), "recipients")
  BY <1>3, <1>4, <1>5
<1>8. /\ third.flow = "next" /\ third.list = list
      /\ Feed(third, "link") = ArchivedAtLink(third)
  BY WorkingFed DEF Working
<1> HIDE DEF listed, start, second, ends
<1>9. CASE list.archivedAt = "no_preserve_carets"
  <2>1. Feed(third, "link") = Panic(third)
    BY <1>8, <1>9 DEF ArchivedAtLink
  <2>2. Panic(third).flow = "panicked" /\ Panic(third).action = "Hold"
    BY DEF Panic, Working
  <2>3. Rest(start) = Panic(third)
    BY <1>7, <2>1, <2>2, StoppedStays
  <2>4. QED
    BY <1>9, <2>2, <2>3 DEF start
<1>10. CASE list.archivedAt = "fails"
  <2>1. Feed(third, "link") = Stop(third, "Hold")
    BY <1>8, <1>10 DEF ArchivedAtLink
  <2>2. Stop(third, "Hold").flow = "stopped" /\ Stop(third, "Hold").action = "Hold"
    BY DEF Stop, Working
  <2>3. Rest(start) = Stop(third, "Hold")
    BY <1>7, <2>1, <2>2, StoppedStays
  <2>4. QED
    BY <2>2, <2>3 DEF start
<1>11. CASE list.archivedAt \in {"absent", "renders"}
  <2>1. PICK headers : /\ Extended(headers, own)
                       /\ Feed(third, "link") = Working(mail, list, ends, headers)
    <3>1. CASE list.archivedAt = "absent"
      BY <1>6, <1>8, <3>1 DEF ArchivedAtLink
    <3>2. CASE list.archivedAt = "renders"
      <4> DEFINE link == Header("Archived-At", <<"link">>)
      <4>1. Feed(third, "link") = Working(mail, list, ends, Append(listed, link))
        BY <1>8, <3>2 DEF ArchivedAtLink, Working
      <4>2. link \in AnyHeader /\ link.name = "Archived-At"
        <5>1. "link" \in Words /\ "Archived-At" \in Names
          BY DEF Words, Names
        <5>2. QED
          BY <5>1, HeaderIn DEF Header
      <4> HIDE DEF link
      <4>3. Extended(Append(listed, link), own)
        BY <1>2, <1>6, <4>2, AppendExtends
      <4>4. QED
        BY <4>1, <4>3
    <3>3. QED
      BY <1>11, <3>1, <3>2
  <2> DEFINE final == IF list.subjectTag = "disabled" THEN headers ELSE Prefixed(headers)
             fourth == Working(mail, list, ends, headers)
             fifth == Working(mail, list, ends, final)
  <2>2. Feed(fourth, "tag") = fifth
    <3>1. fourth.flow = "next" /\ AddSubjectTagPrefix(fourth) = fifth
      BY TagStep, WorkingGoesOn, Zenon
    <3>2. QED
      BY <3>1, WorkingFed
  <2>3. Feed(fifth, "recipients") = FinalizeRecipients(fifth)
    BY WorkingGoesOn, WorkingFed
  <2>4. HeadersAsPromised(own, final, list.subjectTag)
    <3>1. CASE list.subjectTag = "disabled"
      BY <1>1, <2>1, <3>1, WithoutTag
    <3>2. CASE list.subjectTag = "enabled"
      BY <1>1, <2>1, <3>2, WithTag
    <3>3. QED
      BY <1>1, <3>1, <3>2
  <2>5. Rest(start) = FinalizeRecipients(fifth)
    BY <1>7, <2>1, <2>2, <2>3
  <2> HIDE DEF final
  <2>6. QED
    BY <2>4, <2>5 DEF start, ends
<1>12. QED
  BY <1>1, <1>9, <1>10, <1>11

LEMMA PostsAreFiltered ==
    ASSUME NEW mail \in Mails, NEW list \in FilteredLists
    PROVE  FilteredAsPromised(mail, list)
<1> DEFINE start == Job(mail, list)
           job   == Filtered(mail, list)
           May   == HasRight(mail.from, list)
<1>1. start = Working(mail, list, mail.ends, mail.headers)
  BY JobWorks
<1>2. start.flow = "next" /\ start.list = list /\ start.mail = mail
  BY DEF Job
<1>3. job = Rest(CheckRights(start))
  BY <1>2, WorkingFed DEF Filtered, Admitted, Rewritten, Rest
<1> HIDE DEF start, job
<1>4. CASE ~May
  <2>1. PICK action \in {"Reject", "Defer"} : CheckRights(start) = Stop(start, action)
    BY <1>2, <1>4, Rights
  <2>2. Stop(start, action).flow = "stopped" /\ Stop(start, action).action = action
    BY DEF Stop, start, Job
  <2>3. job = Stop(start, action)
    BY <1>3, <2>1, <2>2, StoppedRest
  <2>4. job = [start EXCEPT !.flow = "stopped", !.action = job.action]
    BY <2>2, <2>3 DEF Stop, start, Job
  <2>5. QED
    BY <1>4, <2>2, <2>3, <2>4 DEF FilteredAsPromised, job, start
<1>5. CASE May
  <2>1. job = Rest(start)
    BY <1>2, <1>3, <1>5, Rights
  <2>2. CASE job.action # "Accept"
    <3>1. \/ job.flow = "panicked" /\ list.archivedAt = "no_preserve_carets"
          \/ job.flow = "stopped"
      BY <1>1, <2>1, <2>2, WorkingRest, ServedOnce DEF FilteredLists
    <3>2. QED
      BY <1>5, <2>2, <3>1 DEF FilteredAsPromised, job
  <2>3. CASE job.action = "Accept"
    <3> DEFINE ends == Crlf(mail.ends)
    <3>1. PICK headers :
             /\ HeadersAsPromised(mail.headers, headers, list.subjectTag)
             /\ job = FinalizeRecipients(Working(mail, list, ends, headers))
      BY <1>1, <2>1, <2>3, WorkingRest
    <3>2. list.subscriptions \in SubscriptionTables /\ list.subjectTag \in {"enabled", "disabled"}
      BY DEF FilteredLists
    <3> HIDE DEF ends
    <3>3. /\ job.mail.headers = headers /\ job.mail.ends = ends /\ job.flow = "next"
          /\ job.recipients \cap job.digests = {}
          /\ job.recipients \cup job.digests =
                {p \in SubscriberSet(list) :
                    p = mail.from => \E s \in list.subscriptions : s.address = p /\ s.own = "yes"}
      BY <3>1, <3>2, ServedOnce DEF Working
    <3>4. \A i \in DOMAIN mail.ends : ends[i] = (IF mail.ends[i] = "none" THEN "none" ELSE "crlf")
      BY DEF ends, Crlf
    <3>5. QED
      BY <1>5, <3>1, <3>3, <3>4 DEF FilteredAsPromised, job
  <2>4. QED
    BY <2>2, <2>3
<1>6. QED
  BY <1>4, <1>5

\* FilteredPosts (message_filters.rs): for mails with any lines and any headers, and lists with
\* any owners, subscribers and settings.
THEOREM PostsAreFilteredAsPromised == RulesSpec => []FilteredPosts
<1>1. RulesInit => FilteredPosts
  BY PostsAreFiltered DEF RulesInit, FilteredPosts
<1>2. FilteredPosts /\ [RulesNext]_<<rule, input>> => FilteredPosts'
  BY DEF FilteredPosts, RulesNext
<1>3. QED
  BY <1>1, <1>2, PTL DEF RulesSpec

-------------------------------------------------------------------------------
(***************************************************************************)
(* What a relation leads to                                                *)
(***************************************************************************)
LEMMA ReachedGoesOn ==
    ASSUME NEW relation, NEW x
    PROVE  /\ x \in Reached(relation, x)
           /\ \A p \in relation : p[1] \in Reached(relation, x) => p[2] \in Reached(relation, x)
<1> DEFINE places == {x} \cup {p[2] : p \in relation}
<1>1. x \in places /\ \A p \in relation : p[2] \in places
  OBVIOUS
<1> HIDE DEF places
<1>2. Reached(relation, x) =
        {y \in places : \A S \in SUBSET places :
            x \in S /\ (\A p \in relation : p[1] \in S => p[2] \in S) => y \in S}
  BY DEF Reached, places
<1>3. QED
  BY <1>1, <1>2

LEMMA ReachedLeast ==
    ASSUME NEW relation, NEW x, NEW S, x \in S,
           \A p \in relation : p[1] \in S => p[2] \in S
    PROVE  Reached(relation, x) \subseteq S
<1> DEFINE places == {x} \cup {p[2] : p \in relation}
           within == S \cap places
<1>1. x \in places /\ \A p \in relation : p[2] \in places
  OBVIOUS
<1> HIDE DEF places
<1>2. Reached(relation, x) =
        {y \in places : \A T \in SUBSET places :
            x \in T /\ (\A p \in relation : p[1] \in T => p[2] \in T) => y \in T}
  BY DEF Reached, places
<1>3. /\ within \in SUBSET places /\ x \in within
      /\ \A p \in relation : p[1] \in within => p[2] \in within
  BY <1>1
<1>4. QED
  BY <1>2, <1>3

-------------------------------------------------------------------------------
(***************************************************************************)
(* The name of a thread                                                    *)
(***************************************************************************)
Passed(tree) == {n \in DOMAIN tree : tree[n].message = "no" /\ tree[n].children # << >>}
Down(tree)   == {<<m, Head(tree[m].children)>> : m \in Passed(tree)}

LEMMA FirstMessageReached ==
    ASSUME NEW tree, NEW n
    PROVE  FirstMessage(tree, n) = {m \in Reached(Down(tree), n) : tree[m].message = "yes"}
BY DEF FirstMessage, Down, Passed

\* The way stays at a node that it does not pass, or goes on to its first child.
LEMMA OneStepDown ==
    ASSUME NEW tree, NEW n
    PROVE  /\ n \notin Passed(tree) => Reached(Down(tree), n) = {n}
           /\ n \in Passed(tree) =>
                 Reached(Down(tree), n) = {n} \cup Reached(Down(tree), Head(tree[n].children))
<1>1. \A p \in Down(tree) : p[1] \in Passed(tree) /\ p[2] = Head(tree[p[1]].children)
  BY DEF Down
<1>2. \A m \in Passed(tree) : <<m, Head(tree[m].children)>> \in Down(tree)
  BY DEF Down
<1>3. ASSUME n \notin Passed(tree)
      PROVE  Reached(Down(tree), n) = {n}
  <2> DEFINE here == {n}
  <2>1. n \in here /\ \A p \in Down(tree) : p[1] \in here => p[2] \in here
    BY <1>1, <1>3
  <2> HIDE DEF here
  <2>2. Reached(Down(tree), n) \subseteq here
    BY <2>1, ReachedLeast
  <2>3. QED
    BY <2>2, ReachedGoesOn DEF here
<1>4. ASSUME n \in Passed(tree)
      PROVE  Reached(Down(tree), n) = {n} \cup Reached(Down(tree), Head(tree[n].children))
  <2> DEFINE child == Head(tree[n].children)
             below == Reached(Down(tree), child)
  <2>1. child \in below /\ \A p \in Down(tree) : p[1] \in below => p[2] \in below
    BY ReachedGoesOn
  <2>2. n \in Reached(Down(tree), n) /\ child \in Reached(Down(tree), n)
    BY <1>2, <1>4, ReachedGoesOn
  <2>3. \A p \in Down(tree) : p[1] \in Reached(Down(tree), n) => p[2] \in Reached(Down(tree), n)
    BY ReachedGoesOn
  <2>4. below \subseteq Reached(Down(tree), n)
    BY <2>2, <2>3, ReachedLeast
  <2> DEFINE both == {n} \cup below
  <2>5. n \in both /\ \A p \in Down(tree) : p[1] \in both => p[2] \in both
    BY <1>1, <2>1
  <2> HIDE DEF both
  <2>6. Reached(Down(tree), n) \subseteq both
    BY <2>5, ReachedLeast
  <2>7. QED
    BY <2>2, <2>4, <2>6 DEF both
<1>5. QED
  BY <1>3, <1>4

\* What the loop of thread_roots computes, as an equation
Finds(tree, f) ==
    f = [n \in DOMAIN tree |->
          IF tree[n].message = "yes" THEN {n}
          ELSE IF tree[n].children = << >> THEN {}
          ELSE f[Head(tree[n].children)]]

LEMMA FirstMessagesAreFound ==
    ASSUME NEW tree \in Trees
    PROVE  Finds(tree, [n \in DOMAIN tree |-> FirstMessage(tree, n)])
<1> DEFINE f == [n \in DOMAIN tree |-> FirstMessage(tree, n)]
<1>1. PICK nodes : tree \in [nodes -> [message : {"yes", "no"}, children : Seq(nodes)]]
  BY DEF Trees
<1>2. ASSUME NEW n \in DOMAIN tree
      PROVE  f[n] = (IF tree[n].message = "yes" THEN {n}
                     ELSE IF tree[n].children = << >> THEN {}
                     ELSE f[Head(tree[n].children)])
  <2>1. tree[n].message \in {"yes", "no"} /\ tree[n].children \in Seq(nodes) /\ DOMAIN tree = nodes
    BY <1>1
  <2>2. f[n] = {m \in Reached(Down(tree), n) : tree[m].message = "yes"}
    BY FirstMessageReached
  <2>3. CASE tree[n].message = "yes"
    BY <2>2, <2>3, OneStepDown DEF Passed
  <2>4. CASE tree[n].message = "no" /\ tree[n].children = << >>
    BY <2>2, <2>4, OneStepDown DEF Passed
  <2>5. CASE tree[n].message = "no" /\ tree[n].children # << >>
    <3> DEFINE child == Head(tree[n].children)
    <3>1. child \in DOMAIN tree
      BY <2>1, <2>5
    <3>2. f[child] = {m \in Reached(Down(tree), child) : tree[m].message = "yes"}
      BY <3>1, FirstMessageReached
    <3>3. Reached(Down(tree), n) = {n} \cup Reached(Down(tree), child)
      BY <2>5, OneStepDown DEF Passed
    <3>4. f[n] = f[child]
      BY <2>2, <2>5, <3>2, <3>3
    <3>5. QED
      BY <2>5, <3>4
  <2>6. QED
    BY <2>1, <2>3, <2>4, <2>5
<1>3. QED
  BY <1>2 DEF Finds

\* The loop goes down, so the equation has one solution.
LEMMA FoundOnce ==
    ASSUME NEW tree \in Trees, NEW f, Finds(tree, f), NEW g, Finds(tree, g), NEW n \in DOMAIN tree
    PROVE  f[n] = g[n]
<1>1. PICK nodes : tree \in [nodes -> [message : {"yes", "no"}, children : Seq(nodes)]]
  BY DEF Trees
<1>2. PICK height \in [DOMAIN tree -> Nat] :
         \A m \in DOMAIN tree : \A i \in DOMAIN tree[m].children :
             height[tree[m].children[i]] < height[m]
  BY DEF Trees
<1> DEFINE Differ == {m \in DOMAIN tree : f[m] # g[m]}
           heights == {height[m] : m \in Differ}
<1> SUFFICES ASSUME n \in Differ
             PROVE  FALSE
  OBVIOUS
<1>3. heights \in SUBSET Nat /\ heights # {}
  BY <1>2
<1>4. PICK h \in heights : \A i \in heights : h =< i
  BY <1>3, LeastExists
<1>5. PICK m \in Differ : h = height[m]
  BY <1>4
<1>6. /\ f[m] = (IF tree[m].message = "yes" THEN {m} ELSE IF tree[m].children = << >> THEN {}
                 ELSE f[Head(tree[m].children)])
      /\ g[m] = (IF tree[m].message = "yes" THEN {m} ELSE IF tree[m].children = << >> THEN {}
                 ELSE g[Head(tree[m].children)])
  BY DEF Finds
<1>7. tree[m].children # << >> /\ f[Head(tree[m].children)] # g[Head(tree[m].children)]
  BY <1>6
<1>8. tree[m].children \in Seq(nodes) /\ DOMAIN tree = nodes
  BY <1>1
<1> DEFINE child == Head(tree[m].children)
<1>9. 1 \in DOMAIN tree[m].children /\ child = tree[m].children[1] /\ child \in DOMAIN tree
  BY <1>7, <1>8
<1>10. height[child] < height[m] /\ child \in Differ
  BY <1>2, <1>7, <1>9
<1>11. height[child] \in heights /\ height[child] \in Nat /\ height[m] \in Nat
  BY <1>2, <1>9, <1>10
<1>12. QED
  BY <1>4, <1>5, <1>10, <1>11

LEMMA ThreadsAreNamed ==
    ASSUME NEW tree \in Trees, NEW root \in DOMAIN tree
    PROVE  RootMessage(tree, root) = FirstMessage(tree, root)
<1> DEFINE found == CHOOSE f : Finds(tree, f)
           first == [n \in DOMAIN tree |-> FirstMessage(tree, n)]
<1>1. RootMessage(tree, root) = found[root]
  BY DEF RootMessage, Finds
<1>2. Finds(tree, first)
  BY FirstMessagesAreFound
<1>3. Finds(tree, found)
  BY <1>2
<1>4. first[root] = FirstMessage(tree, root)
  OBVIOUS
<1> HIDE DEF found, first
<1>5. QED
  BY <1>1, <1>2, <1>3, <1>4, FoundOnce
-------------------------------------------------------------------------------
(***************************************************************************)
(* The rows of a thread                                                    *)
(***************************************************************************)
Link(table, root, row, i) == table[row[i]].reply = (IF i = 1 THEN root ELSE table[row[i - 1]].id)
IsRoot(table, root) == \E k \in DOMAIN table : table[k].id = root /\ table[k].reply = "none"

LEMMA PostFields ==
    ASSUME NEW table \in PostTables
    PROVE  /\ Len(table) \in Nat /\ DOMAIN table = 1 .. Len(table)
           /\ \A k \in DOMAIN table :
                 table[k].id \in STRING /\ table[k].id # "none" /\ table[k].reply \in STRING
<1> DEFINE Post == [list : Nat, id : STRING \ {"none"}, reply : STRING]
<1>1. table \in Seq(Post)
  BY DEF PostTables
<1> HIDE DEF Post
<1>2. Len(table) \in Nat /\ DOMAIN table = 1 .. Len(table) /\ \A k \in DOMAIN table : table[k] \in Post
  BY <1>1
<1>3. QED
  BY <1>2 DEF Post

LEMMA WaysHaveLinks ==
    ASSUME NEW table, NEW root, NEW n \in Nat, NEW row
    PROVE  row \in Ways(table, root, n) <=>
              /\ IsRoot(table, root)
              /\ row \in Seq(DOMAIN table) /\ Len(row) =< n
              /\ \A i \in 1 .. Len(row) : Link(table, root, row, i)
<1>1. row \in SeqOf(DOMAIN table, n) <=> row \in Seq(DOMAIN table) /\ Len(row) =< n
  BY DEF SeqOf
<1>2. row \in Seq(DOMAIN table) => DOMAIN row = 1 .. Len(row)
  OBVIOUS
<1>3. QED
  BY <1>1, <1>2 DEF Ways, Link, IsRoot

LEMMA RowsAreWays ==
    ASSUME NEW table \in PostTables, NEW root, NEW row
    PROVE  row \in ThreadRows(table, root) <=>
              /\ IsRoot(table, root)
              /\ row \in Seq(DOMAIN table) /\ Len(row) =< Len(table)
              /\ \A i \in 1 .. Len(row) : Link(table, root, row, i)
<1>1. Len(table) \in Nat
  BY PostFields
<1>2. QED
  BY <1>1, WaysHaveLinks DEF ThreadRows

LEMMA RootIsRow ==
    ASSUME NEW table \in PostTables, NEW root, IsRoot(table, root)
    PROVE  << >> \in ThreadRows(table, root)
<1> DEFINE none == << >>
<1>1. Len(table) \in Nat /\ none \in Seq(DOMAIN table) /\ Len(none) = 0
  BY PostFields
<1>2. \A i \in 1 .. Len(none) : Link(table, root, none, i)
  BY <1>1
<1>3. Len(none) =< Len(table)
  BY <1>1
<1> HIDE DEF none
<1>4. none \in ThreadRows(table, root)
  BY <1>1, <1>2, <1>3, RowsAreWays
<1>5. QED
  BY <1>4 DEF none

Above(row) == [i \in 1 .. Len(row) - 1 |-> row[i]]

\* The row above a row is a row, and the last post replies to it.
LEMMA RowAbove ==
    ASSUME NEW table \in PostTables, NEW root, NEW row \in ThreadRows(table, root), row # << >>
    PROVE  /\ Above(row) \in ThreadRows(table, root) /\ Len(row) \in Nat \ {0}
           /\ Len(Above(row)) = Len(row) - 1 /\ Above(row) \in Seq(DOMAIN table)
           /\ row[Len(row)] \in DOMAIN table
           /\ row = Append(Above(row), row[Len(row)])
           /\ table[row[Len(row)]].reply = IdOf(table, root, Above(row))
           /\ IdOf(table, root, row) = table[row[Len(row)]].id
<1> DEFINE n == Len(row)
           above == Above(row)
<1>1. /\ IsRoot(table, root) /\ row \in Seq(DOMAIN table) /\ n =< Len(table)
      /\ \A i \in 1 .. n : Link(table, root, row, i)
  BY RowsAreWays
<1>2. n \in Nat \ {0} /\ Len(table) \in Nat
  BY <1>1, PostFields
<1>3. above \in Seq(DOMAIN table) /\ Len(above) = n - 1 /\ \A i \in 1 .. n - 1 : above[i] = row[i]
  BY <1>1, <1>2 DEF Above
<1>4. \A i \in 1 .. n - 1 : Link(table, root, above, i)
  <2> SUFFICES ASSUME NEW i \in 1 .. n - 1
               PROVE  Link(table, root, above, i)
    OBVIOUS
  <2>1. Link(table, root, row, i) /\ above[i] = row[i]
    BY <1>1, <1>2, <1>3
  <2>2. i # 1 => i - 1 \in 1 .. n - 1
    BY <1>2
  <2>3. i # 1 => above[i - 1] = row[i - 1]
    BY <1>3, <2>2
  <2>4. QED
    BY <2>1, <2>3 DEF Link
<1>5. above \in ThreadRows(table, root)
  BY <1>1, <1>2, <1>3, <1>4, RowsAreWays
<1>6. row[n] \in DOMAIN table /\ row = Append(above, row[n])
  BY <1>1, <1>2, <1>3
<1>7. table[row[n]].reply = IdOf(table, root, above)
  <2>1. Link(table, root, row, n)
    BY <1>1, <1>2
  <2>2. CASE n = 1
    BY <1>3, <2>1, <2>2 DEF Link, IdOf
  <2>3. CASE n # 1
    <3>1. above # << >> /\ above[Len(above)] = row[n - 1]
      BY <1>2, <1>3, <2>3
    <3>2. QED
      BY <2>1, <2>3, <3>1 DEF Link, IdOf
  <2>4. QED
    BY <2>2, <2>3
<1>8. QED
  BY <1>2, <1>3, <1>5, <1>6, <1>7 DEF IdOf

\* A post that replies to a row makes a row below it, unless that is too long.
LEMMA RowBelow ==
    ASSUME NEW table \in PostTables, NEW root, NEW row \in ThreadRows(table, root),
           NEW k \in DOMAIN table, table[k].reply = IdOf(table, root, row)
    PROVE  /\ Append(row, k) \in Ways(table, root, Len(table) + 1)
           /\ Len(row) \in Nat /\ Len(Append(row, k)) = Len(row) + 1
           /\ Len(row) # Len(table) => Append(row, k) \in ThreadRows(table, root)
           /\ IdOf(table, root, Append(row, k)) = table[k].id
<1> DEFINE n == Len(row)
           below == Append(row, k)
<1>1. /\ IsRoot(table, root) /\ row \in Seq(DOMAIN table) /\ n =< Len(table)
      /\ \A i \in 1 .. n : Link(table, root, row, i)
  BY RowsAreWays
<1>2. n \in Nat /\ Len(table) \in Nat /\ Len(table) + 1 \in Nat
  BY <1>1, PostFields
<1>3. /\ below \in Seq(DOMAIN table) /\ Len(below) = n + 1 /\ below[n + 1] = k
      /\ \A i \in 1 .. n : below[i] = row[i]
  BY <1>1, <1>2
<1>4. \A i \in 1 .. n : Link(table, root, below, i)
  <2> SUFFICES ASSUME NEW i \in 1 .. n
               PROVE  Link(table, root, below, i)
    OBVIOUS
  <2>1. Link(table, root, row, i) /\ below[i] = row[i]
    BY <1>1, <1>3
  <2>2. i # 1 => below[i - 1] = row[i - 1]
    BY <1>2, <1>3
  <2>3. QED
    BY <2>1, <2>2 DEF Link
<1>5. Link(table, root, below, n + 1)
  <2>1. CASE row = << >>
    BY <1>3, <2>1 DEF Link, IdOf
  <2>2. CASE row # << >>
    <3>1. n + 1 # 1 /\ (n + 1) - 1 = n /\ below[n] = row[n]
      BY <1>1, <1>2, <1>3, <2>2
    <3>2. QED
      BY <1>3, <2>2, <3>1 DEF Link, IdOf
  <2>3. QED
    BY <2>1, <2>2
<1>6. \A i \in 1 .. Len(below) : Link(table, root, below, i)
  BY <1>2, <1>3, <1>4, <1>5
<1>7. below # << >>
  BY <1>2, <1>3
<1> HIDE DEF below
<1>8. below \in Ways(table, root, Len(table) + 1)
  <2>1. Len(below) =< Len(table) + 1
    BY <1>1, <1>2, <1>3
  <2>2. QED
    BY <1>1, <1>2, <1>3, <1>6, <2>1, WaysHaveLinks, Zenon
<1>9. Len(row) # Len(table) => below \in ThreadRows(table, root)
  BY <1>1, <1>2, <1>3, <1>6, RowsAreWays
<1>10. IdOf(table, root, below) = table[k].id
  BY <1>3, <1>7 DEF IdOf
<1>11. QED
  BY <1>2, <1>3, <1>8, <1>9, <1>10 DEF below

\* What holds of the root, and of a row when of the row above it, holds of all rows.
LEMMA RowInduction ==
    ASSUME NEW table \in PostTables, NEW root, NEW S,
           << >> \in S,
           \A row \in ThreadRows(table, root) : row # << >> /\ Above(row) \in S => row \in S
    PROVE  ThreadRows(table, root) \subseteq S
<1> DEFINE others == ThreadRows(table, root) \ S
           lengths == {Len(row) : row \in others}
<1> SUFFICES ASSUME others # {}
             PROVE  FALSE
  OBVIOUS
<1>1. \A row \in others : row # << >> /\ Above(row) \in others
  BY RowAbove
<1>2. \A row \in others : Len(row) \in Nat /\ Len(Above(row)) \in Nat /\ Len(Above(row)) < Len(row)
  BY RowAbove
<1> HIDE DEF others
<1>3. lengths \in SUBSET Nat /\ lengths # {}
  BY <1>2
<1>4. PICK n \in lengths : \A m \in lengths : n =< m
  BY <1>3, LeastExists
<1>5. PICK row \in others : n = Len(row)
  BY <1>4
<1>6. Len(Above(row)) \in lengths
  BY <1>1
<1>7. QED
  BY <1>2, <1>4, <1>5, <1>6

\* Below a row that is as long as the table there is no post, or the query does not end.
LEMMA LongestHasNoReply ==
    ASSUME NEW table \in PostTables, ~Endless(table), NEW root, NEW row \in ThreadRows(table, root),
           NEW k \in DOMAIN table, table[k].reply = IdOf(table, root, row)
    PROVE  Len(row) # Len(table)
<1> SUFFICES ASSUME Len(row) = Len(table)
             PROVE  FALSE
  OBVIOUS
<1>1. PICK first \in DOMAIN table : table[first].id = root /\ table[first].reply = "none"
  BY RowsAreWays DEF IsRoot
<1>2. /\ Append(row, k) \in Ways(table, root, Len(table) + 1)
      /\ Len(row) \in Nat /\ Len(Append(row, k)) = Len(row) + 1
  BY RowBelow
<1>3. Len(Append(row, k)) > Len(table)
  BY <1>2
<1>4. QED
  BY <1>1, <1>2, <1>3 DEF Endless

\* Of two places other than the first, the places before.
LEMMA PlacesBefore ==
    ASSUME NEW n \in Nat, NEW i \in 1 .. n, NEW j \in 1 .. n, i < j, i # 1
    PROVE  i - 1 \in 1 .. n /\ j - 1 \in 1 .. n /\ i - 1 < j - 1 /\ ~(i =< i - 1)
OBVIOUS

\* Where equal ids have equal replies, no id comes twice on a way: of two equal ids, those
\* before them are equal, and so on up to the root, which replies to nothing.
LEMMA ConsistentEnds ==
    ASSUME NEW table \in PostTables, Consistent(table)
    PROVE  ~Endless(table)
<1> SUFFICES ASSUME NEW k \in DOMAIN table, table[k].reply = "none",
                    NEW row \in Ways(table, table[k].id, Len(table) + 1), Len(row) > Len(table)
             PROVE  FALSE
  BY DEF Endless
<1> DEFINE n     == Len(row)
           At(i) == IF i = 0 THEN table[k].id ELSE table[row[i]].id
           again == {i \in 1 .. n : \E j \in 1 .. n : i < j /\ At(i) = At(j)}
<1>1. /\ Len(table) \in Nat /\ Len(table) + 1 \in Nat /\ DOMAIN table = 1 .. Len(table)
      /\ \A m \in DOMAIN table : table[m].id # "none"
  BY PostFields
<1>2. row \in Seq(DOMAIN table) /\ \A i \in 1 .. n : Link(table, table[k].id, row, i)
  BY <1>1, WaysHaveLinks
<1>3. n \in Nat /\ \A i \in 1 .. n : row[i] \in DOMAIN table
  BY <1>2
<1>4. \A i \in 1 .. n : table[row[i]].reply = At(i - 1)
  <2> SUFFICES ASSUME NEW i \in 1 .. n
               PROVE  table[row[i]].reply = At(i - 1)
    OBVIOUS
  <2>1. table[row[i]].reply = (IF i = 1 THEN table[k].id ELSE table[row[i - 1]].id)
    BY <1>2 DEF Link
  <2>2. i - 1 = 0 <=> i = 1
    BY <1>3
  <2>3. QED
    BY <2>1, <2>2
<1>5. \A i \in 0 .. n : At(i) # "none"
  BY <1>1, <1>3
<1>6. \A i \in 1 .. n : row[i] \in DOMAIN table /\ At(i) = table[row[i]].id
  BY <1>3
<1>7. At(0) = table[k].id
  OBVIOUS
<1> HIDE DEF At, n
<1>8. \A i \in 1 .. n : At(i) # At(0)
  <2> SUFFICES ASSUME NEW i \in 1 .. n, At(i) = At(0)
               PROVE  FALSE
    OBVIOUS
  <2>1. table[row[i]].reply = "none"
    BY <1>6, <1>7 DEF Consistent
  <2>2. i - 1 \in 0 .. n
    BY <1>3
  <2>3. QED
    BY <1>4, <1>5, <2>1, <2>2
<1>9. again = {}
  <2> SUFFICES ASSUME again # {}
               PROVE  FALSE
    OBVIOUS
  <2>1. again \in SUBSET Nat
    BY <1>3
  <2>2. PICK i \in again : \A j \in again : i =< j
    BY <2>1, LeastExists
  <2>3. PICK j \in 1 .. n : i < j /\ At(i) = At(j)
    BY <2>2
  <2>4. i \in 1 .. n
    BY <2>2
  <2>5. At(i - 1) = At(j - 1)
    <3>1. table[row[i]].reply = table[row[j]].reply
      <4>1. row[i] \in DOMAIN table /\ row[j] \in DOMAIN table /\ table[row[i]].id = table[row[j]].id
        BY <1>6, <2>3, <2>4
      <4>2. QED
        BY <4>1 DEF Consistent
    <3>2. QED
      BY <1>4, <2>3, <2>4, <3>1
  <2>6. CASE i = 1
    <3>1. i - 1 = 0 /\ j - 1 \in 1 .. n
      BY <1>3, <2>3, <2>4, <2>6
    <3>2. QED
      BY <1>8, <2>5, <3>1
  <2>7. CASE i # 1
    <3>1. i - 1 \in 1 .. n /\ j - 1 \in 1 .. n /\ i - 1 < j - 1 /\ ~(i =< i - 1)
      BY <1>3, <2>3, <2>4, <2>7, PlacesBefore, Zenon
    <3>2. i - 1 \in again
      BY <2>5, <3>1
    <3>3. QED
      BY <2>2, <3>1, <3>2
  <2>8. QED
    BY <2>6, <2>7
<1>10. \A i, j \in 1 .. n : i < j => row[i] # row[j]
  BY <1>6, <1>9
<1> DEFINE places == [i \in 1 .. n |-> row[i]]
<1>11. places \in [1 .. n -> DOMAIN table]
  BY <1>6
<1>12. \A i, j \in 1 .. n : i # j => places[i] # places[j]
  BY <1>3, <1>10
<1> HIDE DEF places
<1>13. ASSUME NEW m \in Nat
       PROVE  IsFiniteSet(1 .. m) /\ Cardinality(1 .. m) = m
  <2>1. 1 \in Int /\ m \in Int /\ (IF 1 > m THEN 0 ELSE m - 1 + 1) = m
    OBVIOUS
  <2>2. IsFiniteSet(1 .. m) /\ Cardinality(1 .. m) = IF 1 > m THEN 0 ELSE m - 1 + 1
    BY <2>1, FS_Interval, Zenon
  <2>3. QED
    BY <2>1, <2>2
<1>14. /\ IsFiniteSet(1 .. n) /\ IsFiniteSet(DOMAIN table)
       /\ Cardinality(DOMAIN table) < Cardinality(1 .. n)
  BY <1>1, <1>3, <1>13 DEF n
<1>15. \E i, j \in 1 .. n : i # j /\ places[i] = places[j]
  <2> DEFINE S == 1 .. n
             T == DOMAIN table
  <2>1. IsFiniteSet(S) /\ IsFiniteSet(T) /\ Cardinality(T) < Cardinality(S) /\ places \in [S -> T]
    BY <1>11, <1>14
  <2> HIDE DEF S, T
  <2>2. \E i, j \in S : i # j /\ places[i] = places[j]
    BY <2>1, FS_PigeonHole
  <2>3. QED
    BY <2>2 DEF S
<1>16. QED
  BY <1>12, <1>15

Replies(table) == {<<table[k].reply, table[k].id>> : k \in DOMAIN table}

\* The rows are the conversation.
LEMMA RowsAreConversation ==
    ASSUME NEW table \in PostTables, ~Endless(table), NEW root, IsRoot(table, root)
    PROVE  Conversation(table, root) = {IdOf(table, root, row) : row \in ThreadRows(table, root)}
<1> DEFINE ids == {IdOf(table, root, row) : row \in ThreadRows(table, root)}
           conversation == Reached(Replies(table), root)
<1>1. conversation = Conversation(table, root)
  BY DEF Conversation, Replies
<1>2. root \in conversation /\ \A p \in Replies(table) : p[1] \in conversation => p[2] \in conversation
  BY ReachedGoesOn
<1>3. \A k \in DOMAIN table : <<table[k].reply, table[k].id>> \in Replies(table)
  BY DEF Replies
<1> HIDE DEF conversation
<1>4. \A k \in DOMAIN table : table[k].reply \in conversation => table[k].id \in conversation
  BY <1>2, <1>3
<1>5. ids \subseteq conversation
  <2> DEFINE S == {row \in ThreadRows(table, root) \cup {<< >>} : IdOf(table, root, row) \in conversation}
  <2>1. << >> \in S
    BY <1>2 DEF IdOf
  <2>2. ASSUME NEW row \in ThreadRows(table, root), row # << >>, Above(row) \in S
        PROVE  row \in S
    <3>1. IdOf(table, root, Above(row)) \in conversation
      BY <2>2
    <3>2. QED
      BY <1>4, <2>2, <3>1, RowAbove
  <2> HIDE DEF S
  <2>3. ThreadRows(table, root) \subseteq S
    BY <2>1, <2>2, RowInduction
  <2>4. QED
    BY <2>3 DEF S
<1>6. conversation \subseteq ids
  <2>1. << >> \in ThreadRows(table, root)
    BY RootIsRow
  <2>2. root \in ids
    BY <2>1 DEF IdOf
  <2>3. \A p \in Replies(table) : p[1] \in ids => p[2] \in ids
    <3> SUFFICES ASSUME NEW k \in DOMAIN table, NEW row \in ThreadRows(table, root),
                        table[k].reply = IdOf(table, root, row)
                 PROVE  table[k].id \in ids
      BY DEF Replies
    <3>1. /\ Append(row, k) \in ThreadRows(table, root)
          /\ IdOf(table, root, Append(row, k)) = table[k].id
      BY LongestHasNoReply, RowBelow
    <3>2. QED
      BY <3>1
  <2> HIDE DEF ids
  <2>4. QED
    BY <2>2, <2>3, ReachedLeast DEF conversation
<1>7. QED
  BY <1>1, <1>5, <1>6

\* Only the root itself has the root's id, if one post has.
LEMMA OnlyRootIsRoot ==
    ASSUME NEW table \in PostTables, NEW root, Single(table, root), NEW row \in ThreadRows(table, root),
           IdOf(table, root, row) = root
    PROVE  row = << >>
<1> SUFFICES ASSUME row # << >>
             PROVE  FALSE
  OBVIOUS
<1> DEFINE last == row[Len(row)]
<1>1. PICK k \in DOMAIN table : table[k].id = root /\ table[k].reply = "none"
  BY RowsAreWays DEF IsRoot
<1>2. last \in DOMAIN table /\ table[last].id = root /\ table[last].reply = IdOf(table, root, Above(row))
  BY RowAbove
<1>3. table[last].reply = "none"
  BY <1>1, <1>2 DEF Single
<1>4. Above(row) \in ThreadRows(table, root)
  BY RowAbove
<1>5. CASE Above(row) = << >>
  BY <1>1, <1>2, <1>3, <1>5, PostFields DEF IdOf
<1>6. CASE Above(row) # << >>
  <2>1. Above(row)[Len(Above(row))] \in DOMAIN table
    BY <1>4, <1>6, RowAbove
  <2>2. QED
    BY <1>2, <1>3, <1>6, <2>1, PostFields DEF IdOf
<1>7. QED
  BY <1>5, <1>6

\* A way over posts each of which has an id of its own is the only one to its end.
LEMMA OneWay ==
    ASSUME NEW table \in PostTables, NEW root, Single(table, root), NEW row \in ThreadRows(table, root),
           \A i \in DOMAIN row : Single(table, table[row[i]].id),
           NEW other \in ThreadRows(table, root), IdOf(table, root, row) = IdOf(table, root, other)
    PROVE  row = other
<1> DEFINE Alone(r) == \A i \in DOMAIN r : Single(table, table[r[i]].id)
           S == {r \in ThreadRows(table, root) \cup {<< >>} : Alone(r) =>
                    \A s \in ThreadRows(table, root) : IdOf(table, root, r) = IdOf(table, root, s) => r = s}
<1>1. << >> \in S
  <2>1. \A s \in ThreadRows(table, root) : IdOf(table, root, << >>) = IdOf(table, root, s) => << >> = s
    BY OnlyRootIsRoot DEF IdOf
  <2>2. QED
    BY <2>1
<1>2. ASSUME NEW r \in ThreadRows(table, root), r # << >>, Above(r) \in S
      PROVE  r \in S
  <2> SUFFICES ASSUME Alone(r), NEW s \in ThreadRows(table, root), IdOf(table, root, r) = IdOf(table, root, s)
               PROVE  r = s
    OBVIOUS
  <2>1. s # << >>
    <3>1. s = << >> => IdOf(table, root, s) = root
      BY DEF IdOf
    <3>2. QED
      BY <1>2, <3>1, OnlyRootIsRoot
  <2>2. /\ r = Append(Above(r), r[Len(r)]) /\ r[Len(r)] \in DOMAIN table /\ Len(r) \in Nat \ {0}
        /\ table[r[Len(r)]].reply = IdOf(table, root, Above(r))
        /\ IdOf(table, root, r) = table[r[Len(r)]].id
        /\ Len(Above(r)) = Len(r) - 1
    BY <1>2, RowAbove
  <2>3. /\ s = Append(Above(s), s[Len(s)]) /\ s[Len(s)] \in DOMAIN table
        /\ Above(s) \in ThreadRows(table, root)
        /\ table[s[Len(s)]].reply = IdOf(table, root, Above(s))
        /\ IdOf(table, root, s) = table[s[Len(s)]].id
    BY <2>1, RowAbove
  <2>4. r \in Seq(DOMAIN table) /\ DOMAIN r = 1 .. Len(r)
    BY RowsAreWays
  <2>5. r[Len(r)] = s[Len(s)]
    <3>1. Single(table, table[r[Len(r)]].id)
      BY <2>2, <2>4
    <3>2. QED
      BY <2>2, <2>3, <3>1 DEF Single
  <2>6. Alone(Above(r))
    BY <2>2, <2>4 DEF Above
  <2>7. IdOf(table, root, Above(r)) = IdOf(table, root, Above(s))
    BY <2>2, <2>3, <2>5
  <2>8. Above(r) = Above(s)
    BY <1>2, <2>3, <2>6, <2>7
  <2>9. QED
    BY <2>2, <2>3, <2>5, <2>8
<1> HIDE DEF S
<1>3. ThreadRows(table, root) \subseteq S
  BY <1>1, <1>2, RowInduction
<1>4. row \in S
  BY <1>3
<1>5. QED
  BY <1>4 DEF S

LEMMA FoundInList ==
    ASSUME NEW table, NEW l, NEW id
    PROVE  PostById(table, l, id) # {} <=> id \in {table[k].id : k \in InList(table, l)}
BY DEF PostById

\* The root is the one row of the least depth.
LEMMA RootIsSkipped ==
    ASSUME NEW table \in PostTables, ~Endless(table), NEW l, NEW root, IsRootOf(table, l, root)
    PROVE  ListThread(table, l, root) = {Shown(table, l, root) \ {<< >>}}
<1> DEFINE shown == Shown(table, l, root)
<1>1. << >> \in shown
  <2>1. IsRoot(table, root) /\ root \in {table[k].id : k \in InList(table, l)}
    BY DEF InList, IsRoot, IsRootOf
  <2>2. IdOf(table, root, << >>) = root
    BY DEF IdOf
  <2>3. << >> \in ThreadRows(table, root)
    BY <2>1, RootIsRow
  <2>4. QED
    BY <2>1, <2>2, <2>3, FoundInList DEF Shown
<1>2. \A row \in shown : row \in Seq(DOMAIN table)
  BY RowsAreWays DEF Shown
<1>3. {r \in shown : \A s \in shown : Len(r) =< Len(s)} = {<< >>}
  BY <1>1, <1>2
<1> HIDE DEF shown
<1>4. WithoutFirst(shown) = {shown \ {<< >>}}
  BY <1>1, <1>3 DEF WithoutFirst
<1>5. QED
  BY <1>4 DEF ListThread, shown

\* A query that ends has a result.
LEMMA EndsWithThread ==
    ASSUME NEW table \in PostTables, ~Endless(table), NEW l, NEW root
    PROVE  ListThread(table, l, root) # {}
<1> DEFINE shown   == Shown(table, l, root)
           lengths == {Len(row) : row \in shown}
<1>1. \A row \in shown : Len(row) \in Nat
  BY RowsAreWays DEF Shown
<1>2. ListThread(table, l, root) = WithoutFirst(shown)
  BY DEF ListThread
<1> HIDE DEF shown
<1>3. CASE shown = {}
  BY <1>2, <1>3 DEF WithoutFirst
<1>4. CASE shown # {}
  <2>1. lengths \in SUBSET Nat /\ lengths # {}
    BY <1>1, <1>4
  <2>2. PICK n \in lengths : \A m \in lengths : n =< m
    BY <2>1, LeastExists
  <2>3. PICK row \in shown : n = Len(row)
    BY <2>2
  <2>4. \A other \in shown : Len(row) =< Len(other)
    BY <2>2, <2>3
  <2>5. shown \ {row} \in WithoutFirst(shown)
    BY <1>4, <2>4 DEF WithoutFirst
  <2>6. QED
    BY <1>2, <2>5
<1>5. QED
  BY <1>3, <1>4

LEMMA ThreadsAreWhole ==
    ASSUME NEW table \in PostTables, NEW l, NEW root
    PROVE  ThreadAsPromised(table, l, root)
<1>1. Consistent(table) => ListThread(table, l, root) # {}
  BY ConsistentEnds, EndsWithThread
<1>2. ASSUME IsRootOf(table, l, root), NEW thread \in ListThread(table, l, root)
      PROVE  /\ IdsOf(table, root, thread) \ {root} = ConversationInList(table, l, root) \ {root}
             /\ \A r, s \in thread :
                   /\ IdOf(table, root, r) = IdOf(table, root, s)
                   /\ Single(table, root) /\ \A i \in DOMAIN r : Single(table, table[r[i]].id)
                   => r = s
  <2> DEFINE inList == {table[k].id : k \in InList(table, l)}
             shown  == Shown(table, l, root)
  <2>1. ~Endless(table)
    BY <1>2 DEF ListThread
  <2>2. thread = shown \ {<< >>}
    BY <1>2, <2>1, RootIsSkipped
  <2>3. IsRoot(table, root)
    BY <1>2 DEF InList, IsRoot, IsRootOf
  <2>4. Conversation(table, root) = {IdOf(table, root, row) : row \in ThreadRows(table, root)}
    BY <2>1, <2>3, RowsAreConversation
  <2>5. \A row : row \in shown <=> row \in ThreadRows(table, root) /\ IdOf(table, root, row) \in inList
    BY FoundInList DEF Shown
  <2>6. IdOf(table, root, << >>) = root
    BY DEF IdOf
  <2>7. ConversationInList(table, l, root) = inList \cap Conversation(table, root)
    BY DEF ConversationInList
  <2> HIDE DEF shown, inList
  <2>8. ASSUME NEW id, id # root
        PROVE  id \in IdsOf(table, root, thread) <=> id \in ConversationInList(table, l, root)
    <3>1. ASSUME id \in IdsOf(table, root, thread)
          PROVE  id \in ConversationInList(table, l, root)
      <4>1. PICK row \in thread : id = IdOf(table, root, row)
        BY <3>1 DEF IdsOf
      <4>2. QED
        BY <2>2, <2>4, <2>5, <2>7, <4>1
    <3>2. ASSUME id \in ConversationInList(table, l, root)
          PROVE  id \in IdsOf(table, root, thread)
      <4>1. PICK row \in ThreadRows(table, root) : id = IdOf(table, root, row)
        BY <2>4, <2>7, <3>2
      <4>2. row \in thread
        BY <2>2, <2>5, <2>6, <2>7, <2>8, <3>2, <4>1
      <4>3. QED
        BY <4>1, <4>2 DEF IdsOf
    <3>3. QED
      BY <3>1, <3>2
  <2>9. \A r, s \in thread : r \in ThreadRows(table, root) /\ s \in ThreadRows(table, root)
    BY <2>2, <2>5
  <2>10. QED
    BY <2>8, <2>9, OneWay
<1>3. QED
  BY <1>1, <1>2 DEF ThreadAsPromised

\* ThreadsShowReplies (list_thread, thread_roots): for archives of any number of posts and
\* lists, ids and replies that senders chose as they liked, and trees of any shape.
THEOREM ThreadsAreAsPromised == RulesSpec => []ThreadsShowReplies
<1>1. RulesInit => ThreadsShowReplies
  <2>1. ASSUME RulesInit, rule = "threads"
        PROVE  ThreadAsPromised(input.table, input.list, input.root)
    <3>1. input \in [table : PostTables, list : Nat, root : STRING]
      BY <2>1 DEF RulesInit
    <3>2. QED
      BY <3>1, ThreadsAreWhole
  <2>2. ASSUME RulesInit, rule = "trees"
        PROVE  RootMessage(input.tree, input.root) = FirstMessage(input.tree, input.root)
    <3>1. input \in {i \in [tree : Trees, root : STRING] : i.root \in DOMAIN i.tree}
      BY <2>2 DEF RulesInit
    <3>2. input.tree \in Trees /\ input.root \in DOMAIN input.tree
      BY <3>1
    <3>3. QED
      BY <3>2, ThreadsAreNamed
  <2>3. QED
    BY <2>1, <2>2 DEF ThreadsShowReplies
<1>2. ThreadsShowReplies /\ [RulesNext]_<<rule, input>> => ThreadsShowReplies'
  BY DEF ThreadsShowReplies, RulesNext
<1>3. QED
  BY <1>1, <1>2, PTL DEF RulesSpec
=================================================================================
