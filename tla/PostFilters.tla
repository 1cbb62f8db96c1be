------------------------------ MODULE PostFilters ------------------------------
(***************************************************************************)
(* What happens to one post of one list between its arrival and the        *)
(* archive: the policies a list can have, the filters, and what the list   *)
(* says of itself in its help mail and its headers.  Pure functions of     *)
(* what `inner_post` has read.                                             *)
(*                                                                         *)
(* A policy is the set of its flags, {} where the list has none.  A mail   *)
(* is [from, ends, headers]: how each of its lines ends, and the sequence  *)
(* of its headers, the value of each in words.  It is UTF-8: `mpot post`   *)
(* reads it with read_to_string.  The subscriptions of a list are a set:   *)
(* their table admits an address once.                                     *)
(***************************************************************************)
EXTENDS Naturals, Sequences

-------------------------------------------------------------------------------
(***************************************************************************)
(* Policies                                                                *)
(***************************************************************************)
PostFlags         == {"announce_only", "subscription_only", "approval_needed", "open", "custom"}
SubscriptionFlags == {"open", "manual", "request", "custom"}

\* How the CHECKs combine a flag with the rest of the chain
Either(p, q) == (p \/ q) /\ ~(p /\ q)

PostPolicyCheck(flags) ==
    Either("custom" \in flags, Either("open" \in flags, Either("approval_needed" \in flags,
        Either("announce_only" \in flags, "subscription_only" \in flags))))

SubscriptionPolicyCheck(flags) ==
    Either("open" \in flags, Either("manual" \in flags,
        Either("request" \in flags, "custom" \in flags)))

\* set_list_post_policy: an error leaves the policy as it was.
SetListPostPolicy(old, flags) ==
    IF flags # {} /\ PostPolicyCheck(flags) THEN flags ELSE old

SetListSubscriptionPolicy(old, flags) ==
    IF flags # {} /\ SubscriptionPolicyCheck(flags) THEN flags ELSE old

-------------------------------------------------------------------------------
(***************************************************************************)
(* Filters                                                                 *)
(*                                                                         *)
(* A job is the post as the filters pass it on, with the list's context.   *)
(* A filter that returns Err, or panics, is the last to run.               *)
(***************************************************************************)
Job(mail, list) ==
    [mail |-> mail, list |-> list, action |-> "Hold", flow |-> "next",
     recipients |-> {}, digests |-> {}]

SubscriberSet(list) == {s.address : s \in list.subscriptions}

Stop(job, action) == [job EXCEPT !.action = action, !.flow = "stopped"]
Panic(job)        == [job EXCEPT !.flow = "panicked"]

CheckRights(job) ==
    LET flags  == job.list.policy
        author == job.mail.from
    IN  IF "announce_only" \in flags
        THEN IF author \in job.list.owners THEN job ELSE Stop(job, "Reject")
        ELSE IF "subscription_only" \in flags
        THEN IF author \in SubscriberSet(job.list) THEN job ELSE Stop(job, "Reject")
        ELSE IF "approval_needed" \in flags /\ author \notin SubscriberSet(job.list)
        THEN Stop(job, "Defer")
        ELSE job

\* The list of types to reject is read, and logged.  There is none to read: the schema
\* of these settings has `required` among the properties, so that nothing satisfies it.
MimeReject(job) == job

FixCRLF(job) ==
    [job EXCEPT !.mail.ends = [i \in DOMAIN @ |-> IF @[i] = "none" THEN "none" ELSE "crlf"]]

Header(name, value) == [name |-> name, value |-> value]

\* The helpers of MailingList; a list without a policy says NO.
PostHeader(list) ==
    IF list.policy = {} \/ "announce_only" \in list.policy THEN "NO" ELSE "mailto"

ListHeaders(list) ==
    <<Header("Sender", <<"list">>), Header("List-Id", <<"list">>),
      Header("List-Help", <<"mailto">>), Header("List-Post", <<PostHeader(list)>>)>>
    \o (IF list.subscribing = {} THEN << >>
        ELSE <<Header("List-Unsubscribe", <<"mailto">>), Header("List-Subscribe", <<"mailto">>)>>)
    \o (IF list.archive = "none" THEN << >> ELSE <<Header("List-Archive", <<list.archive>>)>>)

\* They are pushed after the author's, whatever these are.
AddListHeaders(job) == [job EXCEPT !.mail.headers = @ \o ListHeaders(job.list)]

\* `preserve_carets` has a default in the schema and is unwrapped in the code; a
\* template that does not render stops the post with the action it had.
ArchivedAtLink(job) ==
    CASE job.list.archivedAt = "absent"             -> job
      [] job.list.archivedAt = "no_preserve_carets" -> Panic(job)
      [] job.list.archivedAt = "fails"    -> Stop(job, "Hold")
      [] OTHER -> [job EXCEPT !.mail.headers = Append(@, Header("Archived-At", <<"link">>))]

\* The first Subject is prefixed, tagged already or not, or one is made.
AddSubjectTagPrefix(job) ==
    LET headers  == job.mail.headers
        subjects == {i \in DOMAIN headers : headers[i].name = "Subject"}
        first    == CHOOSE i \in subjects : \A j \in subjects : i <= j
    IN  IF job.list.subjectTag = "disabled" THEN job
        ELSE IF subjects = {}
        THEN [job EXCEPT !.mail.headers = Append(@, Header("Subject", <<"[id]", "no_subject">>))]
        ELSE [job EXCEPT !.mail.headers[first].value = <<"[id]">> \o @]

\* Mutant: a subscriber's own digest is not told from the others.
Finalize_OwnDigest(job) ==
    LET gets == {s \in job.list.subscriptions :
                    s.digest = "yes" \/ s.address # job.mail.from \/ s.own = "yes"}
        AddressesOf(digest) == {s.address : s \in {t \in gets : t.digest = digest}}
    IN  [job EXCEPT !.recipients = AddressesOf("no"), !.digests = AddressesOf("yes"),
                    !.action = "Accept"]

\* Neither `enabled` nor `verified` is asked.
FinalizeRecipients(job) ==
    LET gets == {s \in job.list.subscriptions : s.address # job.mail.from \/ s.own = "yes"}
        AddressesOf(digest) == {s.address : s \in {t \in gets : t.digest = digest}}
    IN  [job EXCEPT !.recipients = AddressesOf("no"), !.digests = AddressesOf("yes"),
                    !.action = "Accept"]

Feed(job, filter) ==
    IF job.flow # "next" THEN job
    ELSE CASE filter = "rights"     -> CheckRights(job)
           [] filter = "mimes"      -> MimeReject(job)
           [] filter = "crlf"       -> FixCRLF(job)
           [] filter = "headers"    -> AddListHeaders(job)
           [] filter = "link"       -> ArchivedAtLink(job)
           [] filter = "tag"        -> AddSubjectTagPrefix(job)
           [] filter = "recipients" -> FinalizeRecipients(job)

\* try_fold, in the order of list_filters: who may post, what the mail becomes, who gets it
Admitted(mail, list) == Feed(Feed(Job(mail, list), "rights"), "mimes")
Rewritten(job)       == Feed(Feed(Feed(Feed(job, "crlf"), "headers"), "link"), "tag")
Filtered(mail, list) == Feed(Rewritten(Admitted(mail, list)), "recipients")

-------------------------------------------------------------------------------
(***************************************************************************)
(* What the list says of itself                                            *)
(***************************************************************************)

\* Mutant: the branch for subscribers comes first.
HelpOnPosting_SubscribersFirst(flags) ==
    CASE "subscription_only" \in flags -> "subscribers"
      [] "approval_needed" \in flags   -> "anyone, with approval"
      [] "announce_only" \in flags     -> "owners"
      [] OTHER                         -> "nobody"

\* generate_help_email
HelpOnPosting(flags) ==
    IF "announce_only" \in flags THEN "owners"
    ELSE IF "subscription_only" \in flags THEN "subscribers"
    ELSE IF "approval_needed" \in flags THEN "anyone, with approval"
    ELSE "nobody"

HelpOnSubscribing(flags) ==
    IF flags = {} THEN "nobody"
    ELSE IF "open" \in flags THEN "anyone"
    ELSE IF "manual" \in flags THEN "owners add you"
    ELSE IF "request" \in flags THEN "anyone, on request"
    ELSE "ask"

\* What `request` does with a mail that asks to subscribe
Subscribing(flags) == IF flags # {} /\ "open" \notin flags THEN "request" ELSE "subscription"

\* ListRequest::try_from: the part of the address after +, and the subject
ListRequest(subaddress, subject) ==
    IF subaddress \in {"subscribe", "unsubscribe", "help"} THEN subaddress
    ELSE IF subaddress = "request" /\ subject \in {"subscribe", "unsubscribe", "help"} THEN subject
    ELSE "other"
=============================================================================
