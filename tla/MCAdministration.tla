---------------------------- MODULE MCAdministration ----------------------------
(***************************************************************************)
(* Instances of the small machines, and inputs for the pure functions,     *)
(* checked in one run.                                                     *)
(***************************************************************************)
EXTENDS Administration, MCAlgorithms, TLC

CONSTANT Older  \* processes with an older binary

\* One process has a newer binary than the others; the file may be newer still.
Binaries == [p \in Opener |-> IF p \in Older THEN 5 ELSE 6]

\* One list is called "2"
Numerals == "2" :> 2

\* One of them is written as RFC 2822 says.
TwoDates == {[month |-> 1, written |-> "other"], [month |-> 2, written |-> "rfc2822"]}

\* Two mails of different dates are of different months.
Months == <<1, 2>>

\* All lints that find rows
LintSelections == {{1, 2, 3, 5}}

\* Of these the lints make, in two repairs, dates of the epoch, good dates and bare ids.
BadPosts == {[date |-> "rfc3339 epoch", brackets |-> 1], [date |-> "junk", brackets |-> 2]}

\* master.cf without any service, and those that the tool treats differently
NoServices == [lines |-> << >>, newline |-> TRUE]
MasterFiles ==
    {[lines |-> l, newline |-> n] :
        l \in {<<"smtp", "argv">>, <<"smtp", "own", "argv", "lmtp", "argv">>,
               <<"own", "argv", "own", "argv", "smtp">>, <<"#own", "argv", "smtp", "own", "argv">>,
               <<"longer", "argv", "smtp">>, <<"longer", "argv", "own", "argv">>,
               <<"own", "smtp", "argv">>, <<"smtp", "own">>},
        n \in BOOLEAN} \cup {NoServices}

\* Older, Author, Browser, Letter and Updater are given the model values of Member,
\* ListAddress and MessageId those of Address: of the parts, only the one that moves has any
\* of them in its state.
Symmetry == Permutations(Member) \cup Permutations(Address)

\* The initial files differ only where they matter.
PartsInit ==
    /\ Init
    /\ part # "opening" => file = FALSE
    /\ part # "postfix" => master = NoServices
    /\ rule = "none" /\ input = "none"

\* An input for the pure functions, with which no part has anything to do
InputsInit ==
    /\ OpeningInit /\ ListInit /\ PostingInit /\ SessionInit /\ RepairInit /\ QueueInit
    /\ PostfixInit /\ ArchiveInit
    /\ part = "none" /\ file = FALSE /\ master = NoServices
    /\ SmallRulesInit

MCInit == PartsInit \/ InputsInit

MCSpec == MCInit /\ [][Next /\ UNCHANGED <<rule, input>>]_<<vars, rule, input>>
=================================================================================
