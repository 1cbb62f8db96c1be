------------------------------ MODULE PostfixFiles ------------------------------
(***************************************************************************)
(* The two files that `mpot update-postfix-config` writes, as pure         *)
(* functions: the map of addresses and the entry in master.cf.             *)
(*                                                                         *)
(* master.cf is [lines, newline]: its lines, and whether the last one ends *)
(* with a newline.  A line is                                              *)
(*   "own"    the service line of the configured transport                 *)
(*   "#own"   the same, commented out                                      *)
(*   "longer" of a service whose name begins with the transport's          *)
(*   "smtp", "lmtp"  of other services                                     *)
(*   "argv"   the options of the service above it                          *)
(*   "glued"  a service line directly after a line without a newline       *)
(*   "zeros"  bytes that nobody wrote                                      *)
(***************************************************************************)
EXTENDS Naturals, FiniteSetsExt, SequencesExt

-------------------------------------------------------------------------------
(***************************************************************************)
(* generate_maps, of a function from lists to the flags of their policies, *)
(* {} where there is none                                                  *)
(***************************************************************************)
RoutedSuffixes(flags) ==
    IF flags = {} THEN {}
    ELSE IF "open" \in flags THEN {""}
    ELSE {"", "+request", "+owner"}

GenerateMaps(policies) ==
    {address \in (DOMAIN policies) \X {"", "+request", "+owner"} :
        address[2] \in RoutedSuffixes(policies[address[1]])}

\* The column of the transport: a list without a policy is not counted.
MapWidth(policies, length) ==
    Max({IF policies[l] = {} THEN 0 ELSE length[l] + 8 : l \in DOMAIN policies})

\* The spaces after an address; `usize` must not go below zero on the way.
Padding(width, addressLength) == width - addressLength + 5

-------------------------------------------------------------------------------
(***************************************************************************)
(* save_master_cf_entry                                                    *)
(***************************************************************************)
OtherServices == {"smtp", "lmtp"}
Line          == {"own", "#own", "longer", "argv", "glued", "zeros"} \cup OtherServices
Entry         == <<"own", "argv">>

\* The line found is the first that STARTS with the name; its position is that
\* of the first text equal to it, which may be the rest of an earlier line.
Starting(file)       == {i \in DOMAIN file.lines : file.lines[i] \in {"own", "longer"}}
Holding(file, found) ==
    {i \in DOMAIN file.lines :
        \/ file.lines[i] = found
        \/ found = "own" /\ file.lines[i] \in {"#own", "glued"}}

Position(file) == Min(Holding(file, file.lines[Min(Starting(file))]))

\* Mutant: the last options are taken for the end of the entry.
Ends_Last(file) ==
    LET all == {i \in DOMAIN file.lines : file.lines[i] = "argv"}
    IN  {i \in all : \A j \in all : j <= i}

\* The lines at which the entry may be taken to end: the next options.
Ends(file) == {i \in DOMAIN file.lines : i >= Position(file) /\ file.lines[i] = "argv"}

\* An entry is there, but it has no end.
NoEnd(file) ==
    /\ Starting(file) # {}
    /\ \/ Ends(file) = {}
       \/ Min(Ends(file)) = Len(file.lines) /\ ~file.newline

\* What is before the text found stays before the entry.
Replaced(file) ==
    LET pos   == Position(file)
        first == IF file.lines[pos] \in {"#own", "glued"} THEN file.lines[pos] ELSE "own"
    IN  [file EXCEPT !.lines = SubSeq(@, 1, pos - 1) \o <<first, "argv">>
                                 \o SubSeq(@, Min(Ends(file)) + 1, Len(@))]

\* Appended without a look at the newline before it
Appended(file) ==
    [lines   |-> IF file.newline \/ file.lines = << >> THEN file.lines \o Entry
                 ELSE Front(file.lines) \o <<"glued", "argv">>,
     newline |-> TRUE]

WithEntry(file) == IF Starting(file) # {} THEN Replaced(file) ELSE Appended(file)

\* A file of which the tool cannot mistake anything: each service has its
\* options, none has a longer name, none is commented out, and the file ends
\* with a newline.
Plain(file) ==
    /\ file.newline
    /\ \A i \in DOMAIN file.lines :
        /\ file.lines[i] \in {"own", "argv"} \cup OtherServices
        /\ file.lines[i] = "own" => i < Len(file.lines) /\ file.lines[i + 1] = "argv"

\* The lines that are not of an own entry
OthersOf(lines) ==
    LET mine == {i \in DOMAIN lines : lines[i] = "own" \/ (i > 1 /\ lines[i] = "argv" /\ lines[i - 1] = "own")}
    IN  [k \in 1 .. Cardinality(DOMAIN lines \ mine) |->
           lines[CHOOSE i \in DOMAIN lines \ mine :
                    Cardinality({j \in DOMAIN lines \ mine : j <= i}) = k]]
=============================================================================
