--------------------------- MODULE Migrations_proofs ---------------------------
(***************************************************************************)
(* What opening and migrating a database may spoil, for any number of      *)
(* processes of any versions.  A migration is a chain of scripts: what the *)
(* whole chain does follows from its steps by induction, the rest from     *)
(* what the schema and the stored settings always satisfy.                 *)
(***************************************************************************)
EXTENDS Migrations, WellFoundedInduction, TLAPS

Names == {"base", "templates"} \cup {Piece[m] : m \in 1 .. 7}

OpeningState == [pc : {"idle", "create", "child", "open", "migrate", "conn", "low"},
                 from : 0 .. 7, busy : BOOLEAN]

\* Only a whole schema of the first version has the table "templates".
IInv ==
    /\ file \in BOOLEAN
    /\ schema \subseteq Names
    /\ version \in 0 .. 7
    /\ settings \subseteq FilterSettings \cap schema
    /\ opening \in [Opener -> OpeningState]
    /\ "templates" \in schema => "base" \in schema

-------------------------------------------------------------------------------
(***************************************************************************)
(* Helpers                                                                 *)
(***************************************************************************)

LEMMA SetInduction ==
    ASSUME NEW S, 0 \in S, \A n \in Nat : n \in S => n + 1 \in S
    PROVE  Nat \subseteq S
<1> SUFFICES ASSUME Nat \ S # {}
             PROVE  FALSE
  OBVIOUS
<1>1. PICK d \in Nat \ S : \A e \in Nat \ S : ~(<<e, d>> \in OpToRel(<, Nat))
  BY NatLessThanWellFounded, WFMin
<1>2. d \in Nat /\ d # 0 /\ d \notin S
  OBVIOUS
<1>3. d - 1 \in Nat /\ d - 1 < d /\ (d - 1) + 1 = d
  BY <1>2
<1>4. d - 1 \in S
  <2>1. <<d - 1, d>> \in OpToRel(<, Nat)
    BY <1>2, <1>3 DEF OpToRel
  <2>2. QED
    BY <1>1, <1>3, <2>1
<1>5. (d - 1) + 1 \in S
  BY <1>3, <1>4
<1>6. QED
  BY <1>2, <1>3, <1>5

LEMMA Lengths == Len(Piece) = 7 /\ Versions = 0 .. 7 /\ DOMAIN Groups = 1 .. 7
BY DEF Piece, Versions, Groups

\* The pieces are seven, and none is a table of the first schema.
LEMMA PiecesDiffer ==
    /\ \A k \in 1 .. 7 : Piece[k] # "base" /\ Piece[k] # "templates"
    /\ \A j, k \in 1 .. 7 : Piece[j] = Piece[k] => j = k
<1>1. \A k \in 1 .. 7 : k = 1 \/ k = 2 \/ k = 3 \/ k = 4 \/ k = 5 \/ k = 6 \/ k = 7
  OBVIOUS
<1>2. /\ Piece[1] = "template" /\ Piece[2] = "topics" /\ Piece[3] = "sort"
      /\ Piece[4] = "settings" /\ Piece[5] = "archived_at" /\ Piece[6] = "subject_prefix"
      /\ Piece[7] = "mime_reject"
  BY DEF Piece
<1>3. QED
  BY <1>1, <1>2

Pieces(S) == {Piece[k] : k \in S}

LEMMA SchemaOfVersion ==
    ASSUME NEW v \in 1 .. 7
    PROVE  SchemaAt(v) = {"base"} \cup Pieces(1 .. v) /\ "templates" \notin SchemaAt(v)
BY PiecesDiffer DEF SchemaAt, Pieces

-------------------------------------------------------------------------------
(***************************************************************************)
(* The chains of scripts                                                   *)
(***************************************************************************)
Upward(f, image, from, to) ==
    f = [m \in from .. to |-> IF m = from THEN image ELSE Redo(f[m - 1], m)]

LEMMA UpwardExists ==
    ASSUME NEW image, NEW from \in Nat, NEW to \in Nat, from =< to
    PROVE  \E f : Upward(f, image, from, to)
<1> DEFINE S == {n \in Nat : \E f : Upward(f, image, from, from + n)}
<1>1. 0 \in S
  <2> DEFINE f == [m \in from .. from + 0 |-> image]
  <2>1. \A m \in from .. from + 0 : m = from
    OBVIOUS
  <2>2. Upward(f, image, from, from + 0)
    BY <2>1 DEF Upward
  <2>3. QED
    BY <2>2
<1>2. ASSUME NEW n \in Nat, n \in S
      PROVE  n + 1 \in S
  <2>1. PICK f : Upward(f, image, from, from + n)
    BY <1>2
  <2> DEFINE last == from + (n + 1)
             g == [m \in from .. last |-> IF m = last THEN Redo(f[last - 1], last) ELSE f[m]]
  <2>2. Upward(g, image, from, last)
    <3> SUFFICES ASSUME NEW m \in from .. last
                 PROVE  g[m] = IF m = from THEN image ELSE Redo(g[m - 1], m)
      BY DEF Upward
    <3>1. CASE m = last
      <4>1. m # from /\ m - 1 \in from .. last /\ m - 1 # last
        BY <3>1
      <4>2. g[m - 1] = f[m - 1] /\ g[m] = Redo(f[m - 1], m)
        BY <3>1, <4>1
      <4>3. QED
        BY <4>1, <4>2
    <3>2. CASE m # last
      <4>1. m \in from .. from + n
        BY <3>2
      <4>2. f[m] = IF m = from THEN image ELSE Redo(f[m - 1], m)
        BY <2>1, <4>1 DEF Upward
      <4>3. g[m] = f[m]
        BY <3>2
      <4>4. m # from => m - 1 \in from .. last /\ m - 1 # last
        BY <4>1
      <4>5. m # from => g[m - 1] = f[m - 1]
        BY <4>4
      <4>6. QED
        BY <4>2, <4>3, <4>5
    <3>3. QED
      BY <3>1, <3>2
  <2>3. QED
    BY <2>2
<1> HIDE DEF S
<1>3. Nat \subseteq S
  BY <1>1, <1>2, SetInduction
<1>4. to - from \in S /\ from + (to - from) = to
  BY <1>3
<1>5. QED
  BY <1>4 DEF S

LEMMA RedoneIsUpward ==
    ASSUME NEW image, NEW from \in Nat, NEW to \in Nat, from =< to
    PROVE  \E f : Upward(f, image, from, to) /\ Redone(image, from, to) = f[to]
<1> DEFINE f == CHOOSE f : Upward(f, image, from, to)
<1>1. Upward(f, image, from, to)
  BY UpwardExists
<1>2. Redone(image, from, to) = f[to]
  BY DEF Redone, Upward
<1>3. QED
  BY <1>1, <1>2

\* What the redo scripts from+1 .. to leave, if they succeed.
LEMMA RedoneFacts ==
    ASSUME NEW image, NEW from \in 0 .. 7, NEW to \in 0 .. 7, from < to
    PROVE  LET after == Redone(image, from, to)
               new   == Pieces(from + 1 .. to)
           IN  /\ after.settings = image.settings \ new
               /\ after.schema \subseteq image.schema \cup new
               /\ image.schema \ {"templates"} \subseteq after.schema
               /\ new \subseteq after.schema
               /\ after.ok /\ from = 0 => "templates" \in image.schema
<1>1. PICK f : Upward(f, image, from, to) /\ Redone(image, from, to) = f[to]
  BY RedoneIsUpward
<1> DEFINE new(m) == Pieces(from + 1 .. m)
           P(m) == /\ f[m].settings = image.settings \ new(m)
                   /\ f[m].schema \subseteq image.schema \cup new(m)
                   /\ image.schema \ {"templates"} \subseteq f[m].schema
                   /\ new(m) \subseteq f[m].schema
                   /\ f[m].ok /\ from = 0 /\ m > from => "templates" \in image.schema
           S == {n \in Nat : from + n =< to => P(from + n)}
<1>2. f[from] = image
  BY <1>1 DEF Upward
<1>3. 0 \in S
  <2>1. new(from) = {} /\ from + 0 = from
    BY DEF Pieces
  <2>2. P(from)
    BY <1>2, <2>1
  <2>3. QED
    BY <2>1, <2>2
<1>4. ASSUME NEW n \in Nat, n \in S
      PROVE  n + 1 \in S
  <2> SUFFICES ASSUME from + (n + 1) =< to
               PROVE  P(from + (n + 1))
    OBVIOUS
  <2> DEFINE m == from + n
             k == m + 1
  <2>1. P(m) /\ m \in from .. to /\ k \in from .. to /\ k # from /\ k \in 1 .. 7 /\ k - 1 = m
        /\ from + (n + 1) = k /\ k > from
    BY <1>4
  <2>2. f[k] = Redo(f[m], k)
    BY <1>1, <2>1 DEF Upward
  <2>3. new(k) = new(m) \cup {Piece[k]}
    <3>1. from + 1 .. k = (from + 1 .. m) \cup {k}
      BY <2>1
    <3>2. QED
      BY <3>1 DEF Pieces
  <2>4. f[k].settings = f[m].settings \ {Piece[k]}
    BY <2>2 DEF Redo
  <2>5. /\ f[k].schema \subseteq f[m].schema \cup {Piece[k]}
        /\ f[m].schema \ {"templates"} \subseteq f[k].schema
        /\ Piece[k] \in f[k].schema
    BY <2>1, <2>2, PiecesDiffer DEF Redo
  <2>6. "templates" \notin new(m)
    BY <2>1, PiecesDiffer DEF Pieces
  <2>7. f[k].ok /\ from = 0 => "templates" \in image.schema
    <3>1. f[k].ok => f[m].ok /\ RedoOk(f[m].schema, k)
      <4> HIDE DEF m, k
      <4>1. f[k].ok = (f[m].ok /\ RedoOk(f[m].schema, k))
        BY <2>2 DEF Redo
      <4>2. QED
        BY <4>1, Zenon
    <3>2. CASE n = 0
      BY <1>2, <2>1, <3>1, <3>2 DEF RedoOk
    <3>3. CASE n # 0
      <4>1. m > from
        BY <3>3
      <4>2. QED
        BY <2>1, <3>1, <4>1
    <3>4. QED
      BY <3>2, <3>3
  <2> HIDE DEF m, k
  <2>8. P(k)
    <3>1. f[k].settings = image.settings \ new(k)
      BY <2>1, <2>3, <2>4
    <3>2. f[k].schema \subseteq image.schema \cup new(k)
      BY <2>1, <2>3, <2>5
    <3>3. image.schema \ {"templates"} \subseteq f[k].schema
      BY <2>1, <2>5
    <3>4. new(k) \subseteq f[k].schema
      BY <2>1, <2>3, <2>5, <2>6
    <3>5. QED
      BY <2>7, <3>1, <3>2, <3>3, <3>4
  <2>9. QED
    BY <2>1, <2>8
<1>5. P(to)
  <2> HIDE DEF P, S
  <2>1. Nat \subseteq S
    BY <1>3, <1>4, SetInduction
  <2>2. to - from \in S /\ from + (to - from) = to
    BY <2>1
  <2>3. QED
    BY <2>2 DEF S
<1>6. QED
  BY <1>1, <1>5

-------------------------------------------------------------------------------
Downward(f, image, from, to) ==
    f = [m \in to .. from |-> IF m = from THEN image ELSE Undo(f[m + 1], m + 1)]

LEMMA DownwardExists ==
    ASSUME NEW image, NEW from \in Nat, NEW to \in Nat, to =< from
    PROVE  \E f : Downward(f, image, from, to)
<1> DEFINE S == {n \in Nat : n =< from => \E f : Downward(f, image, from, from - n)}
<1>1. 0 \in S
  <2> DEFINE f == [m \in from - 0 .. from |-> image]
  <2>1. \A m \in from - 0 .. from : m = from
    OBVIOUS
  <2>2. Downward(f, image, from, from - 0)
    BY <2>1 DEF Downward
  <2>3. QED
    BY <2>2
<1>2. ASSUME NEW n \in Nat, n \in S
      PROVE  n + 1 \in S
  <2> SUFFICES ASSUME n + 1 =< from
               PROVE  \E g : Downward(g, image, from, from - (n + 1))
    OBVIOUS
  <2>1. PICK f : Downward(f, image, from, from - n)
    BY <1>2
  <2> DEFINE last == from - (n + 1)
             g == [m \in last .. from |-> IF m = last THEN Undo(f[last + 1], last + 1) ELSE f[m]]
  <2>2. Downward(g, image, from, last)
    <3> SUFFICES ASSUME NEW m \in last .. from
                 PROVE  g[m] = IF m = from THEN image ELSE Undo(g[m + 1], m + 1)
      BY DEF Downward
    <3>1. CASE m = last
      <4>1. m # from /\ m + 1 \in last .. from /\ m + 1 # last
        BY <3>1
      <4>2. g[m + 1] = f[m + 1] /\ g[m] = Undo(f[m + 1], m + 1)
        BY <3>1, <4>1
      <4>3. QED
        BY <4>1, <4>2
    <3>2. CASE m # last
      <4>1. m \in from - n .. from
        BY <3>2
      <4>2. f[m] = IF m = from THEN image ELSE Undo(f[m + 1], m + 1)
        BY <2>1, <4>1 DEF Downward
      <4>3. g[m] = f[m]
        BY <3>2
      <4>4. m # from => m + 1 \in last .. from /\ m + 1 # last
        BY <4>1
      <4>5. m # from => g[m + 1] = f[m + 1]
        BY <4>4
      <4>6. QED
        BY <4>2, <4>3, <4>5
    <3>3. QED
      BY <3>1, <3>2
  <2>3. QED
    BY <2>2
<1> HIDE DEF S
<1>3. Nat \subseteq S
  BY <1>1, <1>2, SetInduction
<1>4. from - to \in S /\ from - to =< from /\ from - (from - to) = to
  BY <1>3
<1>5. QED
  BY <1>4 DEF S

LEMMA UndoneIsDownward ==
    ASSUME NEW image, NEW from \in Nat, NEW to \in Nat, to =< from
    PROVE  \E f : Downward(f, image, from, to) /\ Undone(image, from, to) = f[to]
<1> DEFINE f == CHOOSE f : Downward(f, image, from, to)
<1>1. Downward(f, image, from, to)
  BY DownwardExists
<1>2. Undone(image, from, to) = f[to]
  BY DEF Undone, Downward
<1>3. QED
  BY <1>1, <1>2

\* What the undo scripts from .. to+1 leave of a database; the first is not undone.
LEMMA UndoneFacts ==
    ASSUME NEW image, NEW from \in 1 .. 7, NEW to \in 1 .. 7, to =< from,
           image.settings \subseteq FilterSettings \cap image.schema
    PROVE  LET after == Undone(image, from, to)
           IN  /\ after.schema = image.schema \ Pieces(to + 1 .. from)
               /\ after.settings \subseteq FilterSettings \cap after.schema
<1>1. PICK f : Downward(f, image, from, to) /\ Undone(image, from, to) = f[to]
  BY UndoneIsDownward
<1> DEFINE P(m) == /\ f[m].schema = image.schema \ Pieces(m + 1 .. from)
                   /\ f[m].settings \subseteq FilterSettings \cap f[m].schema
           S == {n \in Nat : from - n >= to => P(from - n)}
<1>2. f[from] = image
  BY <1>1 DEF Downward
<1>3. 0 \in S
  <2>1. Pieces(from + 1 .. from) = {} /\ from - 0 = from
    BY DEF Pieces
  <2>2. P(from)
    BY <1>2, <2>1
  <2>3. QED
    BY <2>1, <2>2
<1>4. ASSUME NEW n \in Nat, n \in S
      PROVE  n + 1 \in S
  <2> SUFFICES ASSUME from - (n + 1) >= to
               PROVE  P(from - (n + 1))
    OBVIOUS
  <2> DEFINE m == from - n
             k == m - 1
  <2>1. P(m) /\ m \in to .. from /\ k \in to .. from /\ k # from /\ m \in 2 .. 7 /\ k + 1 = m
        /\ from - (n + 1) = k
    BY <1>4
  <2>2. f[k] = Undo(f[m], m)
    BY <1>1, <2>1 DEF Downward
  <2>3. Pieces(k + 1 .. from) = Pieces(m + 1 .. from) \cup {Piece[m]}
    <3>1. k + 1 .. from = (m + 1 .. from) \cup {m}
      BY <2>1
    <3>2. QED
      BY <3>1 DEF Pieces
  <2>4. f[k].schema = f[m].schema \ {Piece[m]}
    BY <2>1, <2>2 DEF Undo
  <2>5. f[k].settings \subseteq f[m].settings \ {Piece[m]}
    BY <2>2 DEF Undo
  <2> HIDE DEF m, k
  <2>6. P(k)
    BY <2>1, <2>3, <2>4, <2>5
  <2>7. QED
    BY <2>1, <2>6
<1>5. P(to)
  <2> HIDE DEF P, S
  <2>1. Nat \subseteq S
    BY <1>3, <1>4, SetInduction
  <2>2. from - to \in S /\ from - (from - to) = to
    BY <2>1
  <2>3. QED
    BY <2>2 DEF S
<1>6. QED
  BY <1>1, <1>5

-------------------------------------------------------------------------------
(***************************************************************************)
(* The invariant                                                           *)
(***************************************************************************)
LEMMA KnownVersion ==
    ASSUME NEW p \in Opener
    PROVE  Known[p] \in 1 .. 7
BY KnownAssumption, Lengths

LEMMA NotOpeningType ==
    NotOpening \in OpeningState /\ [NotOpening EXCEPT !.pc = "open"] \in OpeningState
<1>1. NotOpening \in OpeningState
  BY DEF NotOpening, OpeningState
<1>2. [NotOpening EXCEPT !.pc = "open"] \in OpeningState
  BY <1>1 DEF OpeningState
<1>3. QED
  BY <1>1, <1>2

LEMMA MigratesUp ==
    ASSUME IInv, NEW p \in Opener, Migrate(p)
    PROVE  LET image == Redone(StoredImage, opening[p].from, Known[p])
               new   == Pieces(opening[p].from + 1 .. Known[p])
           IN  /\ opening[p].pc = "migrate" /\ file' = file
               /\ opening[p].from \in 0 .. 7 /\ opening[p].from < Known[p]
               /\ \/ /\ schema' = image.schema /\ settings' = image.settings /\ version' = Known[p]
                     /\ opening' = [opening EXCEPT ![p].pc = "conn"]
                     /\ image.settings = settings \ new
                     /\ image.schema \subseteq schema \cup new
                     /\ schema \ {"templates"} \subseteq image.schema
                     /\ new \subseteq image.schema
                     /\ opening[p].from = 0 => "templates" \in schema
                  \/ /\ UNCHANGED <<schema, settings, version>>
                     /\ opening' = [opening EXCEPT ![p] = NotOpening]
<1> DEFINE from  == opening[p].from
           image == Redone(StoredImage, from, Known[p])
           new   == Pieces(from + 1 .. Known[p])
<1>1. opening[p].pc = "migrate" /\ file' = file /\ from < Known[p]
  BY DEF Migrate
<1>2. from \in 0 .. 7 /\ Known[p] \in 0 .. 7
  BY KnownVersion DEF IInv, OpeningState
<1>3. Migrated(from, Known[p]) = image
  BY <1>1, <1>2 DEF Migrated
<1>4. /\ image.settings = StoredImage.settings \ new
      /\ image.schema \subseteq StoredImage.schema \cup new
      /\ StoredImage.schema \ {"templates"} \subseteq image.schema
      /\ new \subseteq image.schema
      /\ image.ok /\ from = 0 => "templates" \in StoredImage.schema
  BY <1>1, <1>2, RedoneFacts
<1>5. StoredImage.settings = settings /\ StoredImage.schema = schema
  BY DEF StoredImage
<1>6. CASE image.ok
  <2>1. /\ schema' = image.schema /\ settings' = image.settings /\ version' = Known[p]
        /\ opening' = [opening EXCEPT ![p].pc = "conn"]
    BY <1>3, <1>6 DEF Migrate, OpeningAt
  <2>2. QED
    BY <1>1, <1>2, <1>4, <1>5, <1>6, <2>1
<1>7. CASE ~image.ok
  <2>1. UNCHANGED <<schema, settings, version>> /\ opening' = [opening EXCEPT ![p] = NotOpening]
    BY <1>3, <1>7 DEF Migrate
  <2>2. QED
    BY <1>1, <1>2, <2>1
<1>8. QED
  BY <1>6, <1>7

LEMMA MigratesDown ==
    ASSUME IInv, NEW p \in Opener, NEW to \in Versions, Downgrade(p, to)
    PROVE  /\ to \in 1 .. 7 /\ opening[p].pc = "conn" /\ version' = to /\ file' = file
           /\ schema' = schema \ Pieces(to + 1 .. Known[p])
           /\ settings' \subseteq FilterSettings \cap schema'
           /\ \A q \in Opener \ {p} : opening[q].pc = "idle"
           /\ opening' = [opening EXCEPT ![p] = [pc |-> "low", from |-> to, busy |-> FALSE]]
<1>1. Known[p] \in 1 .. 7 /\ to \in 1 .. 7 /\ to =< Known[p]
  BY KnownVersion DEF Downgrade
<1> DEFINE image == Undone(StoredImage, Known[p], to)
<1>2. StoredImage.settings = settings /\ StoredImage.schema = schema
  BY DEF StoredImage
<1>3. /\ image.schema = schema \ Pieces(to + 1 .. Known[p])
      /\ image.settings \subseteq FilterSettings \cap image.schema
  <2>1. StoredImage.settings \subseteq FilterSettings \cap StoredImage.schema
    BY <1>2 DEF IInv
  <2>2. QED
    BY <1>1, <1>2, <2>1, UndoneFacts
<1>4. Known[p] > to
  BY <1>1 DEF Downgrade
<1>5. Migrated(Known[p], to) = image
  BY <1>4 DEF Migrated
<1>6. QED
  BY <1>1, <1>3, <1>5 DEF Downgrade

LEMMA InitInvariant == OpeningInit => IInv
<1> SUFFICES ASSUME OpeningInit
             PROVE  IInv
  OBVIOUS
<1>1. version \in 0 .. 7 /\ (schema = {} \/ schema = SchemaAt(version)) /\ file \in BOOLEAN
  <2>1. 0 \in 0 .. 7 /\ Versions = 0 .. 7
    BY Lengths
  <2>2. QED
    BY <2>1 DEF OpeningInit
<1>2. schema \subseteq Names /\ ("templates" \in schema => "base" \in schema)
  BY <1>1 DEF SchemaAt, Names
<1>3. opening \in [Opener -> OpeningState]
  BY DEF OpeningInit, OpeningState, NotOpening
<1>4. QED
  BY <1>1, <1>2, <1>3 DEF IInv, OpeningInit

LEMMA NextInvariant == IInv /\ [OpeningNext]_openingVars => IInv'
<1> SUFFICES ASSUME IInv, [OpeningNext]_openingVars
             PROVE  IInv'
  OBVIOUS
<1>1. CASE UNCHANGED openingVars
  BY <1>1 DEF openingVars, IInv
<1>2. ASSUME NEW p \in Opener, TestFile(p)
      PROVE  IInv'
  BY <1>2 DEF TestFile, OpeningAt, IInv, OpeningState
<1>3. ASSUME NEW p \in Opener, CreateFile(p)
      PROVE  IInv'
  BY <1>3 DEF CreateFile, IInv, OpeningState
<1>4. ASSUME NEW p \in Opener, ChildStatement(p)
      PROVE  IInv'
  <2>1. PICK g \in Script(p) :
          \/ /\ schema' = schema \cup Made(p, g)
             /\ settings' = settings \ Made(p, g)
             /\ opening' = [opening EXCEPT ![p].from = g]
          \/ /\ opening' = [opening EXCEPT ![p].from = g, ![p].busy = TRUE]
             /\ UNCHANGED <<schema, settings>>
    BY <1>4 DEF ChildStatement
  <2>2. g \in 0 .. 7
    BY Lengths DEF Script
  <2>3. opening' \in [Opener -> OpeningState]
    BY <2>1, <2>2 DEF IInv, OpeningState
  <2>4. Made(p, g) \subseteq Names /\ "templates" \notin Made(p, g)
    BY KnownVersion, SchemaOfVersion DEF Made, Names, Pieces
  <2>5. QED
    BY <1>4, <2>1, <2>3, <2>4 DEF ChildStatement, IInv
<1>5. ASSUME NEW p \in Opener, ChildEnds(p)
      PROVE  IInv'
  <2>1. opening' \in [Opener -> OpeningState]
    <3>1. \/ opening' = [opening EXCEPT ![p] = NotOpening]
          \/ opening' = [opening EXCEPT ![p] = [NotOpening EXCEPT !.pc = "open"]]
      BY <1>5 DEF ChildEnds
    <3>2. QED
      BY <3>1, NotOpeningType DEF IInv
  <2>2. QED
    BY <1>5, <2>1, KnownVersion DEF ChildEnds, IInv
<1>6. ASSUME NEW p \in Opener, ReadVersion(p)
      PROVE  IInv'
  BY <1>6 DEF ReadVersion, IInv, OpeningState
<1>7. ASSUME NEW p \in Opener, Migrate(p)
      PROVE  IInv'
  <2>1. opening' \in [Opener -> OpeningState]
    <3>1. \/ opening' = [opening EXCEPT ![p] = NotOpening]
          \/ opening' = [opening EXCEPT ![p].pc = "conn"]
      BY <1>7, MigratesUp
    <3>2. CASE opening' = [opening EXCEPT ![p].pc = "conn"]
      BY <3>2 DEF IInv, OpeningState
    <3>3. QED
      BY <3>1, <3>2, NotOpeningType DEF IInv
  <2> DEFINE new == Pieces(opening[p].from + 1 .. Known[p])
  <2>2. new \subseteq Names /\ "templates" \notin new
    <3>1. opening[p].from \in 0 .. 7 /\ Known[p] \in 1 .. 7
      BY KnownVersion DEF IInv, OpeningState
    <3>2. opening[p].from + 1 .. Known[p] \subseteq 1 .. 7
      BY <3>1
    <3>3. QED
      BY <3>2, PiecesDiffer DEF Pieces, Names
  <2>3. version' \in 0 .. 7 /\ file' \in BOOLEAN
    BY <1>7, MigratesUp, KnownVersion DEF IInv
  <2>4. /\ schema' \subseteq schema \cup new /\ schema \ {"templates"} \subseteq schema'
        /\ settings' \subseteq settings /\ (settings' = settings \ new \/ UNCHANGED <<schema, settings>>)
    BY <1>7, MigratesUp
  <2> HIDE DEF new
  <2>5. schema' \subseteq Names /\ ("templates" \in schema' => "base" \in schema')
    BY <2>2, <2>4 DEF IInv
  <2>6. settings' \subseteq FilterSettings \cap schema'
    BY <2>4 DEF IInv, FilterSettings
  <2>7. QED
    BY <2>1, <2>3, <2>5, <2>6 DEF IInv
<1>8. ASSUME NEW p \in Opener, TooNew(p) \/ CloseDb(p)
      PROVE  IInv'
  <2>1. opening' = [opening EXCEPT ![p] = NotOpening] /\ UNCHANGED <<file, schema, version, settings>>
    BY <1>8 DEF TooNew, CloseDb
  <2>2. opening' \in [Opener -> OpeningState]
    BY <2>1, NotOpeningType DEF IInv
  <2>3. QED
    BY <2>1, <2>2 DEF IInv
<1>9. ASSUME NEW p \in Opener, NEW name \in FilterSettings, SetSettings(p, name)
      PROVE  IInv'
  BY <1>9 DEF SetSettings, IInv
<1>10. ASSUME NEW p \in Opener, NEW to \in Versions, Downgrade(p, to)
       PROVE  IInv'
  <2>1. /\ to \in 0 .. 7 /\ version' = to /\ file' = file
        /\ schema' = schema \ Pieces(to + 1 .. Known[p])
        /\ settings' \subseteq FilterSettings \cap schema'
        /\ opening' = [opening EXCEPT ![p] = [pc |-> "low", from |-> to, busy |-> FALSE]]
    BY <1>10, MigratesDown
  <2>2. "base" \notin Pieces(to + 1 .. Known[p])
    <3>1. to + 1 .. Known[p] \subseteq 1 .. 7
      BY <2>1, KnownVersion
    <3>2. QED
      BY <3>1, PiecesDiffer DEF Pieces
  <2>3. opening' \in [Opener -> OpeningState]
    BY <2>1 DEF IInv, OpeningState
  <2>4. QED
    BY <2>1, <2>2, <2>3 DEF IInv
<1>11. QED
  BY <1>1, <1>2, <1>3, <1>4, <1>5, <1>6, <1>7, <1>8, <1>9, <1>10 DEF OpeningNext

LEMMA Invariant == OpeningSpec => []IInv
BY InitInvariant, NextInvariant, PTL DEF OpeningSpec

\* The state of the processes and the file keeps its type, and settings are
\* stored only where their table is.
LEMMA OpeningTypes == OpeningSpec => []OpeningTypeOK
<1>1. IInv => OpeningTypeOK
  <2> SUFFICES ASSUME IInv
               PROVE  OpeningTypeOK
    OBVIOUS
  <2>1. Len(Piece) = 7 /\ Versions = 0 .. 7 /\ Len(Groups) = 7
    BY Lengths DEF Groups
  <2>2. schema \subseteq {"base", "templates"} \cup {Piece[m] : m \in 1 .. Len(Piece)}
    BY <2>1 DEF IInv, Names
  <2>3. \A p \in Opener : opening[p] \in OpeningState
    BY DEF IInv
  <2>4. \A p \in Opener :
         /\ opening[p].pc \in {"idle", "create", "child", "open", "migrate", "conn", "low"}
         /\ opening[p].from \in 0 .. Len(Groups)
         /\ opening[p].busy \in BOOLEAN
    BY <2>1, <2>3 DEF OpeningState
  <2>5. QED
    BY <2>1, <2>2, <2>4 DEF IInv, OpeningTypeOK
<1>2. QED
  BY <1>1, Invariant, PTL

-------------------------------------------------------------------------------
(***************************************************************************)
(* What an upgrade keeps                                                   *)
(***************************************************************************)

\* A process that does not take the file for newer than it is has the whole
\* schema of its version when it has migrated.
LEMMA UpgradeIsWhole ==
    ASSUME IInv, NEW p \in Opener, Migrate(p), opening'[p].pc = "conn",
           VersionIsTrue, ~(version < opening[p].from)
    PROVE  SchemaAt(Known[p]) \subseteq schema' /\ version' = Known[p]
<1> DEFINE from == opening[p].from
           to   == Known[p]
           new  == Pieces(from + 1 .. to)
<1>1. from \in 0 .. 7 /\ to \in 1 .. 7 /\ from < to /\ version \in 0 .. 7 /\ from =< version
  <2>1. from \in 0 .. 7 /\ from < to
    BY MigratesUp
  <2>2. to \in 1 .. 7 /\ version \in 0 .. 7
    BY KnownVersion DEF IInv
  <2>3. QED
    BY <2>1, <2>2
<1>2. /\ schema \ {"templates"} \subseteq schema' /\ new \subseteq schema' /\ version' = to
      /\ from = 0 => "templates" \in schema
  <2>1. ~(opening' = [opening EXCEPT ![p] = NotOpening])
    BY DEF IInv, OpeningState, NotOpening
  <2>2. QED
    BY <2>1, MigratesUp
<1>3. SchemaAt(to) = {"base"} \cup Pieces(1 .. to) /\ Pieces(1 .. to) = Pieces(1 .. from) \cup new
  <2>1. 1 .. to = (1 .. from) \cup (from + 1 .. to)
    BY <1>1
  <2>2. QED
    BY <1>1, <2>1, SchemaOfVersion DEF Pieces
<1>4. Pieces(1 .. from) \subseteq schema \ {"templates"} /\ "base" \in schema
  <2>1. CASE version = 0
    <3>1. from = 0 /\ 1 .. from = {}
      BY <1>1, <2>1
    <3>2. "base" \in schema
      BY <1>2, <3>1 DEF IInv
    <3>3. QED
      BY <3>1, <3>2 DEF Pieces
  <2>2. CASE version # 0
    <3>1. version \in 1 .. 7 /\ version > 0
      BY <1>1, <2>2
    <3>2. {"base"} \cup Pieces(1 .. version) \subseteq schema
          /\ "templates" \notin Pieces(1 .. version)
      BY <3>1, SchemaOfVersion DEF VersionIsTrue
    <3>3. 1 .. from \subseteq 1 .. version
      BY <1>1
    <3>4. QED
      BY <3>2, <3>3 DEF Pieces
  <2>3. QED
    BY <2>1, <2>2
<1> HIDE DEF new, from, to
<1>5. SchemaAt(to) \subseteq schema'
  BY <1>2, <1>3, <1>4
<1>6. QED
  BY <1>2, <1>5 DEF to

\* No step takes a part away from a binary that has the file open.
LEMMA ConnectionsKept ==
    ASSUME IInv, NEW q \in Opener, SchemaAt(Known[q]) \subseteq schema,
           schema \ {"templates"} \subseteq schema'
    PROVE  SchemaAt(Known[q]) \subseteq schema'
BY KnownVersion, SchemaOfVersion

\* A migration by a process that has not been overtaken by the creation of a new
\* file never marks the file with a version it does not have, nor leaves a
\* connection without a part of its schema, whatever versions the processes have.
THEOREM MigrationsSpoilNothing == OpeningSpec => OnlyCreationSpoilsDatabases
<1> DEFINE Spoiled ==
      /\ VersionIsTrue /\ ~VersionIsTrue' =>
           \E p \in Opener : \/ ScriptDone(p) /\ Moves(p, "child", {"open", "idle"})
                             \/ MisjudgesVersion(p)
      /\ ConnectionsAreCurrent /\ ~ConnectionsAreCurrent' =>
           \/ \E p \in Opener : Moves(p, "create", {"child"}) \/ MisjudgesVersion(p)
           \/ ~VersionIsTrue
<1>1. IInv /\ [OpeningNext]_openingVars => [Spoiled]_openingVars
  <2> SUFFICES ASSUME IInv, OpeningNext
               PROVE  Spoiled
    OBVIOUS
  <2>1. ASSUME NEW p \in Opener, TestFile(p)
        PROVE  Spoiled
    <3>1. UNCHANGED <<schema, version>>
      BY <2>1 DEF TestFile
    <3>2. \A q \in Opener : opening'[q].pc = "conn" => opening[q].pc = "conn"
      BY <2>1 DEF TestFile, OpeningAt, IInv, OpeningState
    <3>3. QED
      BY <3>1, <3>2 DEF VersionIsTrue, ConnectionsAreCurrent
  <2>2. ASSUME NEW p \in Opener, CreateFile(p)
        PROVE  Spoiled
    <3>1. version' = 0 /\ Moves(p, "create", {"child"})
      BY <2>2 DEF CreateFile, Moves, IInv, OpeningState
    <3>2. QED
      BY <3>1 DEF VersionIsTrue
  <2>3. ASSUME NEW p \in Opener, ChildStatement(p)
        PROVE  Spoiled
    <3>1. schema \subseteq schema' /\ version' = version
      BY <2>3 DEF ChildStatement
    <3>2. \A q \in Opener : opening'[q].pc = opening[q].pc
      BY <2>3 DEF ChildStatement, IInv, OpeningState
    <3>3. QED
      BY <3>1, <3>2 DEF VersionIsTrue, ConnectionsAreCurrent
  <2>4. ASSUME NEW p \in Opener, ChildEnds(p)
        PROVE  Spoiled
    <3>1. ScriptDone(p) /\ schema' = schema /\ opening[p].pc = "child"
      BY <2>4 DEF ChildEnds
    <3>2. opening'[p].pc \in {"open", "idle"}
          /\ \A q \in Opener : q # p => opening'[q] = opening[q]
      BY <2>4 DEF ChildEnds, IInv, OpeningState, NotOpening
    <3>3. Moves(p, "child", {"open", "idle"})
      BY <3>1, <3>2 DEF Moves
    <3>4. ConnectionsAreCurrent => ConnectionsAreCurrent'
      BY <3>1, <3>2 DEF ConnectionsAreCurrent
    <3>5. QED
      BY <3>1, <3>3, <3>4
  <2>5. ASSUME NEW p \in Opener, ReadVersion(p)
        PROVE  Spoiled
    <3>1. UNCHANGED <<schema, version>>
      BY <2>5 DEF ReadVersion
    <3>2. \A q \in Opener : opening'[q].pc = "conn" =>
            opening[q].pc = "conn" \/ version = Known[q]
      BY <2>5 DEF ReadVersion, IInv, OpeningState
    <3>3. \A q \in Opener : version = Known[q] /\ VersionIsTrue => SchemaAt(Known[q]) \subseteq schema
      BY KnownVersion DEF VersionIsTrue
    <3>4. QED
      BY <3>1, <3>2, <3>3 DEF VersionIsTrue, ConnectionsAreCurrent
  <2>6. ASSUME NEW p \in Opener, Migrate(p)
        PROVE  Spoiled
    <3>1. CASE opening' = [opening EXCEPT ![p] = NotOpening] /\ UNCHANGED <<schema, settings, version>>
      <4>1. \A q \in Opener : opening'[q].pc = "conn" => opening[q].pc = "conn"
        BY <3>1 DEF IInv, OpeningState, NotOpening
      <4>2. QED
        BY <3>1, <4>1 DEF VersionIsTrue, ConnectionsAreCurrent
    <3>2. CASE opening' = [opening EXCEPT ![p].pc = "conn"] /\ schema \ {"templates"} \subseteq schema'
      <4>1. opening'[p].pc = "conn" /\ opening[p].pc = "migrate"
            /\ \A q \in Opener : q # p => opening'[q] = opening[q]
        BY <2>6, <3>2 DEF IInv, OpeningState, Migrate
      <4>2. CASE version < opening[p].from
        <5>1. MisjudgesVersion(p)
          BY <4>1, <4>2 DEF MisjudgesVersion, Moves
        <5>2. QED
          BY <5>1
      <4>3. CASE ~(version < opening[p].from)
        <5>1. VersionIsTrue => SchemaAt(Known[p]) \subseteq schema' /\ version' = Known[p]
          BY <2>6, <4>1, <4>3, UpgradeIsWhole
        <5>2. VersionIsTrue => VersionIsTrue'
          BY <5>1 DEF VersionIsTrue
        <5>3. VersionIsTrue /\ ConnectionsAreCurrent => ConnectionsAreCurrent'
          <6> SUFFICES ASSUME VersionIsTrue, ConnectionsAreCurrent, NEW q \in Opener,
                              opening'[q].pc = "conn"
                       PROVE  SchemaAt(Known[q]) \subseteq schema'
            BY DEF ConnectionsAreCurrent
          <6>1. CASE q = p
            BY <5>1, <6>1
          <6>2. CASE q # p
            BY <3>2, <4>1, <6>2, ConnectionsKept DEF ConnectionsAreCurrent
          <6>3. QED
            BY <6>1, <6>2
        <5>4. QED
          BY <5>2, <5>3
      <4>4. QED
        BY <4>2, <4>3
    <3>3. QED
      BY <2>6, <3>1, <3>2, MigratesUp
  <2>7. ASSUME NEW p \in Opener, TooNew(p) \/ CloseDb(p)
        PROVE  Spoiled
    <3>1. UNCHANGED <<schema, version>> /\ opening' = [opening EXCEPT ![p] = NotOpening]
      BY <2>7 DEF TooNew, CloseDb
    <3>2. \A q \in Opener : opening'[q].pc = "conn" => opening[q].pc = "conn"
      BY <3>1 DEF IInv, OpeningState, NotOpening
    <3>3. QED
      BY <3>1, <3>2 DEF VersionIsTrue, ConnectionsAreCurrent
  <2>8. ASSUME NEW p \in Opener, NEW name \in FilterSettings, SetSettings(p, name)
        PROVE  Spoiled
    BY <2>8 DEF SetSettings, VersionIsTrue, ConnectionsAreCurrent
  <2>9. ASSUME NEW p \in Opener, NEW to \in Versions, Downgrade(p, to)
        PROVE  Spoiled
    <3>1. /\ to \in 1 .. 7 /\ version' = to /\ opening[p].pc = "conn"
          /\ schema' = schema \ Pieces(to + 1 .. Known[p])
          /\ \A q \in Opener \ {p} : opening[q].pc = "idle"
          /\ opening' = [opening EXCEPT ![p] = [pc |-> "low", from |-> to, busy |-> FALSE]]
      BY <2>9, MigratesDown
    <3>2. opening'[p] = [pc |-> "low", from |-> to, busy |-> FALSE]
          /\ \A q \in Opener : q # p => opening'[q] = opening[q]
      BY <3>1 DEF IInv
    <3>3. ConnectionsAreCurrent'
      BY <3>1, <3>2 DEF ConnectionsAreCurrent
    <3>4. CASE version < to
      <4>1. MisjudgesVersion(p)
        BY <3>1, <3>2, <3>4 DEF MisjudgesVersion, Moves
      <4>2. QED
        BY <3>3, <4>1
    <3>5. CASE ~(version < to)
      <4>1. version \in 0 .. 7 /\ Known[p] \in 1 .. 7
        BY KnownVersion DEF IInv
      <4>2. version \in 1 .. 7 /\ version > 0 /\ 1 .. to \subseteq 1 .. version
        BY <3>1, <3>5, <4>1
      <4>3. VersionIsTrue => {"base"} \cup Pieces(1 .. to) \subseteq schema
        BY <4>2, SchemaOfVersion DEF VersionIsTrue, Pieces
      <4>4. ({"base"} \cup Pieces(1 .. to)) \cap Pieces(to + 1 .. Known[p]) = {}
        <5>1. 1 .. to \subseteq 1 .. 7 /\ to + 1 .. Known[p] \subseteq 1 .. 7
              /\ (1 .. to) \cap (to + 1 .. Known[p]) = {}
          BY <3>1, <4>1
        <5>2. QED
          BY <5>1, PiecesDiffer DEF Pieces
      <4>5. VersionIsTrue => SchemaAt(to) \subseteq schema'
        BY <3>1, <4>3, <4>4, SchemaOfVersion
      <4>6. VersionIsTrue => VersionIsTrue'
        BY <3>1, <4>5 DEF VersionIsTrue
      <4>7. QED
        BY <3>3, <4>6
    <3>6. QED
      BY <3>4, <3>5
  <2>10. QED
    BY <2>1, <2>2, <2>3, <2>4, <2>5, <2>6, <2>7, <2>8, <2>9 DEF OpeningNext
<1>2. OpeningSpec => [][Spoiled]_openingVars
  BY <1>1, Invariant, PTL DEF OpeningSpec
<1>3. QED
  BY <1>2 DEF OnlyCreationSpoilsDatabases

\* The settings that were stored for a list outlive the upgrade of a database whose
\* version is at most the one that was read and whose schema has nothing newer.
THEOREM UpgradesKeepSettings == OpeningSpec => SettingsSurviveUpgrades
<1> DEFINE Explained ==
      ~(settings \subseteq settings') =>
          \E p \in Opener :
             \/ Moves(p, "create", {"child"}) \/ Moves(p, "child", {"child"})
             \/ Moves(p, "conn", {"low"})
             \/ /\ Moves(p, "migrate", {"conn"})
                /\ opening[p].from < version \/ ~(schema \subseteq SchemaAt(version))
<1>1. IInv /\ [OpeningNext]_openingVars => [Explained]_openingVars
  <2> SUFFICES ASSUME IInv, OpeningNext
               PROVE  Explained
    OBVIOUS
  <2>1. ASSUME NEW p \in Opener, TestFile(p) \/ ChildEnds(p) \/ ReadVersion(p) \/ TooNew(p) \/ CloseDb(p)
        PROVE  Explained
    BY <2>1 DEF TestFile, ChildEnds, ReadVersion, TooNew, CloseDb
  <2>2. ASSUME NEW p \in Opener, NEW name \in FilterSettings, SetSettings(p, name)
        PROVE  Explained
    BY <2>2 DEF SetSettings
  <2>3. ASSUME NEW p \in Opener, CreateFile(p)
        PROVE  Explained
    <3>1. Moves(p, "create", {"child"})
      BY <2>3 DEF CreateFile, Moves, IInv, OpeningState
    <3>2. QED
      BY <3>1
  <2>4. ASSUME NEW p \in Opener, ChildStatement(p)
        PROVE  Explained
    <3>1. PICK g \in Script(p) : \/ opening' = [opening EXCEPT ![p].from = g]
                                 \/ opening' = [opening EXCEPT ![p].from = g, ![p].busy = TRUE]
      BY <2>4 DEF ChildStatement
    <3>2. g \in Nat /\ g # opening[p].from
      BY Lengths DEF Script, IInv, OpeningState
    <3>3. opening'[p].from = g /\ opening'[p].pc = opening[p].pc
      BY <3>1 DEF IInv, OpeningState
    <3>4. Moves(p, "child", {"child"})
      BY <2>4, <3>2, <3>3 DEF ChildStatement, Moves
    <3>5. QED
      BY <3>4
  <2>5. ASSUME NEW p \in Opener, Migrate(p)
        PROVE  Explained
    <3>1. SUFFICES ASSUME ~(settings \subseteq settings'), schema \subseteq SchemaAt(version),
                          ~(opening[p].from < version), opening' = [opening EXCEPT ![p].pc = "conn"]
                   PROVE  FALSE
      <4>1. \/ opening' = [opening EXCEPT ![p].pc = "conn"]
            \/ settings' = settings
        BY <2>5, MigratesUp
      <4>2. opening' = [opening EXCEPT ![p].pc = "conn"] => Moves(p, "migrate", {"conn"})
        BY <2>5 DEF Moves, Migrate, IInv, OpeningState
      <4>3. QED
        BY <4>1, <4>2
    <3>2. settings' = settings \ Pieces(opening[p].from + 1 .. Known[p])
      <4>1. ~(opening' = [opening EXCEPT ![p] = NotOpening])
        BY <3>1 DEF IInv, OpeningState, NotOpening
      <4>2. QED
        BY <2>5, <4>1, MigratesUp
    <3>3. PICK x \in settings : x \in Pieces(opening[p].from + 1 .. Known[p])
      BY <3>1, <3>2
    <3>4. PICK k \in opening[p].from + 1 .. Known[p] : x = Piece[k]
      BY <3>3 DEF Pieces
    <3>5. opening[p].from \in 0 .. 7 /\ Known[p] \in 1 .. 7 /\ version \in 0 .. 7
      BY KnownVersion DEF IInv, OpeningState
    <3>6. k \in 1 .. 7 /\ k > version
      BY <3>1, <3>4, <3>5
    <3>7. x \in SchemaAt(version) /\ x # "base" /\ x # "templates"
      BY <3>1, <3>4, <3>6, PiecesDiffer DEF IInv
    <3>8. PICK j \in 1 .. version : x = Piece[j]
      BY <3>7 DEF SchemaAt
    <3>9. j \in 1 .. 7 /\ j # k
      BY <3>5, <3>6, <3>8
    <3>10. QED
      BY <3>4, <3>6, <3>8, <3>9, PiecesDiffer
  <2>6. ASSUME NEW p \in Opener, NEW to \in Versions, Downgrade(p, to)
        PROVE  Explained
    <3>1. opening[p].pc = "conn"
          /\ opening' = [opening EXCEPT ![p] = [pc |-> "low", from |-> to, busy |-> FALSE]]
      BY <2>6, MigratesDown
    <3>2. Moves(p, "conn", {"low"})
      BY <3>1 DEF Moves, IInv, OpeningState
    <3>3. QED
      BY <3>2
  <2>7. QED
    BY <2>1, <2>2, <2>3, <2>4, <2>5, <2>6 DEF OpeningNext
<1>2. OpeningSpec => [][Explained]_openingVars
  BY <1>1, Invariant, PTL DEF OpeningSpec
<1>3. QED
  BY <1>2 DEF SettingsSurviveUpgrades
================================================================================
