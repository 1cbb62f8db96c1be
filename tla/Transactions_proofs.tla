-------------------------- MODULE Transactions_proofs --------------------------
(***************************************************************************)
(* Theorems about Transactions for every set of savepoint names, writes    *)
(* and drop behaviours and every nesting depth.                            *)
(*                                                                         *)
(* The handles are a stack of Rust values and SQLite keeps a stack of its  *)
(* own; marks of earlier handles, dropped without being released, stay on  *)
(* it.  The inductive invariant says how the two stacks agree as long as   *)
(* SQLite has not ended the transaction itself: the LAST mark of a live    *)
(* savepoint's name is the one it set, holding the image of that moment,   *)
(* and the marks of the live handles lie in the order of the handles.      *)
(***************************************************************************)
EXTENDS Transactions, NaturalsInduction, WellFoundedInduction, SequenceTheorems, TLAPS

\* The mark at p is the one that RELEASE n and ROLLBACK TO n would find.
IsLastMark(c, n, p) ==
    /\ p \in 1 .. Len(c.marks)
    /\ c.marks[p].name = n
    /\ \A q \in p + 1 .. Len(c.marks) : c.marks[q].name # n

\* A live handle can undo exactly what was done since it was opened.
Holds(c, h) ==
    /\ h.kind = "transaction" => c.explicit /\ h.start = c.stored
    /\ h.kind = "savepoint" =>
         \E p \in 1 .. Len(c.marks) : IsLastMark(c, h.name, p) /\ c.marks[p].image = h.start

\* The mark of an outer savepoint lies below the mark of an inner one.
Below(c, g, h) ==
    g.kind = "savepoint" /\ h.kind = "savepoint" =>
      \A p, q \in 1 .. Len(c.marks) :
        IsLastMark(c, g.name, p) /\ IsLastMark(c, h.name, q) => p < q

Agree(c, hs) ==
    /\ \A i \in 1 .. Len(hs) : Holds(c, hs[i])
    /\ \A i, j \in 1 .. Len(hs) : i < j => Below(c, hs[i], hs[j])

\* Only the outermost handle is a transaction; live savepoints differ in name.
Nested(hs) ==
    /\ \A i \in 1 .. Len(hs) : hs[i].kind = "transaction" => i = 1
    /\ \A i, j \in 1 .. Len(hs) :
         i < j /\ hs[i].kind = "savepoint" /\ hs[j].kind = "savepoint" => hs[i].name # hs[j].name

IInv ==
    /\ TypeOK
    /\ ~conn.open => conn.image = conn.stored
    /\ Nested(handles)
    /\ ~lost => Agree(conn, handles)

-------------------------------------------------------------------------------
(***************************************************************************)
(* Marks                                                                   *)
(***************************************************************************)

\* A non-empty set of numbers up to n has a largest element.
LEMMA LargestExists ==
    ASSUME NEW n \in Nat, NEW U, U \subseteq 1 .. n, U # {}
    PROVE  Max(U) \in U /\ (\A y \in U : Max(U) >= y)
<1> DEFINE T == {n - x : x \in U}
<1>0. \A x \in U : x \in 1 .. n /\ n - x \in Nat
  OBVIOUS
<1>1. T \subseteq Nat /\ T # {}
  BY <1>0
<1>2. PICK d \in T : \A e \in T : ~(<<e, d>> \in OpToRel(<, Nat))
  BY <1>1, NatLessThanWellFounded, WFMin
<1>3. PICK m \in U : d = n - m
  OBVIOUS
<1>4. \A y \in U : m >= y
  <2> TAKE y \in U
  <2>1. n - y \in T /\ n - y \in Nat /\ d \in Nat
    BY <1>1
  <2>2. ~(n - y < d)
    BY <1>2, <2>1 DEF OpToRel
  <2>3. QED
    BY <2>2, <1>3
<1>5. QED
  BY <1>4 DEF Max

LEMMA MarksType ==
    ASSUME NEW c \in Conn
    PROVE  /\ c.marks \in Seq(Mark) /\ Len(c.marks) \in Nat
           /\ DOMAIN c.marks = 1 .. Len(c.marks)
           /\ \A p \in 1 .. Len(c.marks) : c.marks[p] \in Mark /\ c.marks[p].image \subseteq Write
<1>1. c.marks \in Seq(Mark)
  BY DEF Conn
<1>2. Len(c.marks) \in Nat /\ DOMAIN c.marks = 1 .. Len(c.marks)
  BY <1>1
<1>3. \A p \in 1 .. Len(c.marks) : c.marks[p] \in Mark
  BY <1>1
<1>4. QED
  BY <1>1, <1>2, <1>3 DEF Mark

\* RELEASE and ROLLBACK TO find the last mark of the name.
LEMMA PositionIsLast ==
    ASSUME NEW c \in Conn, NEW n, Marked(c, n)
    PROVE  /\ Position(c, n) \in 1 .. Len(c.marks)
           /\ IsLastMark(c, n, Position(c, n))
<1> DEFINE U == {i \in 1 .. Len(c.marks) : c.marks[i].name = n}
<1>1. U \subseteq 1 .. Len(c.marks) /\ U # {}
  BY MarksType DEF Marked
<1>2. Position(c, n) = Max(U)
  BY <1>1 DEF Position, SelectLastInSeq
<1>3. Max(U) \in U /\ (\A y \in U : Max(U) >= y)
  <2> HIDE DEF U
  <2>1. QED
    BY <1>1, MarksType, LargestExists
<1>4. PICK m \in U : m = Max(U)
  BY <1>3
<1>5. m \in 1 .. Len(c.marks) /\ c.marks[m].name = n
  OBVIOUS
<1>6. ASSUME NEW q \in m + 1 .. Len(c.marks) PROVE c.marks[q].name # n
  <2>1. q \in 1 .. Len(c.marks) /\ ~(m >= q)
    BY <1>5, MarksType
  <2>2. q \notin U
    BY <1>3, <1>4, <2>1
  <2>3. QED
    BY <2>1, <2>2
<1>7. QED
  BY <1>2, <1>4, <1>5, <1>6 DEF IsLastMark

LEMMA LastIsUnique ==
    ASSUME NEW c \in Conn, NEW n, NEW p, NEW q, IsLastMark(c, n, p), IsLastMark(c, n, q)
    PROVE  p = q
BY MarksType DEF IsLastMark

LEMMA LastIsMarked ==
    ASSUME NEW c \in Conn, NEW n, NEW p, IsLastMark(c, n, p)
    PROVE  Marked(c, n) /\ Position(c, n) = p
<1>1. Marked(c, n)
  BY MarksType DEF IsLastMark, Marked
<1>2. QED
  BY <1>1, PositionIsLast, LastIsUnique

\* Cutting the stack above a mark keeps it, and finds no other of its name.
LEMMA CutKeepsMarks ==
    ASSUME NEW c \in Conn, NEW d \in Conn, NEW k \in 0 .. Len(c.marks),
           d.marks = SubSeq(c.marks, 1, k)
    PROVE  /\ Len(d.marks) = k
           /\ \A p \in 1 .. k : d.marks[p] = c.marks[p]
           /\ \A n, p : IsLastMark(c, n, p) /\ p <= k => IsLastMark(d, n, p)
<1>1. Len(d.marks) = k /\ \A p \in 1 .. k : d.marks[p] = c.marks[p]
  BY MarksType
<1>2. QED
  BY <1>1, MarksType DEF IsLastMark

\* A new mark is the last of its name and hides no mark of another name.
LEMMA NewMarkIsLast ==
    ASSUME NEW c \in Conn, NEW d \in Conn, NEW m \in Mark, d.marks = Append(c.marks, m)
    PROVE  /\ Len(d.marks) = Len(c.marks) + 1
           /\ \A p \in 1 .. Len(c.marks) : d.marks[p] = c.marks[p]
           /\ IsLastMark(d, m.name, Len(c.marks) + 1)
           /\ d.marks[Len(c.marks) + 1] = m
           /\ \A n, p : IsLastMark(c, n, p) /\ n # m.name => IsLastMark(d, n, p)
<1>1. /\ Len(d.marks) = Len(c.marks) + 1
      /\ \A p \in 1 .. Len(c.marks) : d.marks[p] = c.marks[p]
      /\ d.marks[Len(c.marks) + 1] = m
  BY MarksType, AppendProperties
<1>2. QED
  BY <1>1, MarksType DEF IsLastMark

-------------------------------------------------------------------------------
(***************************************************************************)
(* The statements                                                          *)
(***************************************************************************)
GoodConn(c) ==
    /\ c \in Conn
    /\ Len(c.marks) <= MaxMarks
    /\ c.marks # << >> \/ c.explicit => c.open
    /\ ~c.open => c.image = c.stored

LEMMA EndGood ==
    ASSUME NEW c, GoodConn(c)
    PROVE  /\ GoodConn(Commit(c)) /\ ~Commit(c).open
           /\ Commit(c).stored = c.image /\ Commit(c).image = c.image
           /\ GoodConn(Rollback(c)) /\ ~Rollback(c).open
           /\ Rollback(c).stored = c.stored /\ Rollback(c).image = c.stored
<1> DEFINE Ended(image, stored) ==
             [c EXCEPT !.open = FALSE, !.explicit = FALSE, !.marks = << >>,
                       !.image = image, !.stored = stored]
<1>1. Len(<< >>) = 0 /\ << >> \in Seq(Mark)
  OBVIOUS
<1>2. ASSUME NEW i \in SUBSET Write, NEW s \in SUBSET Write
      PROVE  /\ Ended(i, s) \in Conn /\ Ended(i, s).marks = << >>
             /\ ~Ended(i, s).open /\ ~Ended(i, s).explicit
             /\ Ended(i, s).image = i /\ Ended(i, s).stored = s
  BY <1>1 DEF GoodConn, Conn
<1>3. Commit(c) = Ended(c.image, c.image) /\ Rollback(c) = Ended(c.stored, c.stored)
  BY DEF GoodConn, Commit, Rollback, Conn
<1>4. c.image \in SUBSET Write /\ c.stored \in SUBSET Write
  BY DEF GoodConn, Conn
<1> HIDE DEF Ended
<1>5. ASSUME NEW i \in SUBSET Write
      PROVE  GoodConn(Ended(i, i)) /\ ~Ended(i, i).open
  BY <1>1, <1>2, BoundsAssumption DEF GoodConn
<1>6. QED
  BY <1>2, <1>3, <1>4, <1>5

LEMMA CutGood ==
    ASSUME NEW c, GoodConn(c), NEW k \in 0 .. Len(c.marks)
    PROVE  /\ SubSeq(c.marks, 1, k) \in Seq(Mark)
           /\ Len(SubSeq(c.marks, 1, k)) = k
           /\ k <= MaxMarks
           /\ SubSeq(c.marks, 1, k) # << >> <=> k # 0
BY MarksType, BoundsAssumption DEF GoodConn

\* RELEASE keeps the image; it stores it only when no mark is left below and no
\* BEGIN opened the transaction.
LEMMA ReleaseGood ==
    ASSUME NEW c, GoodConn(c), NEW n, Marked(c, n)
    PROVE  /\ GoodConn(Release(c, n))
           /\ Release(c, n).image = c.image
           /\ Position(c, n) # 1 \/ c.explicit =>
                /\ Release(c, n).stored = c.stored
                /\ Release(c, n).explicit = c.explicit
                /\ Release(c, n).marks = SubSeq(c.marks, 1, Position(c, n) - 1)
<1> DEFINE k == Position(c, n) - 1
           left == SubSeq(c.marks, 1, k)
<1>1. k \in 0 .. Len(c.marks) /\ c.open
  BY PositionIsLast, MarksType DEF GoodConn
<1>2. left \in Seq(Mark) /\ Len(left) <= MaxMarks /\ (left # << >> <=> k # 0)
  BY <1>1, CutGood
<1>3. CASE left = << >> /\ ~c.explicit
  <2>1. Release(c, n) = Commit(c)
    BY <1>3 DEF Release
  <2>2. QED
    BY <1>1, <1>2, <1>3, <2>1, EndGood, PositionIsLast DEF GoodConn
<1>4. CASE ~(left = << >> /\ ~c.explicit)
  <2>1. Release(c, n) = [c EXCEPT !.marks = left]
    BY <1>4 DEF Release
  <2> HIDE DEF left
  <2>2. GoodConn([c EXCEPT !.marks = left])
    BY <1>1, <1>2 DEF GoodConn, Conn
  <2>3. QED
    BY <2>1, <2>2 DEF GoodConn, Conn, left
<1>5. QED
  BY <1>3, <1>4

LEMMA RollbackToGood ==
    ASSUME NEW c, GoodConn(c), NEW n, Marked(c, n)
    PROVE  /\ GoodConn(RollbackTo(c, n))
           /\ RollbackTo(c, n).image = c.marks[Position(c, n)].image
           /\ RollbackTo(c, n).stored = c.stored
           /\ RollbackTo(c, n).explicit = c.explicit
           /\ RollbackTo(c, n).marks = SubSeq(c.marks, 1, Position(c, n))
           /\ Marked(RollbackTo(c, n), n)
           /\ Position(RollbackTo(c, n), n) = Position(c, n)
           /\ RollbackTo(c, n).marks[Position(c, n)] = c.marks[Position(c, n)]
<1> DEFINE k == Position(c, n)
           d == RollbackTo(c, n)
           kept == SubSeq(c.marks, 1, k)
           i == c.marks[k].image
<1>1. k \in 1 .. Len(c.marks) /\ IsLastMark(c, n, k) /\ c.open /\ i \subseteq Write
  BY PositionIsLast, MarksType DEF GoodConn
<1>2. kept \in Seq(Mark) /\ Len(kept) <= MaxMarks
  BY <1>1, CutGood, MarksType DEF GoodConn
<1>3. d = [c EXCEPT !.marks = kept, !.image = i]
  BY DEF RollbackTo
<1>4. /\ GoodConn(d) /\ d.marks = kept /\ d.image = i /\ d.stored = c.stored
      /\ d.explicit = c.explicit
  <2> HIDE DEF kept, i
  <2> HIDE DEF d
  <2>1. QED
    BY <1>1, <1>2, <1>3 DEF GoodConn, Conn
<1>5. IsLastMark(d, n, k) /\ d.marks[k] = c.marks[k]
  <2>1. c \in Conn /\ d \in Conn /\ k \in 0 .. Len(c.marks) /\ k \in 1 .. k
    BY <1>1, <1>4, MarksType DEF GoodConn
  <2>2. d.marks = SubSeq(c.marks, 1, k)
    BY <1>4
  <2> HIDE DEF d, kept, k
  <2>3. QED
    BY <1>1, <2>1, <2>2, CutKeepsMarks
<1>6. Marked(d, n) /\ Position(d, n) = k
  BY <1>4, <1>5, LastIsMarked DEF GoodConn
<1>7. QED
  BY <1>4, <1>5, <1>6

-------------------------------------------------------------------------------
(***************************************************************************)
(* How the statements of one handle leave the others                       *)
(***************************************************************************)

\* The handles that are live with `h` as the innermost one.
LEMMA FrontType ==
    ASSUME NEW hs \in Seq(Handle), hs # << >>
    PROVE  /\ Front(hs) \in Seq(Handle)
           /\ Len(hs) \in Nat \ {0}
           /\ Len(Front(hs)) = Len(hs) - 1
           /\ \A i \in 1 .. Len(hs) - 1 : Front(hs)[i] = hs[i]
           /\ hs[Len(hs)] \in Handle
<1>1. Len(hs) \in Nat \ {0} /\ \A i \in 1 .. Len(hs) : hs[i] \in Handle
  BY EmptySeq, ElementOfSeq
<1>2. \A i \in 1 .. Len(hs) - 1 : hs[i] \in Handle
  BY <1>1
<1>3. /\ SubSeq(hs, 1, Len(hs) - 1) \in Seq(Handle)
      /\ Len(SubSeq(hs, 1, Len(hs) - 1)) = Len(hs) - 1
      /\ \A i \in 1 .. Len(hs) - 1 : SubSeq(hs, 1, Len(hs) - 1)[i] = hs[i]
  <2>1. PICK n \in Nat : n = Len(hs) - 1
    BY <1>1
  <2>2. \A i \in 1 .. n : hs[i] \in Handle
    BY <1>2, <2>1
  <2>3. SubSeq(hs, 1, n) \in Seq(Handle)
    BY <2>2, SubSeqProperties
  <2>4. Len(SubSeq(hs, 1, n)) = n /\ \A i \in 1 .. n : SubSeq(hs, 1, n)[i] = hs[i]
    OBVIOUS
  <2>5. QED
    BY <2>1, <2>3, <2>4
<1>4. QED
  BY <1>1, <1>3 DEF Front

LEMMA AgreeFront ==
    ASSUME NEW c, NEW hs \in Seq(Handle), hs # << >>, Agree(c, hs)
    PROVE  Agree(c, Front(hs))
<1> DEFINE fs == Front(hs)
<1>1. Len(hs) \in Nat \ {0} /\ Len(fs) = Len(hs) - 1 /\ \A i \in 1 .. Len(fs) : fs[i] = hs[i]
  BY FrontType
<1> HIDE DEF fs
<1>2. \A i \in 1 .. Len(fs) : Holds(c, fs[i])
  BY <1>1 DEF Agree
<1>3. \A i, j \in 1 .. Len(fs) : i < j => Below(c, fs[i], fs[j])
  BY <1>1 DEF Agree
<1>4. QED
  BY <1>2, <1>3 DEF Agree, fs

LEMMA NestedFront ==
    ASSUME NEW hs \in Seq(Handle), hs # << >>, Nested(hs)
    PROVE  Nested(Front(hs))
<1> DEFINE fs == Front(hs)
<1>1. Len(hs) \in Nat \ {0} /\ Len(fs) = Len(hs) - 1 /\ \A i \in 1 .. Len(fs) : fs[i] = hs[i]
  BY FrontType
<1> HIDE DEF fs
<1>2. Nested(fs)
  BY <1>1 DEF Nested
<1>3. QED
  BY <1>2 DEF fs

LEMMA NoHandles ==
    ASSUME NEW c, NEW hs \in Seq(Handle), Len(hs) = 0
    PROVE  Agree(c, hs) /\ Nested(hs)
BY DEF Agree, Nested

\* Cutting the stack above the marks of some handles leaves them as they are.
LEMMA AgreeCut ==
    ASSUME NEW c \in Conn, NEW d \in Conn, NEW k \in 0 .. Len(c.marks),
           NEW hs \in Seq(Handle), Agree(c, hs),
           d.marks = SubSeq(c.marks, 1, k), d.explicit = c.explicit, d.stored = c.stored,
           \A i \in 1 .. Len(hs), p \in 1 .. Len(c.marks) :
             hs[i].kind = "savepoint" /\ IsLastMark(c, hs[i].name, p) => p <= k
    PROVE  Agree(d, hs)
<1>1. /\ Len(d.marks) = k
      /\ \A p \in 1 .. k : d.marks[p] = c.marks[p]
      /\ \A n, p : IsLastMark(c, n, p) /\ p <= k => IsLastMark(d, n, p)
  BY CutKeepsMarks
<1>2. ASSUME NEW i \in 1 .. Len(hs), hs[i].kind = "savepoint"
      PROVE  \E p \in 1 .. k : /\ IsLastMark(c, hs[i].name, p) /\ IsLastMark(d, hs[i].name, p)
                               /\ d.marks[p].image = hs[i].start
                               /\ \A q : IsLastMark(d, hs[i].name, q) => q = p
  <2>1. PICK p \in 1 .. Len(c.marks) :
          IsLastMark(c, hs[i].name, p) /\ c.marks[p].image = hs[i].start
    BY <1>2 DEF Agree, Holds
  <2>2. p \in 1 .. k
    BY <1>2, <2>1, MarksType
  <2>3. IsLastMark(d, hs[i].name, p) /\ d.marks[p].image = hs[i].start
    BY <1>1, <2>1, <2>2
  <2>4. QED
    BY <2>1, <2>2, <2>3, LastIsUnique
<1>3. ASSUME NEW i \in 1 .. Len(hs) PROVE Holds(d, hs[i])
  BY <1>1, <1>2 DEF Agree, Holds
<1>4. ASSUME NEW i \in 1 .. Len(hs), NEW j \in 1 .. Len(hs), i < j
      PROVE  Below(d, hs[i], hs[j])
  <2> SUFFICES ASSUME hs[i].kind = "savepoint", hs[j].kind = "savepoint",
                      NEW p, NEW q, IsLastMark(d, hs[i].name, p), IsLastMark(d, hs[j].name, q)
               PROVE  p < q
    BY DEF Below
  <2>1. IsLastMark(c, hs[i].name, p) /\ IsLastMark(c, hs[j].name, q)
        /\ p \in 1 .. k /\ q \in 1 .. k
    BY <1>2
  <2>2. p \in 1 .. Len(c.marks) /\ q \in 1 .. Len(c.marks)
    BY <2>1, MarksType
  <2>3. Below(c, hs[i], hs[j])
    BY <1>4 DEF Agree
  <2>4. QED
    BY <2>1, <2>2, <2>3 DEF Below
<1>5. QED
  BY <1>3, <1>4 DEF Agree

LEMMA AgreeSame ==
    ASSUME NEW c, NEW d, NEW hs, Agree(c, hs),
           d.marks = c.marks, d.explicit = c.explicit, d.stored = c.stored
    PROVE  Agree(d, hs)
<1>1. \A n, p : IsLastMark(d, n, p) <=> IsLastMark(c, n, p)
  BY DEF IsLastMark
<1>2. QED
  BY <1>1 DEF Agree, Holds, Below

\* While SQLite has not ended it, a transaction with a live handle is open.
LEMMA AgreeOpen ==
    ASSUME NEW c, GoodConn(c), NEW hs \in Seq(Handle), hs # << >>, Agree(c, hs)
    PROVE  c.open
<1>1. Len(hs) \in Nat \ {0} /\ hs[Len(hs)] \in Handle
  BY FrontType
<1>2. Holds(c, hs[Len(hs)])
  BY <1>1 DEF Agree
<1>3. hs[Len(hs)].kind \in {"transaction", "savepoint"}
  BY <1>1 DEF Handle
<1>4. ASSUME NEW p \in 1 .. Len(c.marks) PROVE c.marks # << >>
  BY MarksType DEF GoodConn
<1>5. QED
  BY <1>2, <1>3, <1>4 DEF Holds, GoodConn

\* What the innermost handle finds.
LEMMA TopFinds ==
    ASSUME NEW c, GoodConn(c), NEW hs \in Seq(Handle), hs # << >>, Agree(c, hs), Nested(hs),
           NEW h, h = hs[Len(hs)]
    PROVE  /\ h \in Handle /\ CanCommit(c, h)
           /\ h.kind = "transaction" => Len(hs) = 1 /\ h.start = c.stored /\ c.explicit
           /\ h.kind = "savepoint" =>
                /\ Marked(c, h.name)
                /\ IsLastMark(c, h.name, Position(c, h.name))
                /\ c.marks[Position(c, h.name)].image = h.start
                /\ \A i \in 1 .. Len(hs) - 1, p \in 1 .. Len(c.marks) :
                     hs[i].kind = "savepoint" /\ IsLastMark(c, hs[i].name, p) =>
                       p < Position(c, h.name)
<1>1. Len(hs) \in Nat \ {0} /\ h \in Handle /\ Len(hs) \in 1 .. Len(hs)
  BY FrontType
<1>2. Holds(c, h) /\ h.kind \in {"transaction", "savepoint"}
  BY <1>1 DEF Agree, Handle
<1>3. CASE h.kind = "transaction"
  BY <1>1, <1>2, <1>3, AgreeOpen DEF Holds, Nested, CanCommit
<1>4. CASE h.kind = "savepoint"
  <2>1. PICK p \in 1 .. Len(c.marks) : IsLastMark(c, h.name, p) /\ c.marks[p].image = h.start
    BY <1>2, <1>4 DEF Holds
  <2>2. Marked(c, h.name) /\ Position(c, h.name) = p
    BY <2>1, LastIsMarked DEF GoodConn
  <2>3. ASSUME NEW i \in 1 .. Len(hs) - 1, NEW q \in 1 .. Len(c.marks),
               hs[i].kind = "savepoint", IsLastMark(c, hs[i].name, q)
        PROVE  q < p
    <3>1. Below(c, hs[i], h)
      BY <1>1 DEF Agree
    <3>2. QED
      BY <1>4, <2>1, <2>3, <3>1 DEF Below
  <2>4. QED
    BY <1>1, <1>4, <2>1, <2>2, <2>3 DEF CanCommit
<1>5. QED
  BY <1>2, <1>3, <1>4

-------------------------------------------------------------------------------
(***************************************************************************)
(* Closing the innermost handle                                            *)
(***************************************************************************)

\* Whatever state the two stacks are in, a handle's statements leave a sound
\* connection.
LEMMA StatementsGood ==
    ASSUME NEW c, GoodConn(c), NEW h \in Handle
    PROVE  /\ CanCommit(c, h) => GoodConn(CommitHandle(c, h))
           /\ GoodConn(RollbackHandle(c, h))
           /\ \A committed \in BOOLEAN : GoodConn(Finish(c, h, committed))
<1>1. CanCommit(c, h) => GoodConn(CommitHandle(c, h))
  BY EndGood, ReleaseGood DEF CanCommit, CommitHandle
<1>2. GoodConn(RollbackHandle(c, h))
  BY EndGood, RollbackToGood DEF CanCommit, RollbackHandle
<1>3. ASSUME NEW committed \in BOOLEAN PROVE GoodConn(Finish(c, h, committed))
  BY <1>1, <1>2 DEF Finish
<1>4. QED
  BY <1>1, <1>2, <1>3

\* Committing the innermost handle: an inner one stores nothing.
LEMMA CommitKeepsOthers ==
    ASSUME NEW c, GoodConn(c), NEW hs \in Seq(Handle), hs # << >>, Agree(c, hs), Nested(hs),
           NEW h, h = hs[Len(hs)]
    PROVE  /\ Agree(CommitHandle(c, h), Front(hs))
           /\ Len(hs) > 1 => CommitHandle(c, h).stored = c.stored
<1>1. /\ Front(hs) \in Seq(Handle) /\ Len(Front(hs)) = Len(hs) - 1 /\ Len(hs) \in Nat \ {0}
      /\ \A i \in 1 .. Len(hs) - 1 : Front(hs)[i] = hs[i]
      /\ Agree(c, Front(hs)) /\ h \in Handle /\ h.kind \in {"transaction", "savepoint"}
  BY FrontType, AgreeFront DEF Handle
<1>2. CASE Len(hs) = 1
  <2>1. Len(Front(hs)) = 0 /\ ~(Len(hs) > 1)
    BY <1>1, <1>2
  <2>2. QED
    BY <1>1, <2>1, NoHandles
<1>3. CASE Len(hs) # 1
  <2>1. h.kind = "savepoint" /\ Marked(c, h.name)
    BY <1>1, <1>3, TopFinds
  <2> DEFINE k == Position(c, h.name)
             d == CommitHandle(c, h)
  <2>2. d = Release(c, h.name) /\ k \in 1 .. Len(c.marks) /\ c \in Conn
    BY <2>1, PositionIsLast DEF CommitHandle, GoodConn
  <2>3. k # 1 \/ c.explicit
    <3>1. hs[1] \in Handle /\ Holds(c, hs[1])
      BY <1>1, <1>3 DEF Agree
    <3>2. CASE hs[1].kind = "transaction"
      BY <3>1, <3>2 DEF Holds
    <3>3. CASE hs[1].kind = "savepoint"
      <4>1. PICK p \in 1 .. Len(c.marks) : IsLastMark(c, hs[1].name, p)
        BY <3>1, <3>3 DEF Holds
      <4>2. 1 \in 1 .. Len(hs) - 1
        BY <1>1, <1>3
      <4>3. p < k
        BY <2>1, <3>3, <4>1, <4>2, TopFinds
      <4>4. QED
        BY <2>2, <4>1, <4>3, MarksType
    <3>4. QED
      BY <3>1, <3>2, <3>3 DEF Handle
  <2>4. /\ GoodConn(d) /\ d.stored = c.stored /\ d.explicit = c.explicit
        /\ d.marks = SubSeq(c.marks, 1, k - 1)
    BY <2>1, <2>2, <2>3, ReleaseGood
  <2>5. \A i \in 1 .. Len(Front(hs)), p \in 1 .. Len(c.marks) :
          Front(hs)[i].kind = "savepoint" /\ IsLastMark(c, Front(hs)[i].name, p) => p < k
    <3>1. \A i \in 1 .. Len(hs) - 1, p \in 1 .. Len(c.marks) :
            hs[i].kind = "savepoint" /\ IsLastMark(c, hs[i].name, p) => p < k
      BY <2>1, TopFinds
    <3>2. QED
      BY <1>1, <3>1
  <2>6. k - 1 \in 0 .. Len(c.marks) /\ d \in Conn
    BY <2>2, <2>4, MarksType DEF GoodConn
  <2> HIDE DEF d, k
  <2>7. \A i \in 1 .. Len(Front(hs)), p \in 1 .. Len(c.marks) :
          Front(hs)[i].kind = "savepoint" /\ IsLastMark(c, Front(hs)[i].name, p) => p <= k - 1
    BY <2>2, <2>5, MarksType
  <2>8. Agree(d, Front(hs))
    BY <1>1, <2>2, <2>4, <2>6, <2>7, AgreeCut
  <2>9. QED
    BY <2>4, <2>8 DEF d
<1>4. QED
  BY <1>2, <1>3

\* Rolling the innermost handle back undoes it and leaves the others; a savepoint
\* could be rolled back once more, or released.
LEMMA RollbackKeepsOthers ==
    ASSUME NEW c, GoodConn(c), NEW hs \in Seq(Handle), hs # << >>, Agree(c, hs), Nested(hs),
           NEW h, h = hs[Len(hs)],
           NEW d, d = RollbackHandle(c, h)
    PROVE  /\ GoodConn(d) /\ d.image = h.start /\ d.stored = c.stored
           /\ Agree(d, Front(hs))
           /\ h.kind = "savepoint" => Agree(d, hs)
           /\ h.kind = "transaction" => ~d.open
<1>1. /\ Front(hs) \in Seq(Handle) /\ Len(Front(hs)) = Len(hs) - 1 /\ Len(hs) \in Nat \ {0}
      /\ h \in Handle /\ h.kind \in {"transaction", "savepoint"} /\ CanCommit(c, h)
  BY FrontType, TopFinds DEF Handle
<1>2. CASE h.kind = "transaction"
  <2>1. d = Rollback(c)
    BY <1>1, <1>2 DEF RollbackHandle
  <2>2. Len(hs) = 1 /\ h.start = c.stored
    BY <1>2, TopFinds
  <2>3. GoodConn(d) /\ ~d.open /\ d.image = h.start /\ d.stored = c.stored
    BY <2>1, <2>2, EndGood
  <2>4. Len(Front(hs)) = 0
    BY <1>1, <2>2
  <2>5. Agree(d, Front(hs))
    BY <1>1, <2>4, NoHandles
  <2>6. QED
    BY <1>2, <2>3, <2>5
<1>3. CASE h.kind = "savepoint"
  <2> DEFINE k == Position(c, h.name)
  <2>1. Marked(c, h.name) /\ k \in 1 .. Len(c.marks) /\ c \in Conn /\ IsLastMark(c, h.name, k)
    BY <1>3, TopFinds, PositionIsLast DEF GoodConn
  <2>2. d = RollbackTo(c, h.name)
    BY <1>1, <1>3 DEF RollbackHandle
  <2>3. /\ GoodConn(d) /\ d.image = c.marks[k].image /\ d.stored = c.stored
        /\ d.explicit = c.explicit /\ d.marks = SubSeq(c.marks, 1, k)
    BY <2>1, <2>2, RollbackToGood
  <2>4. d.image = h.start
    BY <1>3, <2>3, TopFinds
  <2>5. ASSUME NEW i \in 1 .. Len(hs), NEW p \in 1 .. Len(c.marks),
               hs[i].kind = "savepoint", IsLastMark(c, hs[i].name, p)
        PROVE  p <= k
    <3>1. CASE i = Len(hs)
      <4>1. p = k
        BY <2>1, <2>5, <3>1, LastIsUnique
      <4>2. QED
        BY <2>1, <4>1, MarksType
    <3>2. CASE i # Len(hs)
      <4>1. i \in 1 .. Len(hs) - 1
        BY <1>1, <3>2
      <4>2. p < k
        BY <1>3, <2>5, <4>1, TopFinds
      <4>3. QED
        BY <2>1, <4>2, MarksType
    <3>3. QED
      BY <3>1, <3>2
  <2>6. k \in 0 .. Len(c.marks) /\ d \in Conn
    BY <2>1, <2>3, MarksType DEF GoodConn
  <2> HIDE DEF k
  <2>7. Agree(d, hs)
    BY <2>1, <2>3, <2>5, <2>6, AgreeCut
  <2>8. QED
    BY <1>3, <2>3, <2>4, <2>7, AgreeFront
<1>4. QED
  BY <1>1, <1>2, <1>3

\* Going out of scope, of a handle that has sent no statement.
LEMMA FinishKeepsOthers ==
    ASSUME NEW c, GoodConn(c), NEW hs \in Seq(Handle), hs # << >>, Agree(c, hs), Nested(hs),
           NEW h, h = hs[Len(hs)]
    PROVE  /\ Agree(Finish(c, h, FALSE), Front(hs))
           /\ Len(hs) > 1 => Finish(c, h, FALSE).stored = c.stored
           /\ Finish(c, h, FALSE).image = IF h.drop = "rollback" THEN h.start ELSE c.image
<1> DEFINE d == Finish(c, h, FALSE)
<1>0. c.open
  BY AgreeOpen
<1>1. CanCommit(c, h) /\ h \in Handle
  BY TopFinds
<1>2. h.kind \in {"transaction", "savepoint"}
  BY <1>1 DEF Handle
<1>3. CASE h.drop = "commit"
  <2>1. d = CommitHandle(c, h)
    BY <1>0, <1>1, <1>3 DEF Finish
  <2>2. h.kind = "savepoint" => Marked(c, h.name)
    BY <1>1 DEF CanCommit
  <2>3. d.image = c.image
    <3>1. CASE h.kind = "transaction"
      <4>1. d = Commit(c)
        BY <2>1, <3>1 DEF CommitHandle
      <4>2. QED
        BY <4>1, EndGood
    <3>2. CASE h.kind = "savepoint"
      <4>1. d = Release(c, h.name)
        BY <2>1, <3>2 DEF CommitHandle
      <4>2. Marked(c, h.name)
        BY <2>2, <3>2
      <4>3. Release(c, h.name).image = c.image
        BY <4>2, ReleaseGood
      <4>4. QED
        BY <4>1, <4>3
    <3>3. QED
      BY <1>2, <3>1, <3>2
  <2>4. Agree(CommitHandle(c, h), Front(hs))
    BY CommitKeepsOthers
  <2>5. Len(hs) > 1 => CommitHandle(c, h).stored = c.stored
    BY CommitKeepsOthers
  <2>6. QED
    BY <1>3, <2>1, <2>3, <2>4, <2>5
<1>4. CASE h.drop = "rollback"
  <2>1. d = RollbackHandle(c, h)
    BY <1>0, <1>1, <1>4 DEF Finish
  <2>2. RollbackHandle(c, h).image = h.start
    BY RollbackKeepsOthers
  <2>3. RollbackHandle(c, h).stored = c.stored
    BY RollbackKeepsOthers
  <2>4. Agree(RollbackHandle(c, h), Front(hs))
    BY RollbackKeepsOthers
  <2>5. QED
    BY <1>4, <2>1, <2>2, <2>3, <2>4
<1>5. CASE h.drop \notin {"commit", "rollback"}
  <2>1. d = c
    BY <1>5 DEF Finish
  <2>2. QED
    BY <1>5, <2>1, AgreeFront
<1>6. QED
  BY <1>3, <1>4, <1>5

-------------------------------------------------------------------------------
(***************************************************************************)
(* IInv is invariant                                                       *)
(***************************************************************************)
LEMMA StateFacts ==
    ASSUME IInv
    PROVE  /\ GoodConn(conn)
           /\ handles \in Seq(Handle) /\ Len(handles) <= MaxHandles
           /\ handles # << >> => Top \in Handle /\ Len(handles) \in Nat \ {0}
BY FrontType DEF IInv, TypeOK, GoodConn, Top

LEMMA InitIInv == Init => IInv
<1> SUFFICES ASSUME Init PROVE IInv
  OBVIOUS
<1>1. Len(<< >>) = 0 /\ << >> \in Seq(Mark) /\ << >> \in Seq(Handle)
  OBVIOUS
<1>2. TypeOK
  <2>1. conn \in Conn /\ conn.marks = << >> /\ ~conn.explicit
    BY <1>1 DEF Init, Conn
  <2>2. Len(conn.marks) <= MaxMarks /\ handles \in Seq(Handle) /\ Len(handles) <= MaxHandles
    BY <1>1, <2>1, BoundsAssumption DEF Init
  <2>3. QED
    BY <2>1, <2>2 DEF Init, TypeOK
<1>3. QED
  BY <1>1, <1>2, NoHandles DEF Init, IInv

\* What a step has to show.
LEMMA StepIInv ==
    ASSUME GoodConn(conn'), handles' \in Seq(Handle), Len(handles') <= MaxHandles,
           lost' \in BOOLEAN, panicked' \in BOOLEAN,
           result' \in {"none", "committed", "rolledback", "dropped", "error"},
           Nested(handles'),
           ~lost' => Agree(conn', handles')
    PROVE  IInv'
BY DEF GoodConn, IInv, TypeOK

\* Closing a handle whose statement left the connection `c`.
LEMMA CloseStep ==
    ASSUME IInv, NEW c, GoodConn(c), NEW committed \in BOOLEAN,
           NEW by \in {"none", "committed", "rolledback", "dropped", "error"},
           Close(c, committed, by),
           ~lost => Agree(Finish(c, Top, committed), Front(handles))
    PROVE  IInv'
<1>1. /\ handles # << >> /\ conn' = Finish(c, Top, committed) /\ handles' = Front(handles)
      /\ lost' = (lost /\ Len(handles) > 1) /\ panicked' = Panics(c, Top) /\ result' = by
  BY DEF Close
<1>2. /\ Top \in Handle /\ handles' \in Seq(Handle) /\ Len(handles') = Len(handles) - 1
      /\ Len(handles) \in Nat \ {0} /\ Len(handles) <= MaxHandles
  BY <1>1, StateFacts, FrontType
<1>3. Len(handles') <= MaxHandles
  BY <1>2, BoundsAssumption
<1>4. GoodConn(conn')
  BY <1>1, <1>2, StatementsGood
<1>5. lost' \in BOOLEAN /\ panicked' \in BOOLEAN
  BY <1>1 DEF Panics
<1>6. Nested(handles')
  BY <1>1, StateFacts, NestedFront DEF IInv
<1>7. ~lost' => Agree(conn', handles')
  <2>1. CASE ~lost
    BY <1>1, <2>1
  <2>2. CASE Len(handles) = 1
    <3>1. Front(handles) \in Seq(Handle) /\ Len(Front(handles)) = 0
      BY <1>1, <1>2, <2>2
    <3>2. Agree(Finish(c, Top, committed), Front(handles))
      BY <3>1, NoHandles
    <3>3. QED
      BY <1>1, <3>2
  <2>3. Len(handles) > 1 \/ Len(handles) = 1
    BY <1>2
  <2>4. QED
    BY <1>1, <2>1, <2>2, <2>3
<1>8. QED
  BY <1>1, <1>2, <1>3, <1>4, <1>5, <1>6, <1>7, StepIInv

\* As long as the stacks agree, the innermost handle is closed as these say.
LEMMA LiveFacts ==
    ASSUME IInv, ~lost, handles # << >>
    PROVE  /\ GoodConn(conn) /\ handles \in Seq(Handle) /\ Agree(conn, handles) /\ Nested(handles)
           /\ conn.open /\ CanCommit(conn, Top) /\ Top = handles[Len(handles)]
<1>1. /\ GoodConn(conn) /\ handles \in Seq(Handle) /\ Agree(conn, handles) /\ Nested(handles)
      /\ Top = handles[Len(handles)]
  BY StateFacts DEF IInv, Top
<1>2. conn.open
  BY <1>1, AgreeOpen
<1>3. CanCommit(conn, Top)
  BY <1>1, TopFinds
<1>4. QED
  BY <1>1, <1>2, <1>3

\* A handle that was committed has nothing to do when it is dropped.
LEMMA CommittedFinish ==
    ASSUME IInv, handles # << >>, CanCommit(conn, Top)
    PROVE  /\ GoodConn(CommitHandle(conn, Top))
           /\ Finish(CommitHandle(conn, Top), Top, Top.kind = "savepoint")
                = CommitHandle(conn, Top)
<1>1. GoodConn(conn) /\ Top \in Handle
  BY StateFacts
<1>2. GoodConn(CommitHandle(conn, Top))
  BY <1>1, StatementsGood
<1>3. Top.kind = "transaction" => ~CommitHandle(conn, Top).open
  BY <1>1, EndGood DEF CommitHandle
<1>4. Top.kind \in {"transaction", "savepoint"}
  BY <1>1 DEF Handle
<1>5. QED
  BY <1>2, <1>3, <1>4 DEF Finish

LEMMA CommitTopStep ==
    ASSUME IInv, CommitTop
    PROVE  IInv'
<1>1. handles # << >>
  BY DEF CommitTop
<1>2. CASE CanCommit(conn, Top)
  <2> DEFINE c == CommitHandle(conn, Top)
  <2>1. Close(c, Top.kind = "savepoint", "committed")
    BY <1>2 DEF CommitTop
  <2>2. GoodConn(c) /\ Finish(c, Top, Top.kind = "savepoint") = c
    BY <1>1, <1>2, CommittedFinish
  <2>3. ~lost => Agree(c, Front(handles))
    BY <1>1, LiveFacts, CommitKeepsOthers
  <2> HIDE DEF c
  <2>4. QED
    BY <2>1, <2>2, <2>3, CloseStep
<1>3. CASE ~CanCommit(conn, Top)
  BY <1>1, <1>3, StateFacts, LiveFacts, CloseStep DEF CommitTop
<1>4. QED
  BY <1>2, <1>3

\* A savepoint that was rolled back is rolled back again, or released, by its drop.
LEMMA RolledBackFinish ==
    ASSUME IInv, ~lost, handles # << >>
    PROVE  LET c == RollbackHandle(conn, Top)
               d == Finish(c, Top, FALSE)
           IN  Agree(d, Front(handles)) /\ d.image = Top.start
               /\ (Len(handles) > 1 => d.stored = conn.stored)
<1> DEFINE c == RollbackHandle(conn, Top)
           d == Finish(c, Top, FALSE)
<1>1. /\ GoodConn(conn) /\ handles \in Seq(Handle) /\ Agree(conn, handles) /\ Nested(handles)
      /\ Top = handles[Len(handles)] /\ Top \in Handle
  BY LiveFacts, StateFacts
<1>2. /\ GoodConn(c) /\ c.image = Top.start /\ c.stored = conn.stored
      /\ Agree(c, Front(handles))
      /\ Top.kind = "savepoint" => Agree(c, handles)
      /\ Top.kind = "transaction" => ~c.open
  BY <1>1, RollbackKeepsOthers
<1>3. CASE Top.kind = "transaction"
  <2>1. d = c
    BY <1>2, <1>3 DEF Finish
  <2>2. QED
    BY <1>2, <2>1
<1>4. CASE Top.kind = "savepoint"
  <2> HIDE DEF c
  <2>1. Agree(d, Front(handles))
    BY <1>1, <1>2, <1>4, FinishKeepsOthers
  <2>2. Len(handles) > 1 => d.stored = c.stored
    BY <1>1, <1>2, <1>4, FinishKeepsOthers
  <2>3. d.image = IF Top.drop = "rollback" THEN Top.start ELSE c.image
    BY <1>1, <1>2, <1>4, FinishKeepsOthers
  <2>4. QED
    BY <1>2, <2>1, <2>2, <2>3 DEF c
<1>5. Top.kind \in {"transaction", "savepoint"}
  BY <1>1 DEF Handle
<1>6. QED
  BY <1>3, <1>4, <1>5

LEMMA RollbackTopStep ==
    ASSUME IInv, RollbackTop
    PROVE  IInv'
<1> DEFINE c == RollbackHandle(conn, Top)
           by == IF CanCommit(conn, Top) THEN "rolledback" ELSE "error"
<1>1. handles # << >> /\ Close(c, FALSE, by)
  BY DEF RollbackTop
<1>2. GoodConn(c)
  BY <1>1, StateFacts, StatementsGood
<1>3. ~lost => Agree(Finish(c, Top, FALSE), Front(handles))
  BY <1>1, RolledBackFinish
<1>4. by \in {"none", "committed", "rolledback", "dropped", "error"}
  OBVIOUS
<1> HIDE DEF c, by
<1>5. QED
  BY <1>1, <1>2, <1>3, <1>4, CloseStep

LEMMA DropTopStep ==
    ASSUME IInv, DropTop
    PROVE  IInv'
<1>1. handles # << >> /\ Close(conn, FALSE, "dropped")
  BY DEF DropTop
<1>2. GoodConn(conn)
  BY StateFacts
<1>3. ~lost => Agree(Finish(conn, Top, FALSE), Front(handles))
  BY <1>1, LiveFacts, FinishKeepsOthers
<1>4. QED
  BY <1>1, <1>2, <1>3, CloseStep

\* A new handle: its mark hides no other handle's.
LEMMA PushType ==
    ASSUME NEW hs \in Seq(Handle), NEW h \in Handle
    PROVE  /\ Append(hs, h) \in Seq(Handle) /\ Len(Append(hs, h)) = Len(hs) + 1
           /\ Len(hs) \in Nat
           /\ \A i \in 1 .. Len(hs) : Append(hs, h)[i] = hs[i]
           /\ Append(hs, h)[Len(hs) + 1] = h
BY AppendProperties

LEMMA OpenTransactionStep ==
    ASSUME IInv, NEW b \in Behavior, OpenTransaction(b)
    PROVE  IInv'
<1> DEFINE h == [kind |-> "transaction", name |-> "BEGIN", drop |-> b, start |-> conn.image]
<1>1. /\ handles = << >> /\ ~conn.open /\ conn' = Begin(conn) /\ handles' = Append(handles, h)
      /\ result' = "none" /\ UNCHANGED <<lost, panicked>>
  BY DEF OpenTransaction, Push
<1>2. GoodConn(conn) /\ handles \in Seq(Handle)
  BY StateFacts
<1>3. /\ conn' \in Conn /\ conn'.explicit /\ conn'.open /\ conn'.stored = conn.stored
      /\ conn'.marks = conn.marks /\ conn.image \subseteq Write
  BY <1>1, <1>2 DEF GoodConn, Begin, Conn
<1>4. GoodConn(conn')
  BY <1>2, <1>3 DEF GoodConn
<1>5. h \in Handle /\ h.kind = "transaction" /\ h.start = conn.image
  BY <1>3 DEF Handle
<1> HIDE DEF h
<1>6. /\ handles' \in Seq(Handle) /\ Len(handles') = 1 /\ handles'[1] = h
      /\ Len(handles') <= MaxHandles
  BY <1>1, <1>2, <1>5, PushType, BoundsAssumption
<1>7. Nested(handles')
  BY <1>6 DEF Nested
<1>8. h.start = conn'.stored
  BY <1>1, <1>2, <1>3, <1>5 DEF GoodConn
<1>9. Holds(conn', h)
  BY <1>3, <1>5, <1>8 DEF Holds
<1>10. Agree(conn', handles')
  <2>1. \A i \in 1 .. Len(handles') : Holds(conn', handles'[i])
    BY <1>6, <1>9
  <2>2. \A i, j \in 1 .. Len(handles') : ~(i < j)
    BY <1>6
  <2>3. QED
    BY <2>1, <2>2 DEF Agree
<1>11. lost' \in BOOLEAN /\ panicked' \in BOOLEAN
  BY <1>1 DEF IInv, TypeOK
<1>12. QED
  BY <1>1, <1>4, <1>6, <1>7, <1>10, <1>11, StepIInv

\* A SAVEPOINT agrees with the handle it is made for, and with the others.
LEMMA SavepointAgrees ==
    ASSUME NEW c \in Conn, NEW d \in Conn, NEW hs \in Seq(Handle), NEW h \in Handle,
           h.kind = "savepoint", Agree(c, hs),
           NEW m \in Mark, m.name = h.name, m.image = h.start,
           d.marks = Append(c.marks, m), d.explicit = c.explicit, d.stored = c.stored,
           \A i \in 1 .. Len(hs) : hs[i].kind = "savepoint" => hs[i].name # h.name
    PROVE  Agree(d, Append(hs, h))
<1> DEFINE n == Len(c.marks) + 1
           all == Append(hs, h)
<1>1. /\ Len(d.marks) = n /\ n \in 1 .. Len(d.marks) /\ Len(c.marks) \in Nat
      /\ \A p \in 1 .. Len(c.marks) : d.marks[p] = c.marks[p]
      /\ IsLastMark(d, h.name, n) /\ d.marks[n] = m
      /\ \A x, p : IsLastMark(c, x, p) /\ x # h.name => IsLastMark(d, x, p)
  BY NewMarkIsLast, MarksType
<1>2. /\ Len(all) = Len(hs) + 1 /\ Len(hs) \in Nat /\ all[Len(hs) + 1] = h
      /\ \A i \in 1 .. Len(hs) : all[i] = hs[i]
  BY PushType
<1> HIDE DEF n, all
<1>3. Holds(d, h)
  BY <1>1 DEF Holds
<1>4. ASSUME NEW i \in 1 .. Len(hs), hs[i].kind = "savepoint"
      PROVE  \E p \in 1 .. Len(c.marks) :
               /\ IsLastMark(c, hs[i].name, p) /\ IsLastMark(d, hs[i].name, p)
               /\ d.marks[p].image = hs[i].start
               /\ \A q : IsLastMark(d, hs[i].name, q) => q = p
  <2>1. PICK p \in 1 .. Len(c.marks) :
          IsLastMark(c, hs[i].name, p) /\ c.marks[p].image = hs[i].start
    BY <1>4 DEF Agree, Holds
  <2>2. IsLastMark(d, hs[i].name, p) /\ d.marks[p].image = hs[i].start
    BY <1>1, <1>4, <2>1
  <2>3. QED
    BY <2>1, <2>2, LastIsUnique
<1>5. ASSUME NEW i \in 1 .. Len(hs) PROVE Holds(d, hs[i])
  <2>1. 1 .. Len(c.marks) \subseteq 1 .. Len(d.marks)
    BY <1>1 DEF n
  <2>2. QED
    BY <1>4, <2>1 DEF Agree, Holds
<1>6. ASSUME NEW i \in 1 .. Len(hs) PROVE Below(d, hs[i], h)
  <2> SUFFICES ASSUME hs[i].kind = "savepoint",
                      NEW p, NEW q, IsLastMark(d, hs[i].name, p), IsLastMark(d, h.name, q)
               PROVE  p < q
    BY DEF Below
  <2>1. p \in 1 .. Len(c.marks)
    BY <1>4
  <2>2. q = n
    BY <1>1, LastIsUnique
  <2>3. QED
    BY <1>1, <2>1, <2>2 DEF n
<1>7. ASSUME NEW i \in 1 .. Len(hs), NEW j \in 1 .. Len(hs), i < j
      PROVE  Below(d, hs[i], hs[j])
  <2> SUFFICES ASSUME hs[i].kind = "savepoint", hs[j].kind = "savepoint",
                      NEW p, NEW q, IsLastMark(d, hs[i].name, p), IsLastMark(d, hs[j].name, q)
               PROVE  p < q
    BY DEF Below
  <2>1. /\ p \in 1 .. Len(c.marks) /\ q \in 1 .. Len(c.marks)
        /\ IsLastMark(c, hs[i].name, p) /\ IsLastMark(c, hs[j].name, q)
    BY <1>4
  <2>2. Below(c, hs[i], hs[j])
    BY <1>7 DEF Agree
  <2>3. QED
    BY <2>1, <2>2 DEF Below
<1>8. \A i \in 1 .. Len(all) : Holds(d, all[i])
  BY <1>2, <1>3, <1>5
<1>9. ASSUME NEW i \in 1 .. Len(all), NEW j \in 1 .. Len(all), i < j
      PROVE  Below(d, all[i], all[j])
  <2>1. i \in 1 .. Len(hs) /\ (j \in 1 .. Len(hs) \/ j = Len(hs) + 1)
    BY <1>2, <1>9
  <2>2. QED
    BY <1>2, <1>6, <1>7, <1>9, <2>1
<1>10. QED
  BY <1>8, <1>9 DEF Agree, all

LEMMA OpenSavepointStep ==
    ASSUME IInv, NEW n \in Name, NEW b \in Behavior, OpenSavepoint(n, b)
    PROVE  IInv'
<1> DEFINE h == [kind |-> "savepoint", name |-> n, drop |-> b, start |-> conn.image]
           m == [name |-> n, image |-> conn.image]
<1>1. /\ conn' = Savepoint(conn, n) /\ handles' = Append(handles, h)
      /\ Len(handles) < MaxHandles /\ Len(conn.marks) < MaxMarks
      /\ result' = "none" /\ UNCHANGED <<lost, panicked>>
  BY DEF OpenSavepoint, Push
<1>2. GoodConn(conn) /\ handles \in Seq(Handle) /\ conn \in Conn /\ Len(handles) \in Nat
  BY StateFacts DEF GoodConn
<1>3. \A i \in 1 .. Len(handles) : handles[i].kind = "savepoint" => handles[i].name # n
  BY <1>2 DEF OpenSavepoint
<1>4. h \in Handle /\ m \in Mark /\ h.kind = "savepoint" /\ m.name = h.name /\ m.image = h.start
      /\ h.name = n
  BY <1>2 DEF Conn, Handle, Mark
<1>5. conn' = [conn EXCEPT !.open = TRUE, !.marks = Append(conn.marks, m)]
  BY <1>1 DEF Savepoint
<1> HIDE DEF h, m
<1>6. /\ Append(conn.marks, m) \in Seq(Mark) /\ Append(conn.marks, m) # << >>
      /\ Len(Append(conn.marks, m)) <= MaxMarks
  BY <1>1, <1>2, <1>4, MarksType, AppendProperties, BoundsAssumption
<1>7. /\ conn' \in Conn /\ conn'.marks = Append(conn.marks, m) /\ conn'.open
      /\ conn'.explicit = conn.explicit /\ conn'.stored = conn.stored
  BY <1>2, <1>5, <1>6 DEF Conn
<1>8. GoodConn(conn')
  BY <1>6, <1>7 DEF GoodConn
<1>9. /\ handles' \in Seq(Handle) /\ Len(handles') = Len(handles) + 1
      /\ handles'[Len(handles) + 1] = h
      /\ \A i \in 1 .. Len(handles) : handles'[i] = handles[i]
  BY <1>1, <1>2, <1>4, PushType
<1>10. Len(handles') <= MaxHandles
  BY <1>1, <1>2, <1>9, BoundsAssumption
<1>11. Nested(handles')
  <2>1. Nested(handles)
    BY DEF IInv
  <2>2. \A i \in 1 .. Len(handles') : i \in 1 .. Len(handles) \/ i = Len(handles) + 1
    BY <1>2, <1>9
  <2>3. \A i \in 1 .. Len(handles') : handles'[i].kind = "transaction" => i = 1
    BY <1>4, <1>9, <2>1, <2>2 DEF Nested
  <2>4. ASSUME NEW i \in 1 .. Len(handles'), NEW j \in 1 .. Len(handles'), i < j,
               handles'[i].kind = "savepoint", handles'[j].kind = "savepoint"
        PROVE  handles'[i].name # handles'[j].name
    <3>1. i \in 1 .. Len(handles)
      BY <1>2, <1>9, <2>4
    <3>2. QED
      BY <1>3, <1>4, <1>9, <2>1, <2>2, <2>4, <3>1 DEF Nested
  <2>5. QED
    BY <2>3, <2>4 DEF Nested
<1>12. ~lost => Agree(conn', handles')
  BY <1>1, <1>2, <1>3, <1>4, <1>7, SavepointAgrees DEF IInv
<1>13. lost' \in BOOLEAN /\ panicked' \in BOOLEAN
  BY <1>1 DEF IInv, TypeOK
<1>14. ~lost' => Agree(conn', handles')
  BY <1>1, <1>12
<1>15. QED
  BY <1>1, <1>8, <1>9, <1>10, <1>11, <1>13, <1>14, StepIInv

LEMMA InsertStep ==
    ASSUME IInv, NEW w \in Write, Insert(w)
    PROVE  IInv'
<1>1. /\ conn' = [conn EXCEPT !.image = conn.image \cup {w},
                    !.stored = IF conn.open THEN conn.stored ELSE conn.stored \cup {w}]
      /\ result' = "none" /\ UNCHANGED <<handles, lost, panicked>>
  BY DEF Insert
<1>2. GoodConn(conn) /\ handles \in Seq(Handle)
  BY StateFacts
<1>3. /\ conn' \in Conn /\ conn'.marks = conn.marks /\ conn'.explicit = conn.explicit
      /\ conn'.open = conn.open /\ conn'.image = conn.image \cup {w}
      /\ conn'.stored = IF conn.open THEN conn.stored ELSE conn.stored \cup {w}
  BY <1>1, <1>2 DEF GoodConn, Conn
<1>4. GoodConn(conn')
  BY <1>2, <1>3 DEF GoodConn
<1>5. ~lost => Agree(conn', handles)
  <2>1. CASE handles = << >>
    BY <1>2, <2>1, NoHandles
  <2>2. CASE handles # << >> /\ ~lost
    <3>1. Agree(conn, handles) /\ conn'.stored = conn.stored
      BY <1>3, <2>2, LiveFacts
    <3>2. QED
      BY <1>3, <3>1, AgreeSame
  <2>3. QED
    BY <2>1, <2>2
<1>6. QED
  BY <1>1, <1>4, <1>5, StepIInv DEF IInv, TypeOK

\* SQLite, a disconnection or a panic ends the transaction.
LEMMA EndStep ==
    ASSUME IInv, InsertConflicts \/ Disconnect \/ Unwind
    PROVE  IInv'
<1>1. GoodConn(conn') /\ handles \in Seq(Handle)
  BY StateFacts, EndGood DEF InsertConflicts, Disconnect, Unwind
<1>2. << >> \in Seq(Handle) /\ Len(<< >>) = 0 /\ 0 <= MaxHandles
  BY BoundsAssumption
<1>3. handles' \in Seq(Handle) /\ Len(handles') <= MaxHandles
  BY <1>1, <1>2, StateFacts DEF InsertConflicts, Disconnect, Unwind
<1>4. Agree(conn', << >>) /\ Nested(<< >>)
  BY <1>2, NoHandles
<1>5. Nested(handles') /\ (~lost' => Agree(conn', handles'))
  <2>1. CASE InsertConflicts
    BY <1>4, <2>1 DEF InsertConflicts, IInv
  <2>2. CASE Disconnect \/ Unwind
    BY <1>4, <2>2 DEF Disconnect, Unwind
  <2>3. QED
    BY <2>1, <2>2
<1>6. /\ lost' \in BOOLEAN /\ panicked' \in BOOLEAN
      /\ result' \in {"none", "committed", "rolledback", "dropped", "error"}
  BY DEF InsertConflicts, Disconnect, Unwind, IInv, TypeOK
<1>7. QED
  BY <1>1, <1>3, <1>5, <1>6, StepIInv

LEMMA NextIInv ==
    ASSUME IInv, [Next]_vars
    PROVE  IInv'
<1>1. CASE OpenTransactionFails
  BY <1>1 DEF OpenTransactionFails, IInv, TypeOK
<1>2. CASE UNCHANGED vars
  BY <1>2 DEF vars, IInv, TypeOK, Top
<1>3. QED
  BY <1>1, <1>2, OpenTransactionStep, OpenSavepointStep, InsertStep, EndStep, CommitTopStep,
     RollbackTopStep, DropTopStep DEF Next

LEMMA Invariance == Spec => []IInv
BY InitIInv, NextIInv, PTL DEF Spec

-------------------------------------------------------------------------------
(***************************************************************************)
(* The theorems                                                            *)
(***************************************************************************)

\* Types; the bounds on the two stacks hold; marks exist only in a transaction
\* (TypeOK).
THEOREM TypeCorrect == Spec => []TypeOK
<1>1. IInv => TypeOK
  BY DEF IInv
<1>2. QED
  BY <1>1, Invariance, PTL

\* Closing an inner handle, in any way, stores nothing: what other connections
\* see changes only when the outermost handle closes, or when SQLite has ended
\* the transaction under the handles (InnerCommitStoresNothing).
THEOREM InnerCommitsStoreNothing == Spec => InnerCommitStoresNothing
<1>1. ASSUME IInv, [Next]_vars, conn'.stored # conn.stored, ~lost
      PROVE  handles' = << >>
  <2>1. ASSUME handles # << >>, Len(handles) = 1, handles' = Front(handles)
        PROVE  handles' = << >>
    <3>1. handles' \in Seq(Handle) /\ Len(handles') = 0
      BY <1>1, <2>1, StateFacts, FrontType
    <3>2. QED
      BY <3>1, EmptySeq
  <2>2. ASSUME handles # << >>, Len(handles) > 1 => conn'.stored = conn.stored,
               handles' = Front(handles)
        PROVE  handles' = << >>
    <3>1. Len(handles) \in Nat \ {0} /\ ~(Len(handles) > 1)
      BY <1>1, <2>2, StateFacts
    <3>2. Len(handles) = 1
      BY <3>1
    <3>3. QED
      BY <2>1, <2>2, <3>2
  <2>3. CASE CommitTop
    <3>1. handles # << >> /\ CanCommit(conn, Top)
      BY <1>1, <2>3, LiveFacts DEF CommitTop
    <3>2. conn' = CommitHandle(conn, Top) /\ handles' = Front(handles)
      BY <1>1, <2>3, <3>1, CommittedFinish DEF CommitTop, Close
    <3>3. Len(handles) > 1 => CommitHandle(conn, Top).stored = conn.stored
      BY <1>1, <3>1, LiveFacts, CommitKeepsOthers
    <3>4. QED
      BY <2>2, <3>1, <3>2, <3>3
  <2>4. CASE RollbackTop
    <3>1. /\ handles # << >> /\ handles' = Front(handles)
          /\ conn' = Finish(RollbackHandle(conn, Top), Top, FALSE)
      BY <2>4 DEF RollbackTop, Close
    <3>2. QED
      BY <1>1, <2>2, <3>1, RolledBackFinish
  <2>5. CASE DropTop
    <3>1. /\ handles # << >> /\ handles' = Front(handles)
          /\ conn' = Finish(conn, Top, FALSE)
      BY <2>5 DEF DropTop, Close
    <3>2. Len(handles) > 1 => Finish(conn, Top, FALSE).stored = conn.stored
      BY <1>1, <3>1, LiveFacts, FinishKeepsOthers
    <3>3. QED
      BY <2>2, <3>1, <3>2
  <2>6. ASSUME NEW w \in Write, Insert(w)
        PROVE  handles' = << >>
    <3>1. ~conn.open
      BY <1>1, <2>6, StateFacts DEF Insert, GoodConn, Conn
    <3>2. QED
      BY <1>1, <2>6, <3>1, LiveFacts DEF Insert
  <2>7. CASE UNCHANGED vars \/ OpenTransactionFails
    BY <1>1, <2>7 DEF vars, OpenTransactionFails
  <2>8. CASE InsertConflicts \/ Disconnect \/ Unwind
    BY <1>1, <2>8, StateFacts, EndGood DEF InsertConflicts, Disconnect, Unwind
  <2>9. ASSUME NEW b \in Behavior, OpenTransaction(b) \/ \E n \in Name : OpenSavepoint(n, b)
        PROVE  FALSE
    BY <1>1, <2>9, StateFacts DEF OpenTransaction, OpenSavepoint, Begin, Savepoint, GoodConn, Conn
  <2>10. QED
    BY <1>1, <2>3, <2>4, <2>5, <2>6, <2>7, <2>8, <2>9 DEF Next
<1>2. IInv /\ [Next]_vars =>
        [conn.stored' # conn.stored => handles' = << >> \/ lost]_vars
  BY <1>1
<1>3. QED
  BY <1>2, Invariance, PTL DEF Spec, InnerCommitStoresNothing

\* Rolling a handle back, or dropping it when it is to roll back, leaves the image
\* it was opened with, whatever was done and whatever marks were left since
\* (RollbackUndoesTheHandle).
THEOREM RollbackUndoes == Spec => RollbackUndoesTheHandle
<1>1. ASSUME IInv, [Next]_vars, Len(handles') < Len(handles), ~lost,
             result' = "rolledback" \/ (result' = "dropped" /\ Top.drop = "rollback")
      PROVE  conn'.image = Top.start
  <2>1. RollbackTop \/ DropTop
    <3>1. Len(handles) \in Nat
      BY <1>1, StateFacts
    <3>2. handles' # handles
      BY <1>1, <3>1
    <3>3. ASSUME NEW b \in Behavior, OpenTransaction(b) \/ \E n \in Name : OpenSavepoint(n, b)
          PROVE  FALSE
      BY <1>1, <3>3 DEF OpenTransaction, OpenSavepoint, Push
    <3>4. ~CommitTop
      BY <1>1 DEF CommitTop, Close
    <3>5. QED
      BY <1>1, <3>2, <3>3, <3>4
         DEF Next, vars, OpenTransactionFails, Insert, InsertConflicts, Disconnect, Unwind
  <2>2. CASE RollbackTop
    <3>1. handles # << >> /\ conn' = Finish(RollbackHandle(conn, Top), Top, FALSE)
      BY <2>2 DEF RollbackTop, Close
    <3>2. QED
      BY <1>1, <3>1, RolledBackFinish
  <2>3. CASE DropTop
    <3>1. handles # << >> /\ conn' = Finish(conn, Top, FALSE) /\ Top.drop = "rollback"
      BY <1>1, <2>3 DEF DropTop, Close
    <3>2. Finish(conn, Top, FALSE).image =
            IF Top.drop = "rollback" THEN Top.start ELSE conn.image
      BY <1>1, <3>1, LiveFacts, FinishKeepsOthers
    <3>3. QED
      BY <3>1, <3>2
  <2>4. QED
    BY <2>1, <2>2, <2>3
<1>2. IInv /\ [Next]_vars =>
        [ /\ Len(handles') < Len(handles) /\ ~lost
          /\ result' = "rolledback" \/ (result' = "dropped" /\ Top.drop = "rollback")
          => conn.image' = Top.start ]_vars
  BY <1>1
<1>3. QED
  BY <1>2, Invariance, PTL DEF Spec, RollbackUndoesTheHandle

\* Transaction::commit stores the whole image and ends the transaction, even when
\* SQLite ended the handle's own transaction and another is open in its place
\* (CommittedTransactionIsStored).
THEOREM TransactionCommitStores == Spec => CommittedTransactionIsStored
<1>1. ASSUME IInv, [Next]_vars, result' = "committed", Len(handles') < Len(handles),
             Top.kind = "transaction"
      PROVE  conn'.stored = conn'.image /\ ~conn'.open
  <2>1. Len(handles) \in Nat /\ handles' # handles
    BY <1>1, StateFacts
  <2>2. CommitTop
    BY <1>1, <2>1
       DEF Next, vars, OpenTransaction, OpenSavepoint, Push, OpenTransactionFails, Insert,
           InsertConflicts, RollbackTop, DropTop, Close, Disconnect, Unwind
  <2>3. handles # << >> /\ CanCommit(conn, Top)
    BY <1>1, <2>2 DEF CommitTop, Close
  <2>4. conn' = CommitHandle(conn, Top)
    BY <1>1, <2>2, <2>3, CommittedFinish DEF CommitTop, Close
  <2>5. conn' = Commit(conn) /\ GoodConn(conn)
    BY <1>1, <2>4, StateFacts DEF CommitHandle
  <2>6. QED
    BY <2>5, EndGood
<1>2. IInv /\ [Next]_vars =>
        [ result' = "committed" /\ Len(handles') < Len(handles) /\ Top.kind = "transaction" =>
            conn.stored' = conn.image' /\ ~conn.open' ]_vars
  BY <1>1
<1>3. QED
  BY <1>2, Invariance, PTL DEF Spec, CommittedTransactionIsStored
=============================================================================
