------------------------------ MODULE Transactions ------------------------------
(***************************************************************************)
(* The transaction and savepoint handles of mailpot::Connection, over one  *)
(* SQLite connection.  A handle is a Rust value: it is closed by commit,   *)
(* by rollback or by going out of scope, and each of these ends by running *)
(* its Drop implementation.  Handles are local variables of nested calls,  *)
(* so they are closed in the reverse order of their opening.               *)
(*                                                                         *)
(* SQLite keeps a stack of its own, of savepoint marks; this module shows  *)
(* how far the two stacks agree.  A table is the set of writes made to it. *)
(***************************************************************************)
EXTENDS Naturals, Sequences, SequencesExt

CONSTANTS
    Name,       \* savepoint names: of the call site, or numbered
    Write,      \* the writes considered, each made once
    Behavior,   \* the drop behaviours in use
    MaxHandles, \* bound on nested handles
    MaxMarks    \* bound on SQLite's stack

ASSUME BehaviorAssumption == Behavior \subseteq {"rollback", "commit", "ignore", "panic"}
ASSUME BoundsAssumption == MaxHandles \in Nat \ {0} /\ MaxMarks \in Nat

VARIABLES
    conn,       \* the SQLite connection
    handles,    \* the live handles, outermost first
    lost,       \* history: SQLite ended the transaction under a live handle
    panicked,   \* the drop of a handle has panicked
    result      \* what closing a handle has just returned

vars == <<conn, handles, lost, panicked, result>>

Mark   == [name : Name, image : SUBSET Write]
\* `explicit`: the transaction was begun by BEGIN, not by a first SAVEPOINT.
Conn   == [open : BOOLEAN, explicit : BOOLEAN, marks : Seq(Mark),
           image : SUBSET Write, stored : SUBSET Write]
Handle == [kind : {"transaction", "savepoint"}, name : Name \cup {"BEGIN"}, drop : Behavior,
           start : SUBSET Write]

Init ==
    /\ conn = [open |-> FALSE, explicit |-> FALSE, marks |-> << >>, image |-> {}, stored |-> {}]
    /\ handles = << >>
    /\ lost = FALSE /\ panicked = FALSE
    /\ result = "none"

-------------------------------------------------------------------------------
(***************************************************************************)
(* SQL.  An error leaves the connection as it is, so a statement is its    *)
(* precondition and the connection it leaves.                              *)
(***************************************************************************)
\* Mutant: the marks survive the rollback of the transaction.
Rollback_KeepsMarks(c) == [c EXCEPT !.open = FALSE, !.explicit = FALSE, !.image = c.stored]

Commit(c)   == [c EXCEPT !.open = FALSE, !.explicit = FALSE, !.marks = << >>, !.stored = c.image]
Rollback(c) == [c EXCEPT !.open = FALSE, !.explicit = FALSE, !.marks = << >>, !.image = c.stored]
Begin(c)    == [c EXCEPT !.open = TRUE, !.explicit = TRUE]

Savepoint(c, n) ==
    [c EXCEPT !.open = TRUE, !.marks = Append(@, [name |-> n, image |-> c.image])]

Marked(c, n) == \E i \in DOMAIN c.marks : c.marks[i].name = n

\* The most recent mark of that name.
Position(c, n) == SelectLastInSeq(c.marks, LAMBDA m : m.name = n)

\* RELEASE of the outermost mark ends a transaction that no BEGIN began.
Release(c, n) ==
    LET left == SubSeq(c.marks, 1, Position(c, n) - 1)
    IN  IF left = << >> /\ ~c.explicit THEN Commit(c) ELSE [c EXCEPT !.marks = left]

\* ROLLBACK TO keeps the mark it returns to.
RollbackTo(c, n) ==
    [c EXCEPT !.marks = SubSeq(@, 1, Position(c, n)), !.image = c.marks[Position(c, n)].image]

-------------------------------------------------------------------------------
(***************************************************************************)
(* Opening handles and writing through the innermost one.                  *)
(***************************************************************************)
Top == handles[Len(handles)]

Push(kind, n, b) ==
    /\ handles' = Append(handles, [kind |-> kind, name |-> n, drop |-> b, start |-> conn.image])
    /\ result' = "none"
    /\ UNCHANGED <<lost, panicked>>

\* transaction() borrows the connection mutably: no other handle is live.
OpenTransaction(b) ==
    /\ ~panicked
    /\ handles = << >>
    /\ ~conn.open
    /\ conn' = Begin(conn)
    /\ Push("transaction", "BEGIN", b)

\* SQLite refuses BEGIN when a transaction is open: no handle is returned.
OpenTransactionFails ==
    /\ ~panicked
    /\ handles = << >>
    /\ conn.open
    /\ result' = "error"
    /\ UNCHANGED <<conn, handles, lost, panicked>>

\* No function that names its savepoint calls itself.
OpenSavepoint(n, b) ==
    /\ ~panicked
    /\ Len(handles) < MaxHandles
    /\ Len(conn.marks) < MaxMarks
    /\ \A i \in DOMAIN handles : handles[i].kind = "savepoint" => handles[i].name # n
    /\ conn' = Savepoint(conn, n)
    /\ Push("savepoint", n, b)

Insert(w) ==
    /\ ~panicked
    /\ w \notin conn.image
    /\ conn' = [conn EXCEPT !.image = @ \cup {w},
                            !.stored = IF conn.open THEN @ ELSE @ \cup {w}]
    /\ result' = "none"
    /\ UNCHANGED <<handles, lost, panicked>>

\* A UNIQUE ... ON CONFLICT ROLLBACK constraint is violated.
InsertConflicts ==
    /\ ~panicked
    /\ conn.open
    /\ conn' = Rollback(conn)
    /\ lost' = (handles # << >>)
    /\ result' = "error"
    /\ UNCHANGED <<handles, panicked>>

-------------------------------------------------------------------------------
(***************************************************************************)
(* Closing the innermost handle `h`.                                       *)
(***************************************************************************)

\* What commit_ and rollback_ can do, and the connection they leave.
CanCommit(c, h) == IF h.kind = "transaction" THEN c.open ELSE Marked(c, h.name)

\* Mutant: a savepoint is committed like a transaction.
CommitHandle_Commit(c, h) == Commit(c)

\* Mutant: commit of a transaction sends no COMMIT.
CommitHandle_Nothing(c, h) == IF h.kind = "transaction" THEN c ELSE Release(c, h.name)

CommitHandle(c, h) == IF h.kind = "transaction" THEN Commit(c) ELSE Release(c, h.name)

\* Mutant: a savepoint is rolled back like a transaction.
RollbackHandle_All(c, h) == IF CanCommit(c, h) THEN Rollback(c) ELSE c

RollbackHandle(c, h) ==
    IF ~CanCommit(c, h) THEN c
    ELSE IF h.kind = "transaction" THEN Rollback(c) ELSE RollbackTo(c, h.name)

\* finish_: nothing in autocommit mode; `committed` is set by a savepoint's
\* commit_ and keeps it from doing more.
Finish(c, h, committed) ==
    IF ~c.open THEN c
    ELSE CASE h.drop = "commit"   -> IF committed THEN c
                                     ELSE IF CanCommit(c, h) THEN CommitHandle(c, h)
                                     ELSE RollbackHandle(c, h)
           [] h.drop = "rollback" -> IF committed THEN c ELSE RollbackHandle(c, h)
           [] OTHER               -> c

Panics(c, h) == c.open /\ h.drop = "panic"

\* The statement `by` ran, leaving the connection `c`; then comes the drop.
Close(c, committed, by) ==
    /\ handles # << >> /\ ~panicked
    /\ conn' = Finish(c, Top, committed)
    /\ handles' = Front(handles)
    /\ panicked' = Panics(c, Top)
    /\ lost' = (lost /\ Len(handles) > 1)
    /\ result' = by

CommitTop ==
    /\ handles # << >>
    /\ IF CanCommit(conn, Top)
       THEN Close(CommitHandle(conn, Top), Top.kind = "savepoint", "committed")
       ELSE Close(conn, FALSE, "error")

RollbackTop ==
    /\ handles # << >>
    /\ Close(RollbackHandle(conn, Top), FALSE,
             IF CanCommit(conn, Top) THEN "rolledback" ELSE "error")

\* Going out of scope, and finish(): running finish_ twice is running it once.
DropTop == handles # << >> /\ Close(conn, FALSE, "dropped")

\* The Connection goes out of scope: SQLite discards what is not committed.
Disconnect ==
    /\ handles = << >> /\ ~panicked
    /\ conn' = Rollback(conn)
    /\ result' = "none"
    /\ UNCHANGED <<handles, lost, panicked>>

\* A panic takes the process, or the request's task, with its connection.
Unwind ==
    /\ panicked
    /\ conn' = Rollback(conn)
    /\ handles' = << >> /\ lost' = FALSE /\ panicked' = FALSE
    /\ result' = "none"

Next ==
    \/ \E b \in Behavior : OpenTransaction(b) \/ \E n \in Name : OpenSavepoint(n, b)
    \/ OpenTransactionFails
    \/ \E w \in Write : Insert(w)
    \/ InsertConflicts
    \/ CommitTop \/ RollbackTop \/ DropTop
    \/ Disconnect \/ Unwind

Spec == Init /\ [][Next]_vars

-------------------------------------------------------------------------------
(***************************************************************************)
(* Properties                                                              *)
(***************************************************************************)
TypeOK ==
    /\ conn \in Conn
    /\ Len(conn.marks) <= MaxMarks
    /\ conn.marks # << >> \/ conn.explicit => conn.open
    /\ handles \in Seq(Handle) /\ Len(handles) <= MaxHandles
    /\ lost \in BOOLEAN /\ panicked \in BOOLEAN
    /\ result \in {"none", "committed", "rolledback", "dropped", "error"}

\* Other connections see nothing of a transaction before its outermost handle
\* is closed: committing an inner handle stores nothing.  Only when SQLite has
\* ended the transaction itself do the writes that follow count at once.
InnerCommitStoresNothing ==
    [][ conn.stored' # conn.stored => handles' = << >> \/ lost ]_vars

\* Rolling a handle back, or dropping it when it is to roll back, undoes all that
\* was written since it was opened and nothing else, whatever marks of the same
\* name earlier handles have left behind.
RollbackUndoesTheHandle ==
    [][ /\ Len(handles') < Len(handles) /\ ~lost
        /\ result' = "rolledback" \/ (result' = "dropped" /\ Top.drop = "rollback")
        => conn.image' = Top.start ]_vars

\* Transaction::commit stores everything, including what was written through
\* savepoints that were closed inside it.
CommittedTransactionIsStored ==
    [][ result' = "committed" /\ Len(handles') < Len(handles) /\ Top.kind = "transaction" =>
          conn.stored' = conn.image' /\ ~conn.open' ]_vars

\* connection.rs: Savepoint::commit is "Commit and consume savepoint."  When it
\* returns and no handle is left, the writes made through it are stored.
CommittedSavepointIsStored ==
    [][ result' = "committed" /\ handles' = << >> /\ Len(handles) = 1 =>
          conn.stored' = conn.image' ]_vars
=============================================================================
