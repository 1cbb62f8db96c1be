----------------------------- MODULE MCMailPipeline -----------------------------
EXTENDS MailPipeline, TLC

CONSTANTS m1, m2

\* m1 is cross-posted to both lists, m2 is for one list.
ToBoth == [m \in Mail |-> IF m = m1 THEN List ELSE {1}]

\* m2 names no list.
ToNone == [m \in Mail |-> IF m = m1 THEN List ELSE {}]

Recipients == Permutations(Address)
=============================================================================
