------------------------------ MODULE MCMailbox ------------------------------
(* Small instances of Mailbox: two users, the table t1 of both, one or two     *)
(* sessions and io threads.                                                    *)
EXTENDS Mailbox, TLC

CONSTANTS s1, s2, u1, u2, w1, w2, t1

MCMembers == [t \in {t1} |-> {u1, u2}]

\* The io threads do the same and so do the sessions.
MCSymmetry == Permutations(Sessions) \cup Permutations(Workers)
=============================================================================
