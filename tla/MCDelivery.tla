----------------------------- MODULE MCDelivery ------------------------------
(* Two tables, the user u1 in both and u2 in the second, and no message yet.   *)
EXTENDS Delivery, TLC

CONSTANTS u1, u2

MCOld ==
  [user              |-> <<>>,
   chatTable         |-> [k \in 1 .. 2 |-> [host |-> u1, participations |-> k]],
   ms                |-> <<>>,
   part              |-> <<[tableKey |-> 1, user |-> u1, idx |-> 0],
                           [tableKey |-> 2, user |-> u1, idx |-> 0],
                           [tableKey |-> 2, user |-> u2, idx |-> 1]>>,
   userPair          |-> <<>>,
   checkList         |-> <<>>,
   invite            |-> <<>>,
   connectionRequest |-> <<>>]

MCSymmetry == Permutations(Sessions) \cup Permutations(Workers)
==============================================================================
