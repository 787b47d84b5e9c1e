------------------------------- MODULE MCStore -------------------------------
(* A small database: two tables, the user u1 in both and u2 in one of them, a  *)
(* message in each, and an invite and a connection request for u1.             *)
EXTENDS Store, TLC

CONSTANTS u1, u2, hello

MCOld ==
  [user              |-> <<>>,
   chatTable         |-> <<[host |-> u1, participations |-> 1],
                           [host |-> u2, participations |-> 2]>>,
   ms                |-> [k \in 1 .. 2 |-> [tableKey |-> k, sender |-> 0, message |-> hello,
                                            time |-> Default, chk |-> 0]],
   part              |-> <<[tableKey |-> 2, user |-> u1, idx |-> 0],
                           [tableKey |-> 1, user |-> u1, idx |-> 0],
                           [tableKey |-> 2, user |-> u2, idx |-> 1]>>,
   userPair          |-> <<[user0 |-> u1, user1 |-> u2]>>,
   checkList         |-> <<[user |-> u2, messageArr |-> 1, tableIvt |-> 2, connectionReq |-> 3]>>,
   invite            |-> <<[target |-> u1, tableKey |-> 2, sender |-> u2, time |-> Default]>>,
   connectionRequest |-> <<[sender |-> u2, receiver |-> u1, time |-> Default]>>]

WorkerSymmetry == Permutations(Workers)
==============================================================================
