---------------------------- MODULE ReviewBoard ----------------------------
(***************************************************************************)
(* What Service.Retry promises about the items that wait for review: an    *)
(* item is reviewed at most Limit times, each review counts, one that      *)
(* accepts the item finds the accepted reading stored, and a stored        *)
(* reading, once accepted, is never taken back.                            *)
(***************************************************************************)
EXTENDS Naturals

CONSTANTS Items, Limit

VARIABLES
  board,   \* item -> its status and the number of its reviews
  stored   \* item -> the status of the reading stored for it

boardVars == <<board, stored>>

Init ==
  /\ board = [i \in Items |-> [status |-> "pending", attempts |-> 0]]
  /\ stored = [i \in Items |-> "pending"]

\* An accepted reading replaces the one stored.
Replace(i) ==
  /\ stored' = [stored EXCEPT ![i] = "accepted"]
  /\ UNCHANGED board

Review(i, status) ==
  /\ board[i].attempts < Limit
  /\ status = "accepted" => stored[i] = "accepted"
  /\ board' = [board EXCEPT ![i] = [status   |-> status,
                                   attempts |-> @.attempts + 1]]
  /\ UNCHANGED stored

Next ==
  \E i \in Items :
    Replace(i) \/ \E status \in {"accepted", "pending"} : Review(i, status)

Spec == Init /\ [][Next]_boardVars
=============================================================================
