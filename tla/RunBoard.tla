------------------------------ MODULE RunBoard ------------------------------
(***************************************************************************)
(* What the content board promises to its readers, with no request, broker *)
(* or worker in sight: a run appears RUNNING at version 0 and never goes   *)
(* away; each step changes at most one run and raises its version by one;  *)
(* a user's action moves the status along the transition table, the engine *)
(* writes RUNNING, COMPLETED or FAILED, and other edits leave the status.  *)
(***************************************************************************)
EXTENDS Naturals

CONSTANTS Run, Seed, Absent

VARIABLE board    \* board[r]: status and version of run r

UserMoves ==
  ({"RUNNING", "WAITING_HUMAN"} \X {"PAUSED"})
    \cup ({"PAUSED", "FAILED", "COMPLETED"} \X {"RUNNING"})
    \cup ({"DRAFT", "RUNNING", "WAITING_HUMAN", "PAUSED", "FAILED"}
             \X {"CANCELLED"})
EngineStatus == {"RUNNING", "COMPLETED", "FAILED"}

Init == board \in [Run -> [status: Seed, version: {0}] \cup {Absent}]

Appear(r) ==
  /\ board[r] = Absent
  /\ board' = [board EXCEPT ![r] = [status |-> "RUNNING", version |-> 0]]

Change(r, status) ==
  /\ board[r] # Absent
  /\ board' = [board EXCEPT ![r] = [status |-> status,
                                    version |-> board[r].version + 1]]

UserMove(r) ==
  \E s \in {"PAUSED", "RUNNING", "CANCELLED"} :
    Change(r, s) /\ <<board[r].status, s>> \in UserMoves

EngineMove(r) == \E s \in EngineStatus : Change(r, s)

Edit(r) == Change(r, board[r].status)

Next == \E r \in Run : Appear(r) \/ UserMove(r) \/ EngineMove(r) \/ Edit(r)

Spec == Init /\ [][Next]_board
=============================================================================
