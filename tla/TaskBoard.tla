----------------------------- MODULE TaskBoard -----------------------------
(***************************************************************************)
(* What the review board promises to its readers, with no request, policy  *)
(* or transaction in sight: a task is open or held when it appears, passes *)
(* from hand to hand by claim, assign and release, and is decided once, by *)
(* a decision that leaves the handler in place.  Each step changes one     *)
(* task and raises its version by one.                                     *)
(***************************************************************************)
EXTENDS Naturals

CONSTANTS HTask, Member, Outsider, Nobody, NoDecision

VARIABLE board    \* board[t]: status, decision, assignee and version of task t

Init ==
  /\ board \in [HTask -> [status: {"OPEN", "CLAIMED"}, decision: {NoDecision},
                          assignee: Member \cup {Nobody}, version: {0}]]
  /\ \A t \in HTask : board[t].status = "OPEN" => board[t].assignee = Nobody

Pending(t) == board[t].status \in {"OPEN", "CLAIMED"}

Change(t, status, decision, handler) ==
  board' = [board EXCEPT ![t] = [status |-> status, decision |-> decision,
                                 assignee |-> handler,
                                 version |-> board[t].version + 1]]

\* A claim gives an open task to its claimer, an assign any pending task to a
\* member: to a reader both make a member its holder.
Hold(t) == /\ Pending(t)
           /\ \E m \in Member : Change(t, "CLAIMED", NoDecision, m)

\* A release may name anybody as the next handler, and reopens the task.
Release(t) ==
  /\ Pending(t)
  /\ \E p \in Member \cup Outsider \cup {Nobody} :
       Change(t, "OPEN", NoDecision, p)

Decide(t) ==
  /\ Pending(t)
  /\ \E d \in {"APPROVE", "REJECT"} :
       Change(t, "COMPLETED", d, board[t].assignee)

\* An edited text is submitted only for a task somebody holds.
Submit(t) ==
  /\ board[t].status = "CLAIMED"
  /\ Change(t, "COMPLETED", "EDIT_AND_APPROVE", board[t].assignee)

Next == \E t \in HTask : Hold(t) \/ Release(t) \/ Decide(t) \/ Submit(t)

Spec == Init /\ [][Next]_board
=============================================================================
