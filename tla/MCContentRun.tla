---------------------------- MODULE MCContentRun ----------------------------
(***************************************************************************)
(* Instances of ContentRun for TLC.                                        *)
(***************************************************************************)
EXTENDS ContentRun, TLC

CONSTANT bob   \* one of the clients

\* Two editors with every action on the state machine.
Editors == [c \in Client |-> Transitions \cup {"create"}]
\* One editor who drives runs and collects, a colleague who exports and cancels.
SideEffectUsers ==
  [c \in Client |-> IF c = bob THEN {"export", "cancel", "collect"}
                    ELSE {"create", "rerun", "collect"}]
\* Workers are interchangeable, and so are clients with the same permissions.
Symmetric == Permutations(Worker) \cup Permutations(Client)
AllMatch == [r \in Run |-> Material]
=============================================================================
