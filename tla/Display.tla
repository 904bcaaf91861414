------------------------------ MODULE Display ------------------------------
(***************************************************************************)
(* What uC/GUI promises the tasks that draw: one of them at a time is      *)
(* inside, and each has drawing settings of its own (font, colours, cursor,*)
(* window), which nobody else changes.                                     *)
(***************************************************************************)
CONSTANTS
  Tasks, NoTask,        \* tasks that call uC/GUI; nobody
  Contexts, Initial     \* drawing settings; those GUI_Init leaves

VARIABLES
  owner,                \* the task inside, or NoTask
  own,                  \* the settings of each task
  shown                 \* the settings something was last drawn with, and by whom

vars == << owner, own, shown >>

Init ==
    /\ owner = NoTask
    /\ own = [t \in Tasks |-> Initial]
    /\ shown = << NoTask, Initial >>

Enter(t) ==
    /\ owner = NoTask
    /\ owner' = t
    /\ UNCHANGED << own, shown >>

Leave(t) ==
    /\ owner = t
    /\ owner' = NoTask
    /\ UNCHANGED << own, shown >>

Set(t, c) ==
    /\ owner = t
    /\ own' = [own EXCEPT ![t] = c]
    /\ UNCHANGED << owner, shown >>

Draw(t) ==
    /\ owner = t
    /\ shown' = << t, own[t] >>
    /\ UNCHANGED << owner, own >>

Next == \E t \in Tasks : Enter(t) \/ Leave(t) \/ Draw(t) \/ \E c \in Contexts : Set(t, c)

Spec == Init /\ [][Next]_vars
=============================================================================
