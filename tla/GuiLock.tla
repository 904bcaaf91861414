------------------------------ MODULE GuiLock ------------------------------
(***************************************************************************)
(* The lock of uC/GUI (GUITask.c), on a FreeRTOS mutex that is not         *)
(* recursive (GUI_X_FreeRTOS.c).  GUI_Lock reads _EntranceCnt and          *)
(* _TaskIDLock before it has the mutex, so every read and every write of   *)
(* them is a step.  A task that enters gets its own drawing settings: the  *)
(* settings of the task before it are put away and its own are taken out   *)
(* of _Save.  Display is what the tasks see of it.                         *)
(*                                                                         *)
(* ++_EntranceCnt and --_EntranceCnt are steps too: only the task that     *)
(* holds the mutex writes the counter, which is part of what is proved.    *)
(***************************************************************************)
EXTENDS Integers, FiniteSets

CONSTANTS
  Tasks, NoTask,        \* tasks that call uC/GUI; a free entry of _Save
  GUI_MAXTASK,          \* entries of _Save
  Contexts, Initial,    \* GUI_CONTEXT, and its value after GUI_Init
  MAXNEST               \* bound: calls of GUI_Lock inside each other

ASSUME GuiAssumption ==
    /\ IsFiniteSet(Tasks) /\ NoTask \notin Tasks
    /\ GUI_MAXTASK \in Nat \ {0} /\ Cardinality(Tasks) <= GUI_MAXTASK
    /\ Initial \in Contexts
    /\ MAXNEST \in Nat \ {0}

VARIABLES
  cnt, lockId,          \* _EntranceCnt, _TaskIDLock
  mutex,                \* xDispMutex: the task that took it
  pc, depth,            \* tasks: place in the code, sections they are in
  slots, saved,         \* _Save: TaskID, Context
  current, context,     \* _CurrentTaskNo, GUI_Context
  mine, shown           \* history: what each task set last; what was drawn last

lock == << cnt, lockId, mutex >>
store == << slots, saved, current >>
vars == << lock, pc, depth, store, context, mine, shown >>

Slots == 0 .. GUI_MAXTASK - 1

(* GUITASK_CopyContext, the end of GUI_Init.  WM_Init has used the lock    *)
(* before, so _CurrentTaskNo is 0 and not -1.                              *)
Init ==
    /\ cnt = 0 /\ lockId = NoTask /\ mutex = NoTask
    /\ pc = [t \in Tasks |-> "out"] /\ depth = [t \in Tasks |-> 0]
    /\ slots = [i \in Slots |-> NoTask] /\ saved = [i \in Slots |-> Initial]
    /\ current = 0 /\ context = Initial
    /\ mine = [t \in Tasks |-> Initial] /\ shown = << NoTask, Initial >>

Goto(t, place) == pc' = [pc EXCEPT ![t] = place]

(***************************************************************************)
(* GUI_Lock.                                                                *)
(***************************************************************************)
L_Read(t) ==
    /\ pc[t] \in {"out", "in"} /\ depth[t] < MAXNEST
    /\ depth' = [depth EXCEPT ![t] = @ + 1]
    /\ Goto(t, IF cnt = 0 THEN "take" ELSE "compare")
    /\ UNCHANGED << lock, store, context, mine, shown >>

L_Compare(t) ==
    /\ pc[t] = "compare"
    /\ Goto(t, IF lockId = t THEN "count" ELSE "take")
    /\ UNCHANGED << lock, depth, store, context, mine, shown >>

(* Mutant: _TaskIDLock is not written.                                     *)
MutantNoId(t) ==
    /\ pc[t] = "take" /\ mutex = NoTask
    /\ mutex' = t
    /\ Goto(t, "count")
    /\ UNCHANGED << cnt, lockId, depth, store, context, mine, shown >>

(* xSemaphoreTake waits until the mutex is free.                           *)
L_Take(t) ==
    /\ pc[t] = "take" /\ mutex = NoTask
    /\ mutex' = t
    /\ Goto(t, "id")
    /\ UNCHANGED << cnt, lockId, depth, store, context, mine, shown >>

L_Id(t) ==
    /\ pc[t] = "id"
    /\ lockId' = t
    /\ Goto(t, "count")
    /\ UNCHANGED << cnt, mutex, depth, store, context, mine, shown >>

L_Count(t) ==
    /\ pc[t] = "count"
    /\ cnt' = cnt + 1
    /\ Goto(t, IF cnt = 0 THEN "switch" ELSE "in")
    /\ UNCHANGED << lockId, mutex, depth, store, context, mine, shown >>

(* _GetTaskNo: the first entry that is the task's or nobody's; 0 if there  *)
(* is none.                                                                *)
IsFirst(t, i) ==
    /\ slots[i] \in {t, NoTask}
    /\ \A j \in Slots : j < i => slots[j] \notin {t, NoTask}
TaskNo(t) == IF \E i \in Slots : IsFirst(t, i) THEN CHOOSE i \in Slots : IsFirst(t, i) ELSE 0

(* Mutant: the settings are not put away.                                  *)
MutantNotSaved(t) ==
    /\ pc[t] = "switch"
    /\ \E i \in Slots :
         /\ i = TaskNo(t)
         /\ slots' = (IF slots[i] = NoTask THEN [slots EXCEPT ![i] = t] ELSE slots)
         /\ IF i # current THEN context' = saved[i] ELSE UNCHANGED context
         /\ current' = i
    /\ Goto(t, "in")
    /\ UNCHANGED << saved, lock, depth, mine, shown >>

L_Switch(t) ==
    /\ pc[t] = "switch"
    /\ \E i \in Slots :
         /\ i = TaskNo(t)
         /\ slots' = (IF slots[i] = NoTask THEN [slots EXCEPT ![i] = t] ELSE slots)
         /\ IF i # current
            THEN saved' = [saved EXCEPT ![current] = context] /\ context' = saved[i]
            ELSE UNCHANGED << saved, context >>
         /\ current' = i
    /\ Goto(t, "in")
    /\ UNCHANGED << lock, depth, mine, shown >>

(***************************************************************************)
(* GUI_Unlock.                                                             *)
(***************************************************************************)
(* Mutant: the mutex is given by every call.                               *)
MutantGivesInside(t) ==
    /\ pc[t] = "in"
    /\ cnt' = cnt - 1
    /\ depth' = [depth EXCEPT ![t] = @ - 1]
    /\ Goto(t, IF depth[t] = 1 THEN "give" ELSE "in")
    /\ mutex' = IF depth[t] = 1 THEN mutex ELSE NoTask
    /\ UNCHANGED << lockId, store, context, mine, shown >>

U_Count(t) ==
    /\ pc[t] = "in"
    /\ cnt' = cnt - 1
    /\ depth' = [depth EXCEPT ![t] = @ - 1]
    /\ Goto(t, IF cnt = 1 THEN "give" ELSE "in")
    /\ UNCHANGED << lockId, mutex, store, context, mine, shown >>

U_Give(t) ==
    /\ pc[t] = "give"
    /\ mutex' = NoTask
    /\ Goto(t, "out")
    /\ UNCHANGED << cnt, lockId, depth, store, context, mine, shown >>

(* What a task does inside: GUI_SetColor and the like; GUI_DispString and   *)
(* the like, which draw with the settings they find.                       *)
Set(t, c) ==
    /\ pc[t] = "in"
    /\ context' = c
    /\ mine' = [mine EXCEPT ![t] = c]
    /\ UNCHANGED << lock, pc, depth, store, shown >>

Draw(t) ==
    /\ pc[t] = "in"
    /\ shown' = << t, context >>
    /\ UNCHANGED << lock, pc, depth, store, context, mine >>

Locks(t) == L_Compare(t) \/ L_Id(t) \/ L_Count(t) \/ L_Switch(t)
Use(t) == Draw(t) \/ \E c \in Contexts : Set(t, c)
Step(t) == L_Read(t) \/ L_Take(t) \/ Locks(t) \/ U_Count(t) \/ U_Give(t) \/ Use(t)
Next == \E t \in Tasks : Step(t)

Spec == Init /\ [][Next]_vars

-----------------------------------------------------------------------------
TypeOK ==
    /\ cnt \in 0 .. MAXNEST
    /\ lockId \in Tasks \cup {NoTask} /\ mutex \in Tasks \cup {NoTask}
    /\ pc \in [Tasks -> {"out", "take", "compare", "id", "count", "switch", "in", "give"}]
    /\ depth \in [Tasks -> 0 .. MAXNEST]
    /\ slots \in [Slots -> Tasks \cup {NoTask}] /\ saved \in [Slots -> Contexts]
    /\ current \in Slots /\ context \in Contexts
    /\ mine \in [Tasks -> Contexts]
    /\ shown \in (Tasks \cup {NoTask}) \X Contexts

(* Places where a task owns the counter, the contexts and the display.     *)
Inside == {"id", "count", "switch", "in", "give"}

(* Two tasks are never inside, although each looked at the counter and at  *)
(* the owner without the mutex.                                            *)
MutualExclusion == \A s, t \in Tasks : pc[s] \in Inside /\ pc[t] \in Inside => s = t

(* No task waits for a mutex it holds: a section in a section is noticed.  *)
NeverWaitsForItself == \A t \in Tasks : pc[t] = "take" => mutex # t

(* A task that is inside finds the settings it made last, whoever drew     *)
(* since: the font shoutcast chose is not the GUI task's.                  *)
ContextIsOwn == \A t \in Tasks : pc[t] = "in" => context = mine[t]

(* Every task sees a display of its own.                                   *)
View == INSTANCE Display WITH owner <- mutex, own <- mine
ViewSpec == View!Spec
=============================================================================
