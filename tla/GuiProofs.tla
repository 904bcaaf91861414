----------------------------- MODULE GuiProofs ------------------------------
(***************************************************************************)
(* The graphical user interface: its lock, for any number of tasks, of     *)
(* entries in _Save that suffices for them, of settings and of nested      *)
(* calls; and the way from the touch panel to a playing station, for any   *)
(* number of rows and any length of the queue of stations.                 *)
(***************************************************************************)
EXTENDS GuiLock, UserInterface, FiniteSetTheorems, TLAPS

-----------------------------------------------------------------------------
(***************************************************************************)
(* GUI_Lock and GUI_Unlock.                                                *)
(***************************************************************************)
(* Where a task is when it has the mutex: in a section, or between two     *)
(* reads of a nested GUI_Lock.                                             *)
Holds(t) == pc[t] \in Inside \/ (pc[t] = "compare" /\ depth[t] > 1)

(* The counter, from the place of the task that has the mutex.             *)
CountAt(t) == IF pc[t] \in {"compare", "count"} THEN depth[t] - 1
              ELSE IF pc[t] = "id" THEN 0 ELSE depth[t]

DepthInv ==
    \A t \in Tasks :
        /\ pc[t] \in {"out", "give"} => depth[t] = 0
        /\ pc[t] \in {"take", "id", "switch"} => depth[t] = 1
        /\ pc[t] \in {"compare", "count", "in"} => depth[t] >= 1

(* Whoever has the mutex wrote the owner's id, and an id a task finds      *)
(* outside is not its own.                                                 *)
LockInv ==
    /\ \A t \in Tasks : Holds(t) <=> mutex = t
    /\ mutex = NoTask => cnt = 0
    /\ \A t \in Tasks : mutex = t => cnt = CountAt(t) /\ (pc[t] # "id" => lockId = t)
    /\ \A t \in Tasks : pc[t] = "compare" /\ depth[t] = 1 => lockId # t

(* Entries are given out in order, each to one task.                       *)
InOrder == \E k \in 0 .. GUI_MAXTASK : \A i \in Slots : slots[i] # NoTask <=> i < k
SlotInv ==
    /\ \A i, j \in Slots : slots[i] = slots[j] /\ slots[i] # NoTask => i = j
    /\ InOrder
    /\ slots[current] = NoTask => \A i \in Slots : slots[i] = NoTask

(* What was put away for a task are its last settings; what nobody has     *)
(* used are those of GUI_Init.                                             *)
SavedInv ==
    /\ \A i \in Slots : slots[i] = NoTask => saved[i] = Initial
    /\ slots[current] = NoTask => context = Initial /\ current = 0
    /\ \A t \in Tasks : (\A i \in Slots : slots[i] # t) => mine[t] = Initial
    /\ \A i \in Slots : slots[i] # NoTask /\ i # current => mine[slots[i]] = saved[i]
    /\ slots[current] # NoTask => mine[slots[current]] = context

(* Inside, the entry in use is the task's.                                 *)
Switched(t) == pc[t] = "in" \/ (pc[t] \in {"compare", "count"} /\ depth[t] > 1)
CurrentInv == \A t \in Tasks : Switched(t) => slots[current] = t

IInv == TypeOK /\ DepthInv /\ LockInv /\ SlotInv /\ SavedInv /\ CurrentInv

-----------------------------------------------------------------------------
(* There is an entry for every task: _GetTaskNo never falls back on 0.     *)
LEMMA EntryExists ==
    ASSUME TypeOK, SlotInv, NEW t \in Tasks
    PROVE  \E i \in Slots : IsFirst(t, i)
<1> USE GuiAssumption DEF Slots, TypeOK
<1>1. CASE \E i \in Slots : slots[i] = t
  <2>1. PICK i \in Slots : slots[i] = t
    BY <1>1
  <2>2. PICK k \in 0 .. GUI_MAXTASK : \A j \in Slots : slots[j] # NoTask <=> j < k
    BY DEF SlotInv, InOrder
  <2>3. ASSUME NEW j \in Slots, j < i PROVE slots[j] \notin {t, NoTask}
    BY <2>1, <2>2, <2>3 DEF SlotInv
  <2> QED
    BY <2>1, <2>3 DEF IsFirst
<1>2. CASE \A i \in Slots : slots[i] # t
  <2>1. PICK k \in 0 .. GUI_MAXTASK : \A j \in Slots : slots[j] # NoTask <=> j < k
    BY DEF SlotInv, InOrder
  <2>2. k # GUI_MAXTASK
    <3>1. SUFFICES ASSUME k = GUI_MAXTASK PROVE FALSE
      OBVIOUS
    <3> DEFINE T == Tasks \ {t}
    <3>2. slots \in [Slots -> T]
      BY <1>2, <2>1, <3>1
    <3>3. IsFiniteSet(T) /\ Cardinality(T) = Cardinality(Tasks) - 1
      BY FS_RemoveElement
    <3>4. IsFiniteSet(Slots) /\ Cardinality(Slots) = GUI_MAXTASK
      BY FS_Interval
    <3>5. Cardinality(Tasks) \in Nat
      BY FS_CardinalityType
    <3>6. Cardinality(T) < Cardinality(Slots)
      BY <3>3, <3>4, <3>5
    <3> HIDE DEF T, Slots, TypeOK
    <3>7. \E i, j \in Slots : i # j /\ slots[i] = slots[j]
      BY ONLY <3>2, <3>3, <3>4, <3>6, FS_PigeonHole
    <3> QED
      BY <2>1, <3>1, <3>7 DEF SlotInv, Slots
  <2>3. k \in Slots /\ slots[k] = NoTask
    BY <2>1, <2>2
  <2>4. ASSUME NEW j \in Slots, j < k PROVE slots[j] \notin {t, NoTask}
    BY <1>2, <2>1, <2>4
  <2> QED
    BY <2>3, <2>4 DEF IsFirst
<1> QED
  BY <1>1, <1>2

(* What _GetTaskNo returns.                                                *)
LEMMA TaskNoIsFirst ==
    ASSUME TypeOK, SlotInv, NEW t \in Tasks
    PROVE  TaskNo(t) \in Slots /\ IsFirst(t, TaskNo(t))
  BY EntryExists DEF TaskNo

-----------------------------------------------------------------------------
(* The counter, the owner's id and the mutex.                              *)
LEMMA LockPart ==
    ASSUME TypeOK, DepthInv, LockInv, NEW t \in Tasks, Step(t)
    PROVE  DepthInv' /\ LockInv'
<1> USE GuiAssumption DEF TypeOK, DepthInv, LockInv, Holds, CountAt, Inside, Goto
<1>1. CASE L_Read(t)
  BY <1>1 DEF L_Read, lock
<1>2. CASE L_Compare(t)
  BY <1>2 DEF L_Compare, lock
<1>3. CASE L_Take(t)
  BY <1>3 DEF L_Take
<1>4. CASE L_Id(t)
  BY <1>4 DEF L_Id
<1>5. CASE L_Count(t)
  BY <1>5 DEF L_Count
<1>6. CASE L_Switch(t)
  BY <1>6 DEF L_Switch, lock
<1>7. CASE U_Count(t)
  BY <1>7 DEF U_Count
<1>8. CASE U_Give(t)
  BY <1>8 DEF U_Give
<1>9. CASE Use(t)
  BY <1>9 DEF Use, Draw, Set, lock
<1> QED
  BY <1>1, <1>2, <1>3, <1>4, <1>5, <1>6, <1>7, <1>8, <1>9 DEF Step, Locks

(* _Save.                                                                  *)
LEMMA SlotPart ==
    ASSUME TypeOK, SlotInv, NEW t \in Tasks, Step(t)
    PROVE  SlotInv'
<1>1. CASE L_Switch(t)
  <2> DEFINE i == TaskNo(t)
  <2>1. i \in Slots /\ IsFirst(t, i)
    BY TaskNoIsFirst
  <2>2. current' = i /\ slots' = (IF slots[i] = NoTask THEN [slots EXCEPT ![i] = t] ELSE slots)
    BY <1>1 DEF L_Switch
  <2> HIDE DEF i
  <2> USE GuiAssumption DEF Slots, TypeOK
  <2>3. CASE slots[i] = t
    BY <2>1, <2>2, <2>3 DEF SlotInv, InOrder
  <2>4. CASE slots[i] = NoTask
    <3>1. slots' = [slots EXCEPT ![i] = t]
      BY <2>2, <2>4
    <3>2. PICK k \in 0 .. GUI_MAXTASK : \A j \in Slots : slots[j] # NoTask <=> j < k
      BY DEF SlotInv, InOrder
    <3>3. i = k
      <4>1. i >= k
        BY <2>1, <2>4, <3>2
      <4>2. ASSUME k < i PROVE FALSE
        <5>1. k \in Slots /\ slots[k] = NoTask
          BY <2>1, <3>2, <4>2
        <5> QED
          BY <2>1, <4>2, <5>1 DEF IsFirst
      <4> QED
        BY <2>1, <4>1, <4>2
    <3>4. \A j \in Slots : slots[j] # t
      BY <2>1, <3>2, <3>3 DEF IsFirst
    <3>5. \A j \in Slots : slots'[j] # NoTask <=> j < k + 1
      BY <2>1, <3>1, <3>2, <3>3
    <3>6. k + 1 \in 0 .. GUI_MAXTASK
      BY <2>1, <3>3
    <3>7. InOrder'
      BY <3>5, <3>6 DEF InOrder
    <3>8. \A j, l \in Slots : slots'[j] = slots'[l] /\ slots'[j] # NoTask => j = l
      BY <2>1, <3>1, <3>4 DEF SlotInv
    <3>9. slots'[current'] # NoTask
      BY <2>1, <2>2, <3>1
    <3> QED
      BY <3>7, <3>8, <3>9 DEF SlotInv
  <2> QED
    BY <2>1, <2>3, <2>4 DEF IsFirst
<1>2. CASE ~ L_Switch(t)
  <2>1. UNCHANGED << slots, current >>
    BY <1>2 DEF Step, Locks, Use, L_Read, L_Compare, L_Take, L_Id, L_Count, U_Count, U_Give,
                Draw, Set, store
  <2> QED
    BY <2>1 DEF SlotInv, InOrder
<1> QED
  BY <1>1, <1>2

(* The settings that were put away, and those in use.                      *)
LEMMA SavedPart ==
    ASSUME TypeOK, SlotInv, SavedInv, CurrentInv, NEW t \in Tasks, Step(t)
    PROVE  SavedInv'
<1>1. CASE L_Switch(t)
  <2> DEFINE i == TaskNo(t)
  <2>1. i \in Slots /\ IsFirst(t, i)
    BY TaskNoIsFirst
  <2>2. /\ current' = i
        /\ slots' = (IF slots[i] = NoTask THEN [slots EXCEPT ![i] = t] ELSE slots)
        /\ i # current => saved' = [saved EXCEPT ![current] = context] /\ context' = saved[i]
        /\ i = current => UNCHANGED << saved, context >>
        /\ UNCHANGED mine
    BY <1>1 DEF L_Switch
  <2> HIDE DEF i
  <2> USE GuiAssumption DEF Slots, TypeOK
  <2>3. slots'[i] = t /\ \A j \in Slots : j # i => slots'[j] = slots[j]
    BY <2>1, <2>2 DEF IsFirst
  <2>4. slots[i] = NoTask => \A j \in Slots : slots[j] # t
    BY <2>1 DEF SlotInv, InOrder, IsFirst
  <2>5. i # current => slots[current] # NoTask
    <3>1. SUFFICES ASSUME i # current, slots[current] = NoTask PROVE FALSE
      OBVIOUS
    <3>2. current = 0 /\ \A j \in Slots : slots[j] = NoTask
      BY <3>1 DEF SlotInv, SavedInv
    <3> QED
      BY <2>1, <3>1, <3>2 DEF IsFirst
  <2>6. \A j \in Slots : slots'[j] = NoTask => saved'[j] = Initial
    <3>1. ASSUME NEW j \in Slots, slots'[j] = NoTask PROVE j # i /\ slots[j] = NoTask
      BY <2>1, <2>3, <3>1
    <3> QED
      BY <2>1, <2>2, <2>5, <3>1 DEF SavedInv
  <2>7. slots'[current'] # NoTask
    BY <2>2, <2>3
  <2>8. \A s \in Tasks : (\A j \in Slots : slots'[j] # s) => mine'[s] = Initial
    BY <2>1, <2>2, <2>3 DEF SavedInv, IsFirst
  <2>9. \A j \in Slots : slots'[j] # NoTask /\ j # current' => mine'[slots'[j]] = saved'[j]
    BY <2>1, <2>2, <2>3, <2>5 DEF SavedInv
  <2>10. mine'[slots'[current']] = context'
    <3>1. CASE slots[i] = t
      BY <2>1, <2>2, <2>3, <3>1 DEF SavedInv
    <3>2. CASE slots[i] = NoTask
      <4>1. mine[t] = Initial
        BY <2>4, <3>2 DEF SavedInv
      <4>2. context' = Initial
        BY <2>1, <2>2, <3>2 DEF SavedInv
      <4> QED
        BY <2>2, <2>3, <4>1, <4>2
    <3> QED
      BY <2>1, <3>1, <3>2 DEF IsFirst
  <2> QED
    BY <2>6, <2>7, <2>8, <2>9, <2>10 DEF SavedInv
<1>2. CASE \E c \in Contexts : Set(t, c)
  <2>1. PICK c \in Contexts : Set(t, c)
    BY <1>2
  <2>2. slots[current] = t
    BY <2>1 DEF Set, CurrentInv, Switched
  <2> QED
    BY <2>1, <2>2, GuiAssumption DEF Set, store, SavedInv, SlotInv, TypeOK
<1>3. CASE ~ L_Switch(t) /\ ~ \E c \in Contexts : Set(t, c)
  <2>1. UNCHANGED << store, context, mine >>
    BY <1>3 DEF Step, Locks, Use, L_Read, L_Compare, L_Take, L_Id, L_Count, U_Count, U_Give,
                Draw
  <2> QED
    BY <2>1 DEF SavedInv, store
<1> QED
  BY <1>1, <1>2, <1>3

(* The entry in use.                                                       *)
LEMMA CurrentPart ==
    ASSUME TypeOK, DepthInv, LockInv, SlotInv, CurrentInv, NEW t \in Tasks, Step(t)
    PROVE  CurrentInv'
<1> USE GuiAssumption DEF TypeOK, CurrentInv, Switched, Goto
<1>1. CASE L_Switch(t)
  <2> DEFINE i == TaskNo(t)
  <2>1. i \in Slots /\ IsFirst(t, i)
    BY TaskNoIsFirst
  <2>2. current' = i /\ slots' = (IF slots[i] = NoTask THEN [slots EXCEPT ![i] = t] ELSE slots)
        /\ pc[t] = "switch" /\ pc' = [pc EXCEPT ![t] = "in"] /\ UNCHANGED depth
    BY <1>1 DEF L_Switch
  <2> HIDE DEF i
  <2>3. slots'[current'] = t
    BY <2>1, <2>2 DEF IsFirst
  <2>4. \A s \in Tasks \ {t} : ~ Switched(s)
    BY <2>2 DEF LockInv, Holds, Inside
  <2> QED
    BY <2>2, <2>3, <2>4
<1>2. CASE ~ L_Switch(t)
  <2>1. UNCHANGED << slots, current >>
    BY <1>2 DEF Step, Locks, Use, L_Read, L_Compare, L_Take, L_Id, L_Count, U_Count, U_Give,
                Draw, Set, store
  <2>2. ASSUME NEW s \in Tasks, Switched(s)' PROVE Switched(s)
    <3> USE <2>2 DEF DepthInv, LockInv, Holds, Inside, CountAt
    <3>1. CASE L_Read(t)
      BY <3>1 DEF L_Read
    <3>2. CASE L_Compare(t)
      BY <3>2 DEF L_Compare
    <3>3. CASE L_Count(t)
      BY <3>3 DEF L_Count
    <3>4. CASE U_Count(t)
      BY <3>4 DEF U_Count
    <3>5. CASE L_Take(t) \/ L_Id(t) \/ U_Give(t) \/ Use(t)
      BY <3>5 DEF L_Take, L_Id, U_Give, Use, Draw, Set
    <3> QED
      BY <1>2, <3>1, <3>2, <3>3, <3>4, <3>5 DEF Step, Locks
  <2> QED
    BY <2>1, <2>2
<1> QED
  BY <1>1, <1>2

(* Types; the counter does not exceed the nesting.                         *)
LEMMA TypePart ==
    ASSUME TypeOK, DepthInv, LockInv, SlotInv, NEW t \in Tasks, Step(t)
    PROVE  TypeOK'
<1> USE GuiAssumption DEF TypeOK, Goto, lock, store
<1>1. CASE L_Read(t)
  BY <1>1 DEF L_Read
<1>2. CASE L_Compare(t)
  BY <1>2 DEF L_Compare
<1>3. CASE L_Take(t)
  BY <1>3 DEF L_Take
<1>4. CASE L_Id(t)
  BY <1>4 DEF L_Id
<1>5. CASE L_Count(t)
  <2>1. mutex = t /\ cnt = depth[t] - 1 /\ depth[t] >= 1
    BY <1>5 DEF L_Count, LockInv, DepthInv, Holds, Inside, CountAt
  <2> QED
    BY <1>5, <2>1 DEF L_Count
<1>6. CASE L_Switch(t)
  <2>1. TaskNo(t) \in Slots
    BY TaskNoIsFirst
  <2> QED
    BY <1>6, <2>1 DEF L_Switch
<1>7. CASE U_Count(t)
  <2>1. mutex = t /\ cnt = depth[t] /\ depth[t] >= 1
    BY <1>7 DEF U_Count, LockInv, DepthInv, Holds, Inside, CountAt
  <2> QED
    BY <1>7, <2>1 DEF U_Count
<1>8. CASE U_Give(t)
  BY <1>8 DEF U_Give
<1>9. CASE Use(t)
  BY <1>9 DEF Use, Draw, Set
<1> QED
  BY <1>1, <1>2, <1>3, <1>4, <1>5, <1>6, <1>7, <1>8, <1>9 DEF Step, Locks

-----------------------------------------------------------------------------
(* The state GUI_Init leaves.                                              *)
LEMMA InitHolds == Init => IInv
<1> SUFFICES ASSUME Init PROVE IInv
  OBVIOUS
<1> USE GuiAssumption DEF Init, Slots
<1>1. TypeOK
  BY DEF TypeOK
<1>2. DepthInv /\ LockInv /\ CurrentInv
  BY DEF DepthInv, LockInv, Holds, Inside, CountAt, CurrentInv, Switched
<1>3. InOrder
  BY DEF InOrder
<1>4. SlotInv /\ SavedInv
  BY <1>3 DEF SlotInv, SavedInv
<1> QED
  BY <1>1, <1>2, <1>4 DEF IInv

(* The invariant of GUI_Lock and GUI_Unlock: who holds the mutex, what the *)
(* counter and the owner's id say of it, and whose settings are where.     *)
THEOREM LockInvariant == Spec => []IInv
<1>1. ASSUME IInv, [Next]_vars PROVE IInv'
  <2>1. CASE UNCHANGED vars
    BY <1>1, <2>1 DEF IInv, TypeOK, DepthInv, LockInv, SlotInv, InOrder, SavedInv, CurrentInv,
                      Holds, Inside, CountAt, Switched, vars, lock, store
  <2>2. ASSUME NEW t \in Tasks, Step(t) PROVE IInv'
    BY <1>1, <2>2, TypePart, LockPart, SlotPart, SavedPart, CurrentPart DEF IInv
  <2> QED
    BY <1>1, <2>1, <2>2 DEF Next
<1> QED
  BY InitHolds, <1>1, PTL DEF Spec

(* The variables of uC/GUI's lock have their types.                        *)
THEOREM LockTypeOK == Spec => []TypeOK
  BY LockInvariant, PTL DEF IInv

(* Two tasks are never inside, although GUI_Lock reads the counter and the *)
(* owner before it has the mutex.                                          *)
THEOREM OneTaskInside == Spec => []MutualExclusion
<1>1. IInv => MutualExclusion
  BY DEF IInv, LockInv, Holds, MutualExclusion
<1> QED
  BY <1>1, LockInvariant, PTL

(* A nested GUI_Lock never waits for the mutex of its own task.            *)
THEOREM NoSelfDeadlock == Spec => []NeverWaitsForItself
<1>1. IInv => NeverWaitsForItself
  BY DEF IInv, LockInv, Holds, Inside, NeverWaitsForItself
<1> QED
  BY <1>1, LockInvariant, PTL

(* A task that is inside finds the settings it made last.                  *)
THEOREM SettingsAreOwn == Spec => []ContextIsOwn
<1>1. IInv => ContextIsOwn
  <2> SUFFICES ASSUME IInv, NEW t \in Tasks, pc[t] = "in" PROVE context = mine[t]
    BY DEF ContextIsOwn
  <2>1. slots[current] = t
    BY DEF IInv, CurrentInv, Switched
  <2> QED
    BY <2>1, GuiAssumption DEF IInv, SavedInv
<1> QED
  BY <1>1, LockInvariant, PTL

(* Every step of the lock is a step of a display each task has to itself,  *)
(* or none.                                                                *)
THEOREM LockIsADisplay == Spec => ViewSpec
<1>1. Init => View!Init
  BY DEF Init, View!Init
<1>2. ASSUME IInv, [Next]_vars PROVE [View!Next]_(View!vars)
  <2>1. CASE UNCHANGED vars
    BY <2>1 DEF View!vars, vars, lock
  <2>2. ASSUME NEW t \in Tasks, Step(t) PROVE [View!Next]_(View!vars)
    <3> USE DEF lock, store, View!vars
    <3>1. CASE L_Take(t)
      BY <3>1 DEF L_Take, View!Next, View!Enter
    <3>2. CASE U_Give(t)
      <4>1. mutex = t
        BY <1>2, <3>2 DEF IInv, LockInv, Holds, Inside, U_Give
      <4> QED
        BY <3>2, <4>1 DEF U_Give, View!Next, View!Leave
    <3>3. CASE Use(t)
      <4>1. mutex = t
        BY <1>2, <3>3 DEF IInv, LockInv, Holds, Inside, Use, Draw, Set
      <4>2. context = mine[t]
        <5>1. slots[current] = t
          BY <1>2, <3>3 DEF IInv, CurrentInv, Switched, Use, Draw, Set
        <5> QED
          BY <1>2, <5>1, GuiAssumption DEF IInv, SavedInv
      <4>3. CASE Draw(t)
        BY <4>1, <4>2, <4>3 DEF Draw, View!Next, View!Draw
      <4>4. CASE \E c \in Contexts : Set(t, c)
        BY <4>1, <4>4 DEF Set, View!Next, View!Set
      <4> QED
        BY <3>3, <4>3, <4>4 DEF Use
    <3>4. CASE L_Read(t) \/ Locks(t) \/ U_Count(t)
      BY <3>4 DEF L_Read, Locks, L_Compare, L_Id, L_Count, L_Switch, U_Count
    <3> QED
      BY <2>2, <3>1, <3>2, <3>3, <3>4 DEF Step
  <2> QED
    BY <1>2, <2>1, <2>2 DEF Next
<1> QED
  BY <1>1, <1>2, LockInvariant, PTL DEF Spec, ViewSpec, View!Spec

-----------------------------------------------------------------------------
(***************************************************************************)
(* The window manager, the touch-panel task and the menu.                  *)
(***************************************************************************)
(* The copy that is being taken shows what the record has shown since the  *)
(* last hit of OK, and a report that was in it unless it is torn.          *)
CopyInv ==
    /\ Seen(pid) \subseteq since
    /\ wm \in {"y", "Pressed", "handle"} /\ StateNew.x = "column" => "column" \in since
    /\ wm \in {"Pressed", "handle"} /\ StateNew.y = "ok" => "row" \in since
    /\ wm \in {"y", "Pressed"} /\ "torn" \notin since => StateNew.x = pid.x
    /\ wm = "Pressed" /\ "torn" \notin since => StateNew.y = pid.y
    /\ wm = "handle" /\ OnOk(StateNew) => "finger" \in since \/ "torn" \in since

(* What is known of a hit of OK while it is down: the last look saw it.    *)
Backed == /\ OnOk(StateLast) /\ {"column", "row"} \subseteq since
          /\ "finger" \in since \/ "mixed" \in since
DownInv == "ok" \in down => CHWinLast = "ok" /\ Backed

TouchInv == CopyInv /\ DownInv

(* The station has been sent when the menu is on its way out, and before   *)
(* that the menu has its list.                                             *)
BeforeSend == {"wait", "ok", "click", "list", "poll", "getsel", "send"}
MenuInv ==
    /\ Sent = (IF eGuiState = "SELECT" /\ gui \in BeforeSend THEN 0 ELSE 1)
    /\ eGuiState = "PLAYING" => gui \in {"poll", "resume"}
    /\ gui = "resume" => eGuiState = "PLAYING"
    /\ eGuiState = "SELECT" /\ gui \in {"poll", "getsel", "send"} => "list" \in windows

UiInv == UiTypeOK /\ MessagesReachWindows /\ MenuInv

(* At the start there is no menu, and no finger on the panel.              *)
LEMMA UiStart == UiInit => UiInv
<1> SUFFICES ASSUME UiInit PROVE UiInv
  OBVIOUS
<1>1. AtRest \in Reports
  BY UiAssumption DEF AtRest, Reports
<1>2. UiTypeOK
  <2>1. dhcpflag \in BOOLEAN
    BY DEF UiInit
  <2>2. since \subseteq {"column", "row", "finger", "torn", "mixed"}
    BY DEF UiInit, Seen
  <2> QED
    BY <1>1, <2>1, <2>2, UiAssumption DEF UiInit, UiTypeOK
<1>3. MessagesReachWindows /\ MenuInv
  BY DEF UiInit, MessagesReachWindows, MenuInv, Sent, BeforeSend
<1> QED
  BY <1>2, <1>3 DEF UiInv

(* The touch-panel task.                                                   *)
LEMMA TouchKeeps == ASSUME UiInv, Touch PROVE UiInv'
<1>0. UiTypeOK /\ MessagesReachWindows /\ MenuInv
  BY DEF UiInv
<1>1. CASE T_Touch
  <2>1. UiTypeOK'
    BY <1>0, <1>1 DEF T_Touch, GUI_PID_StoreState, Seen, dhcp, manager, desk, radio,
        UiTypeOK
  <2>2. MessagesReachWindows'
    BY <1>0, <1>1 DEF T_Touch, GUI_PID_StoreState, desk, MessagesReachWindows
  <2>3. MenuInv'
    BY <1>0, <1>1 DEF T_Touch, GUI_PID_StoreState, desk, radio, MenuInv, Sent
  <2> QED
    BY <2>1, <2>2, <2>3 DEF UiInv
<1>2. CASE T_Release
  <2>1. UiTypeOK'
    <3>1. [pid EXCEPT !.Pressed = FALSE] \in Reports
      BY <1>0 DEF UiTypeOK, Reports
    <3>2. pid' \in Reports
      BY <1>2, <3>1 DEF T_Release, GUI_PID_StoreState
    <3>3. since' \subseteq {"column", "row", "finger", "torn", "mixed"}
      BY <1>0, <1>2 DEF T_Release, GUI_PID_StoreState, Seen, UiTypeOK
    <3>4. UNCHANGED << dhcp, manager, desk, Key, gui, eGuiState, radio >>
      BY <1>2 DEF T_Release, GUI_PID_StoreState
    <3> QED
      BY <1>0, <3>2, <3>3, <3>4 DEF dhcp, manager, desk, radio, UiTypeOK
  <2>2. MessagesReachWindows'
    BY <1>0, <1>2 DEF T_Release, GUI_PID_StoreState, desk, MessagesReachWindows
  <2>3. MenuInv'
    BY <1>0, <1>2 DEF T_Release, GUI_PID_StoreState, desk, radio, MenuInv, Sent
  <2> QED
    BY <2>1, <2>2, <2>3 DEF UiInv
<1> QED
  BY <1>1, <1>2 DEF Touch

(* The window manager.                                                     *)
LEMMA ManagerKeeps == ASSUME UiInv, Manager PROVE UiInv'
<1>0. UiTypeOK /\ MessagesReachWindows /\ MenuInv
  BY DEF UiInv
<1>1. CASE W_Copy
  <2>1. UiTypeOK'
    <3>1. StateNew' \in Reports
      BY <1>0, <1>1 DEF W_Copy, GUI_PID_GetState, UiTypeOK, Reports
    <3> QED
      BY <1>0, <1>1, <3>1 DEF W_Copy, GUI_PID_GetState, dhcp, desk, radio, UiTypeOK
  <2>2. MessagesReachWindows'
    BY <1>0, <1>1 DEF W_Copy, GUI_PID_GetState, desk, MessagesReachWindows
  <2>3. MenuInv'
    BY <1>0, <1>1 DEF W_Copy, GUI_PID_GetState, desk, radio, MenuInv, Sent
  <2> QED
    BY <2>1, <2>2, <2>3 DEF UiInv
<1>2. CASE W_Same
  <2>1. UiTypeOK'
    BY <1>0, <1>2 DEF W_Same, dhcp, touch, desk, radio, UiTypeOK
  <2>2. MessagesReachWindows'
    BY <1>0, <1>2 DEF W_Same, desk, MessagesReachWindows
  <2>3. MenuInv'
    BY <1>0, <1>2 DEF W_Same, desk, radio, MenuInv, Sent
  <2> QED
    BY <2>1, <2>2, <2>3 DEF UiInv
<1>3. CASE W_Handle
  <2>1. UiTypeOK'
    <3>1. StateLast' \in Reports /\ down' \subseteq Buttons
      BY <1>0, <1>3 DEF W_Handle, DownAfter, UiTypeOK
    <3>2. CHWinLast' \in Windows \cup {None, Desktop}
      <4>1. Screen2Win(StateNew) \in Windows \cup {None, Desktop}
        BY <1>0 DEF Screen2Win, Windows, UiTypeOK
      <4> QED
        BY <1>0, <1>3, <4>1 DEF W_Handle, UiTypeOK
    <3>3. /\ wm' \in {"x", "y", "Pressed", "handle", "test", "set"}
          /\ hit' \in Buttons \cup {None}
      BY <1>0, <1>3 DEF W_Handle, Hits, UiTypeOK
    <3>4. capture' \in {None, "list"}
      BY <1>0, <1>3 DEF W_Handle, CaptureAfter, UiTypeOK
    <3>5. since' \subseteq {"column", "row", "finger", "torn", "mixed"}
      <4>1. SinceAfter \subseteq {"column", "row", "finger", "torn", "mixed"}
        BY <1>0 DEF SinceAfter, Seen, UiTypeOK
      <4> QED
        BY <1>3, <4>1 DEF W_Handle
    <3> QED
      BY <1>0, <1>3, <3>1, <3>2, <3>3, <3>4, <3>5 DEF W_Handle, dhcp, radio, UiTypeOK
  <2>2. MessagesReachWindows'
    <3>1. Screen2Win(StateNew) \in windows \cup {None, Desktop}
      BY <1>0 DEF Screen2Win, MessagesReachWindows
    <3>2. Screen2Win(StateNew) = "list" => "list" \in windows
      BY <3>1 DEF None, Desktop
    <3>3. windows' = windows
      BY <1>3 DEF W_Handle
    <3>4. CHWinLast' \in windows \cup {None, Desktop}
      BY <1>0, <1>3, <3>1 DEF W_Handle, MessagesReachWindows
    <3>5. capture' \in windows \cup {None}
      BY <1>0, <1>3, <3>2 DEF W_Handle, CaptureAfter, MessagesReachWindows
    <3> QED
      BY <3>3, <3>4, <3>5 DEF MessagesReachWindows
  <2>3. MenuInv'
    BY <1>0, <1>3 DEF W_Handle, radio, MenuInv, Sent
  <2> QED
    BY <2>1, <2>2, <2>3 DEF UiInv
<1>4. CASE W_Test
  <2>1. UiTypeOK'
    BY <1>0, <1>4 DEF W_Test, dhcp, touch, desk, radio, UiTypeOK
  <2>2. MessagesReachWindows'
    BY <1>0, <1>4 DEF W_Test, desk, MessagesReachWindows
  <2>3. MenuInv'
    BY <1>0, <1>4 DEF W_Test, desk, radio, MenuInv, Sent
  <2> QED
    BY <2>1, <2>2, <2>3 DEF UiInv
<1>5. CASE W_Set
  <2>1. UiTypeOK'
    BY <1>0, <1>5 DEF W_Set, dhcp, touch, desk, radio, UiTypeOK
  <2>2. MessagesReachWindows'
    BY <1>0, <1>5 DEF W_Set, desk, MessagesReachWindows
  <2>3. MenuInv'
    BY <1>0, <1>5 DEF W_Set, desk, radio, MenuInv, Sent
  <2> QED
    BY <2>1, <2>2, <2>3 DEF UiInv
<1> QED
  BY <1>1, <1>2, <1>3, <1>4, <1>5 DEF Manager

(* The GUI task.                                                           *)
LEMMA MenuKeeps == ASSUME UiInv, Menu PROVE UiInv'
<1>0. UiTypeOK /\ MessagesReachWindows /\ MenuInv
  BY DEF UiInv
<1>1. CASE G_Create("ok", "click")
  <2>1. UiTypeOK'
    BY <1>0, <1>1 DEF G_Create, dhcp, touch, manager, radio, UiTypeOK, Windows, Buttons
  <2>2. MessagesReachWindows'
    BY <1>0, <1>1 DEF G_Create, MessagesReachWindows
  <2>3. MenuInv'
    BY <1>0, <1>1 DEF G_Create, radio, MenuInv, Sent, BeforeSend
  <2> QED
    BY <2>1, <2>2, <2>3 DEF UiInv
<1>2. CASE G_Create("click", "list")
  <2>1. UiTypeOK'
    BY <1>0, <1>2 DEF G_Create, dhcp, touch, manager, radio, UiTypeOK, Windows
  <2>2. MessagesReachWindows'
    BY <1>0, <1>2 DEF G_Create, MessagesReachWindows
  <2>3. MenuInv'
    BY <1>0, <1>2 DEF G_Create, radio, MenuInv, Sent, BeforeSend
  <2> QED
    BY <2>1, <2>2, <2>3 DEF UiInv
<1>3. CASE G_Create("list", "poll")
  <2>1. UiTypeOK'
    BY <1>0, <1>3 DEF G_Create, dhcp, touch, manager, radio, UiTypeOK
  <2>2. MessagesReachWindows'
    BY <1>0, <1>3 DEF G_Create, MessagesReachWindows
  <2>3. MenuInv'
    BY <1>0, <1>3 DEF G_Create, radio, MenuInv, Sent, BeforeSend
  <2> QED
    BY <2>1, <2>2, <2>3 DEF UiInv
<1>4. CASE G_GetKey
  <2>1. UiTypeOK'
    BY <1>0, <1>4 DEF G_GetKey, dhcp, touch, manager, desk, radio, UiTypeOK
  <2>2. MessagesReachWindows'
    BY <1>0, <1>4 DEF G_GetKey, desk, MessagesReachWindows
  <2>3. MenuInv'
    BY <1>0, <1>4 DEF G_GetKey, desk, radio, MenuInv, Sent, BeforeSend
  <2> QED
    BY <2>1, <2>2, <2>3 DEF UiInv
<1>5. CASE G_GetSel
  <2>1. UiTypeOK'
    BY <1>0, <1>5 DEF G_GetSel, dhcp, touch, manager, desk, radio, UiTypeOK
  <2>2. MessagesReachWindows'
    BY <1>0, <1>5 DEF G_GetSel, desk, MessagesReachWindows
  <2>3. MenuInv'
    BY <1>0, <1>5 DEF G_GetSel, desk, radio, MenuInv, Sent, BeforeSend
  <2> QED
    BY <2>1, <2>2, <2>3 DEF UiInv
<1>6. CASE G_Send
  <2>1. UiTypeOK'
    BY <1>0, <1>6, UiAssumption DEF G_Send, dhcp, touch, manager, desk, UiTypeOK
  <2>2. MessagesReachWindows'
    BY <1>0, <1>6 DEF G_Send, desk, MessagesReachWindows
  <2>3. MenuInv'
    BY <1>0, <1>6, UiAssumption DEF G_Send, UiTypeOK, MenuInv, Sent, BeforeSend
  <2> QED
    BY <2>1, <2>2, <2>3 DEF UiInv
<1>7. CASE G_Delete
  <2>1. UiTypeOK'
    BY <1>0, <1>7 DEF G_Delete, WM_DeleteWindow, dhcp, touch, manager, radio, UiTypeOK
  <2>2. MessagesReachWindows'
    BY <1>0, <1>7 DEF G_Delete, WM_DeleteWindow, MessagesReachWindows
  <2>3. MenuInv'
    BY <1>0, <1>7 DEF G_Delete, radio, MenuInv, Sent, BeforeSend
  <2> QED
    BY <2>1, <2>2, <2>3 DEF UiInv
<1>8. CASE G_Clear
  <2>1. UiTypeOK'
    BY <1>0, <1>8 DEF G_Clear, dhcp, touch, manager, desk, radio, UiTypeOK
  <2>2. MessagesReachWindows'
    BY <1>0, <1>8 DEF G_Clear, desk, MessagesReachWindows
  <2>3. MenuInv'
    BY <1>0, <1>8 DEF G_Clear, radio, MenuInv, Sent, BeforeSend
  <2> QED
    BY <2>1, <2>2, <2>3 DEF UiInv
<1>9. CASE G_DeleteList
  <2>1. UiTypeOK'
    BY <1>0, <1>9 DEF G_DeleteList, WM_DeleteWindow, dhcp, touch, manager, radio,
        UiTypeOK
  <2>2. MessagesReachWindows'
    BY <1>0, <1>9 DEF G_DeleteList, WM_DeleteWindow, MessagesReachWindows
  <2>3. MenuInv'
    BY <1>0, <1>9 DEF G_DeleteList, radio, MenuInv, Sent, BeforeSend
  <2> QED
    BY <2>1, <2>2, <2>3 DEF UiInv
<1>10. CASE G_Resume
  <2>1. UiTypeOK'
    BY <1>0, <1>10 DEF G_Resume, dhcp, touch, manager, desk, UiTypeOK
  <2>2. MessagesReachWindows'
    BY <1>0, <1>10 DEF G_Resume, desk, MessagesReachWindows
  <2>3. MenuInv'
    BY <1>0, <1>10 DEF G_Resume, MenuInv, Sent
  <2> QED
    BY <2>1, <2>2, <2>3 DEF UiInv
<1> QED
  BY <1>1, <1>2, <1>3, <1>4, <1>5, <1>6, <1>7, <1>8, <1>9, <1>10 DEF Menu

(* Every step keeps the invariant.                                         *)
LEMMA UiStep == ASSUME UiInv, [UiNext]_uiVars PROVE UiInv'
<1>0. UiTypeOK /\ MessagesReachWindows /\ MenuInv
  BY DEF UiInv
<1>1. CASE D_Completed
  <2>1. dhcpflag' \in BOOLEAN
    BY <1>1 DEF D_Completed
  <2>2. UiTypeOK'
    BY <1>0, <1>1 DEF D_Completed, UiTypeOK, touch, manager, desk, radio
  <2>3. MessagesReachWindows' /\ MenuInv'
    BY <1>0, <1>1 DEF D_Completed, MessagesReachWindows, MenuInv, Sent, desk, radio
  <2> QED
    BY <2>2, <2>3 DEF UiInv
<1>2. CASE G_Wait
  <2>1. UiTypeOK'
    BY <1>0, <1>2 DEF G_Wait, UiTypeOK, touch, manager, desk, radio, Windows, Buttons
  <2>2. MessagesReachWindows' /\ MenuInv'
    BY <1>0, <1>2 DEF G_Wait, MessagesReachWindows, MenuInv, Sent, BeforeSend, desk,
        radio
  <2> QED
    BY <2>1, <2>2 DEF UiInv
<1>3. CASE S_Receive
  <2>1. UiTypeOK'
    BY <1>0, <1>3, UiAssumption DEF S_Receive, UiTypeOK, dhcp, touch, manager, desk
  <2>2. MessagesReachWindows' /\ MenuInv'
    BY <1>0, <1>3 DEF S_Receive, MessagesReachWindows, MenuInv, Sent, UiTypeOK, desk
  <2> QED
    BY <2>1, <2>2 DEF UiInv
<1>4. CASE UNCHANGED uiVars
  BY <1>4 DEF uiVars, UiInv, UiTypeOK, MessagesReachWindows, MenuInv, Sent, dhcp, touch,
      manager, desk, radio
<1> QED
  BY <1>1, <1>2, <1>3, <1>4, TouchKeeps, ManagerKeeps, MenuKeeps DEF UiNext

(* A change the window manager handles: a button is down after it if the   *)
(* finger is on it now, and a hit is a button that was down.               *)
LEMMA HandleStep ==
    ASSUME UiInv, TouchInv, W_Handle
    PROVE  /\ TouchInv'
           /\ wm' = "test" /\ hit' = "ok" => Backed /\ ~ StateNew.Pressed
<1>0. UiTypeOK /\ CopyInv /\ DownInv /\ wm = "handle"
  BY DEF UiInv, TouchInv, W_Handle
<1>1. /\ down' = DownAfter /\ StateLast' = StateNew /\ StateNew' = StateNew
      /\ pid' = pid /\ since' = SinceAfter
      /\ CHWinLast' = IF StateNew.Pressed THEN Screen2Win(StateNew)
                      ELSE IF StateLast.Pressed THEN None ELSE CHWinLast
      /\ wm' = "x" \/ (wm' = "test" /\ hit' \in Hits)
  BY DEF W_Handle
<1>2. wm' = "test" /\ hit' = "ok" => "ok" \in down /\ ~ StateNew.Pressed
  BY <1>1 DEF Hits
<1>3. wm' = "test" /\ hit' = "ok" => Backed /\ ~ StateNew.Pressed
  BY <1>0, <1>2 DEF DownInv
<1>4. CopyInv'
  <2>1. Seen(pid) \subseteq SinceAfter
    BY <1>0 DEF SinceAfter, CopyInv, Seen
  <2> QED
    BY <1>1, <2>1 DEF CopyInv, Seen
<1>5. ASSUME "ok" \in down' PROVE CHWinLast' = "ok" /\ Backed'
  <2>1. StateNew.Pressed
    <3> SUFFICES ASSUME ~ StateNew.Pressed PROVE FALSE
      OBVIOUS
    <3>1. "ok" \in down /\ "ok" \notin Told
      BY <1>1, <1>5 DEF DownAfter
    <3>2. CHWinLast = "ok" /\ StateLast.Pressed
      BY <1>0, <3>1 DEF DownInv, Backed, OnOk
    <3> QED
      BY <3>1, <3>2 DEF Told, Left, None
  <2>2. Screen2Win(StateNew) = "ok"
    <3>1. CASE "ok" \in down \ Left
      <4>1. CHWinLast = "ok"
        BY <1>0, <3>1 DEF DownInv
      <4> QED
        BY <3>1, <4>1 DEF Left, None
    <3>2. CASE "ok" \notin down \ Left
      BY <1>1, <1>5, <2>1, <3>2 DEF DownAfter
    <3> QED
      BY <3>1, <3>2
  <2>3. OnOk(StateNew)
    BY <1>0, <2>1, <2>2 DEF Screen2Win, OnOk, UiTypeOK, None, Desktop
  <2>4. {"column", "row"} \subseteq since /\ ("finger" \in since \/ "torn" \in since)
    BY <1>0, <2>3 DEF CopyInv, OnOk
  <2>5. ~ (wm' = "test" /\ hit' = "ok")
    BY <1>2, <2>1
  <2>6. since' = since \cup (IF "ok" \in down' \ down
                            THEN { m \in {"mixed"} : "torn" \in since } ELSE {})
    BY <1>1, <1>5, <2>5 DEF SinceAfter
  <2>7. "finger" \in since' \/ "mixed" \in since'
    <3>1. CASE "ok" \in down
      BY <1>0, <2>6, <3>1 DEF DownInv, Backed
    <3>2. CASE "ok" \notin down
      BY <1>5, <2>4, <2>6, <3>2
    <3> QED
      BY <3>1, <3>2
  <2>8. {"column", "row"} \subseteq since'
    BY <2>4, <2>6
  <2>9. OnOk(StateLast')
    BY <1>1, <2>3
  <2> QED
    BY <1>1, <2>1, <2>2, <2>7, <2>8, <2>9 DEF Backed
<1> QED
  BY <1>3, <1>4, <1>5 DEF TouchInv, DownInv

(* A report is stored.                                                     *)
LEMMA ReportStep ==
    ASSUME UiInv, TouchInv, NEW r \in Reports, GUI_PID_StoreState(r)
    PROVE  TouchInv'
<1>1. /\ pid' = r /\ since' = since \cup Seen(r) \cup (IF Copying THEN {"torn"} ELSE {})
      /\ UNCHANGED << wm, StateNew, StateLast, CHWinLast, down >>
  BY DEF GUI_PID_StoreState, manager, desk
<1>2. since \subseteq since' /\ Seen(pid') \subseteq since'
  BY <1>1
<1>3. wm \in {"y", "Pressed"} => "torn" \in since'
  BY <1>1 DEF Copying
<1>4. CopyInv'
  BY <1>1, <1>2, <1>3 DEF TouchInv, CopyInv
<1>5. DownInv'
  BY <1>1, <1>2 DEF TouchInv, DownInv, Backed
<1> QED
  BY <1>4, <1>5 DEF TouchInv

(* A field of the record is copied.                                        *)
LEMMA CopyStep == ASSUME UiInv, TouchInv, W_Copy PROVE TouchInv'
<1>0. UiTypeOK /\ CopyInv /\ DownInv /\ StateNew \in Reports
  BY DEF UiInv, TouchInv, UiTypeOK
<1>1. /\ UNCHANGED << pid, StateLast, CHWinLast, down >>
      /\ since \ {"torn"} \subseteq since' /\ since' \subseteq since
  BY DEF W_Copy, GUI_PID_GetState, desk
<1>2. DownInv'
  BY <1>0, <1>1 DEF DownInv, Backed
<1>3. Seen(pid') \subseteq since'
  BY <1>0, <1>1 DEF CopyInv, Seen
<1>4. CASE GUI_PID_GetState("x", "y")
  <2>1. wm' = "y" /\ StateNew'.x = pid.x
    BY <1>0, <1>4 DEF GUI_PID_GetState, Reports
  <2>2. pid.x = "column" => "column" \in since'
    BY <1>1, <1>3 DEF Seen
  <2> QED
    BY <1>1, <1>2, <1>3, <2>1, <2>2 DEF TouchInv, CopyInv
<1>5. CASE GUI_PID_GetState("y", "Pressed")
  <2>1. /\ wm = "y" /\ wm' = "Pressed" /\ since' = since
        /\ StateNew'.x = StateNew.x /\ StateNew'.y = pid.y
    BY <1>0, <1>5 DEF GUI_PID_GetState, Reports
  <2>2. pid.y = "ok" => "row" \in since'
    BY <1>1, <1>3 DEF Seen
  <2> QED
    BY <1>0, <1>1, <1>2, <1>3, <2>1, <2>2 DEF TouchInv, CopyInv
<1>6. CASE GUI_PID_GetState("Pressed", "handle")
  <2>1. /\ wm = "Pressed" /\ wm' = "handle" /\ since' = since
        /\ StateNew'.x = StateNew.x /\ StateNew'.y = StateNew.y
        /\ StateNew'.Pressed = pid.Pressed
    BY <1>0, <1>6 DEF GUI_PID_GetState, Reports
  <2>2. OnOk(pid) => "finger" \in since'
    BY <1>1, <1>3 DEF Seen
  <2>3. OnOk(StateNew') => "finger" \in since' \/ "torn" \in since'
    BY <1>0, <2>1, <2>2 DEF CopyInv, OnOk
  <2> QED
    BY <1>0, <1>1, <1>2, <1>3, <2>1, <2>3 DEF TouchInv, CopyInv
<1> QED
  BY <1>4, <1>5, <1>6 DEF W_Copy

(* A window is taken away.                                                 *)
LEMMA DeletedStep ==
    ASSUME TouchInv, NEW w, WM_DeleteWindow(w), UNCHANGED << touch, manager >>
    PROVE  TouchInv'
<1>1. UNCHANGED << pid, since, wm, StateNew, StateLast >>
  BY DEF touch, manager
<1>2. CopyInv'
  BY <1>1 DEF TouchInv, CopyInv
<1>3. DownInv'
  BY <1>1 DEF TouchInv, DownInv, Backed, WM_DeleteWindow
<1> QED
  BY <1>2, <1>3 DEF TouchInv

(* Every step: a hit of OK is made by W_Handle only.                       *)
LEMMA TouchStep ==
    ASSUME UiInv, TouchInv, [UiNext]_uiVars
    PROVE  /\ TouchInv'
           /\ wm = "handle" /\ wm' = "test" /\ hit' = "ok"
                => Backed /\ ~ StateNew.Pressed
<1>1. CASE Touch
  <2>1. \A r \in Reports : [r EXCEPT !.Pressed = FALSE] \in Reports
    BY DEF Reports
  <2>2. PICK r \in Reports : GUI_PID_StoreState(r)
    BY <1>1, <2>1 DEF Touch, T_Touch, T_Release, UiInv, UiTypeOK
  <2>3. wm' = wm
    BY <2>2 DEF GUI_PID_StoreState, manager
  <2> QED
    BY <2>2, <2>3, ReportStep
<1>2. CASE W_Copy
  <2>1. wm # "handle"
    BY <1>2 DEF W_Copy, GUI_PID_GetState
  <2> QED
    BY <1>2, <2>1, CopyStep
<1>3. CASE W_Handle
  BY <1>3, HandleStep
<1>4. ASSUME UNCHANGED << pid, since, StateNew, StateLast, CHWinLast, down >>,
             wm' = wm \/ wm' \in {"x", "test", "set"}, wm = "handle" => wm' # "test"
      PROVE  /\ TouchInv'
             /\ wm = "handle" /\ wm' = "test" /\ hit' = "ok"
                  => Backed /\ ~ StateNew.Pressed
  <2>1. CopyInv'
    BY <1>4 DEF TouchInv, CopyInv
  <2>2. DownInv'
    BY <1>4 DEF TouchInv, DownInv, Backed
  <2> QED
    BY <1>4, <2>1, <2>2 DEF TouchInv
<1>5. CASE W_Same \/ W_Test \/ W_Set
  BY <1>4, <1>5 DEF W_Same, W_Test, W_Set, touch, desk
<1>6. CASE D_Completed \/ S_Receive \/ G_Wait \/ UNCHANGED uiVars
  BY <1>4, <1>6 DEF D_Completed, S_Receive, G_Wait, uiVars, touch, manager, desk
<1>7. CASE G_Create("ok", "click") \/ G_Create("click", "list") \/ G_Create("list", "poll")
  BY <1>4, <1>7 DEF G_Create, touch, manager
<1>8. CASE G_GetKey \/ G_GetSel \/ G_Send \/ G_Clear \/ G_Resume
  BY <1>4, <1>8 DEF G_GetKey, G_GetSel, G_Send, G_Clear, G_Resume, touch, manager, desk
<1>9. CASE G_Delete \/ G_DeleteList
  <2>1. wm' = wm
    BY <1>9 DEF G_Delete, G_DeleteList, manager
  <2> QED
    BY <1>9, <2>1, DeletedStep DEF G_Delete, G_DeleteList
<1> QED
  BY <1>1, <1>2, <1>3, <1>5, <1>6, <1>7, <1>8, <1>9 DEF UiNext, Manager, Menu

(* The menu and its windows are always in order.                           *)
LEMMA UiInvariance == UiSpec => []UiInv
  BY UiStart, UiStep, PTL DEF UiSpec

(* The types of the user interface.                                        *)
THEOREM UiTypes == UiSpec => []UiTypeOK
<1>1. UiInv => UiTypeOK
  BY DEF UiInv
<1> QED
  BY <1>1, UiInvariance, PTL

(* The window manager never sends WM_TOUCH to a window that is gone.       *)
THEOREM NoMessageToDeadWindow == UiSpec => []MessagesReachWindows
<1>1. UiInv => MessagesReachWindows
  BY DEF UiInv
<1> QED
  BY <1>1, UiInvariance, PTL

(* The menu sends one station, from a list that is there.                  *)
THEOREM OneStationIsSent == UiSpec => []SelectsOnce
<1>1. UiInv => SelectsOnce
  BY DEF UiInv, MenuInv, SelectsOnce, BeforeSend, UiTypeOK
<1> QED
  BY <1>1, UiInvariance, PTL

(* Each hit of OK has a touch of its own, whatever reports land in a copy  *)
(* of the touch record, are skipped between two looks or find a window     *)
(* gone: a finger that has slid off OK or was on it once does not hit it.  *)
(* Only if the copy that showed the finger was torn may it have been in    *)
(* the column and in the row of OK in two reports.                         *)
THEOREM OkComesFromAFinger == UiSpec => OkWasTouched
<1>1. UiInit => TouchInv
  <2> SUFFICES ASSUME UiInit PROVE TouchInv
    OBVIOUS
  <2>1. pid = AtRest /\ since = Seen(AtRest) /\ wm = "x" /\ down = {}
    BY DEF UiInit
  <2> QED
    BY <2>1 DEF TouchInv, CopyInv, DownInv
<1>2. UiInv /\ TouchInv /\ [UiNext]_uiVars => TouchInv'
  BY TouchStep
<1>3. UiInv /\ TouchInv /\ [UiNext]_uiVars
        => [ wm = "handle" /\ wm' = "test" /\ hit' = "ok" =>
               /\ OnOk(StateLast) /\ ~ StateNew.Pressed
               /\ {"column", "row"} \subseteq since
               /\ "finger" \in since \/ "mixed" \in since ]_uiVars
  BY TouchStep DEF Backed
<1> QED
  BY <1>1, <1>2, <1>3, UiInvariance, PTL DEF UiSpec, OkWasTouched

(* A key is about to be stored only while the buffer is empty: only        *)
(* GUI_GetKey and the clearing of the buffer touch it in between.          *)
BufferFree == wm = "set" => Key = None

LEMMA BufferStep == ASSUME BufferFree, [UiNext]_uiVars PROVE BufferFree'
<1>1. CASE D_Completed \/ Touch \/ G_Wait \/ S_Receive
  <2>1. wm' = wm /\ Key' = Key
    BY <1>1 DEF D_Completed, Touch, T_Touch, T_Release, GUI_PID_StoreState, G_Wait,
        S_Receive, manager
  <2> QED
    BY <2>1 DEF BufferFree
<1>2. CASE W_Copy \/ W_Same \/ W_Handle \/ W_Test \/ W_Set
  BY <1>2 DEF W_Copy, GUI_PID_GetState, W_Same, W_Handle, W_Test, W_Set, BufferFree
<1>3. CASE G_GetKey \/ G_Clear
  BY <1>3 DEF G_GetKey, G_Clear, manager, BufferFree
<1>4. CASE G_GetSel \/ G_Send \/ G_Resume \/ G_Delete \/ G_DeleteList
  BY <1>4 DEF G_GetSel, G_Send, G_Resume, G_Delete, G_DeleteList, manager, BufferFree
<1>5. CASE G_Create("ok", "click") \/ G_Create("click", "list") \/ G_Create("list", "poll")
  BY <1>5 DEF G_Create, manager, BufferFree
<1>6. CASE UNCHANGED uiVars
  BY <1>6 DEF uiVars, manager, BufferFree
<1> QED
  BY <1>1, <1>2, <1>3, <1>4, <1>5, <1>6 DEF UiNext, Manager, Menu

(* A click on OK that is in the buffer is lost in no way: it is taken by   *)
(* the menu, unless a station has been sent before, and the menu that has  *)
(* taken it sends a station, since the queue has room.                     *)
OkIsTaken ==
    [][ /\ Key = "ok" /\ Key' # "ok" => gui' = "getsel" \/ Sent = 1
        /\ gui = "getsel" /\ gui' # gui => gui' = "send"
        /\ gui = "send" /\ gui' # gui => Sent' = 1 ]_uiVars

(* With a key in the buffer, no later key replaces it.                     *)
LEMMA OkTakenStep ==
    ASSUME UiInv, BufferFree, UiNext
    PROVE  /\ Key = "ok" /\ Key' # "ok" => gui' = "getsel" \/ Sent = 1
           /\ gui = "getsel" /\ gui' # gui => gui' = "send"
           /\ gui = "send" /\ gui' # gui => Sent' = 1
<1>0. UiTypeOK /\ MenuInv
  BY DEF UiInv
<1>1. CASE D_Completed \/ Touch \/ S_Receive
  BY <1>1 DEF D_Completed, Touch, T_Touch, T_Release, GUI_PID_StoreState, S_Receive
<1>2. CASE Manager
  BY <1>2 DEF Manager, W_Copy, GUI_PID_GetState, W_Same, W_Handle, W_Test, W_Set,
      BufferFree, None
<1>3. CASE G_Wait \/ G_GetSel \/ G_Resume \/ G_Delete \/ G_DeleteList
  BY <1>3 DEF G_Wait, G_GetSel, G_Resume, G_Delete, G_DeleteList
<1>4. CASE G_Create("ok", "click") \/ G_Create("click", "list") \/ G_Create("list", "poll")
  BY <1>4 DEF G_Create
<1>5. CASE G_GetKey
  <2>1. eGuiState # "SELECT" => Sent = 1
    BY <1>0 DEF MenuInv
  <2> QED
    BY <1>5, <2>1 DEF G_GetKey
<1>6. CASE G_Clear
  <2>1. Sent = 1
    BY <1>0, <1>6 DEF G_Clear, MenuInv, BeforeSend
  <2> QED
    BY <1>6, <2>1 DEF G_Clear
<1>7. CASE G_Send
  <2>1. Sent = 0
    BY <1>0, <1>7 DEF G_Send, MenuInv, BeforeSend, UiTypeOK
  <2>2. queue = 0 /\ shoutcast # "started"
    BY <1>0, <2>1 DEF Sent, UiTypeOK
  <2>3. queue' = 1 /\ shoutcast' = shoutcast
    BY <1>7, <2>2, UiAssumption DEF G_Send
  <2>4. Sent' = 1
    BY <2>2, <2>3 DEF Sent
  <2> QED
    BY <1>7, <2>4 DEF G_Send
<1> QED
  BY <1>1, <1>2, <1>3, <1>4, <1>5, <1>6, <1>7 DEF UiNext, Manager, Menu

(* A click on OK in the buffer is not lost before the menu has taken it,   *)
(* and the menu that took it sends a station: what OkStarts rests on.      *)
THEOREM OkIsNotLost == UiSpec => OkIsTaken
<1>1. UiInit => BufferFree
  BY DEF UiInit, BufferFree
<1>2. BufferFree /\ [UiNext]_uiVars => BufferFree'
  BY BufferStep
<1>3. UiInv /\ BufferFree /\ [UiNext]_uiVars =>
        [ /\ Key = "ok" /\ Key' # "ok" => gui' = "getsel" \/ Sent = 1
          /\ gui = "getsel" /\ gui' # gui => gui' = "send"
          /\ gui = "send" /\ gui' # gui => Sent' = 1 ]_uiVars
  BY OkTakenStep
<1> QED
  BY <1>1, <1>2, <1>3, UiInvariance, PTL DEF UiSpec, OkIsTaken
=============================================================================
