---------------------------- MODULE UserInterface ----------------------------
(***************************************************************************)
(* From a finger on the touch panel to a playing station.  The touch-panel *)
(* task stores what it samples in one GUI_PID_STATE; the window manager    *)
(* polls that record, sends WM_TOUCH messages to the windows, and a button *)
(* released where it was pressed stores its key; the GUI task polls the    *)
(* one-key buffer, sends the selected station to the shoutcast task, takes *)
(* the menu away and resumes that task.                                    *)
(*                                                                         *)
(* What happens between GUI_Lock and GUI_Unlock is one step, or excludes   *)
(* the other task's locked steps: GuiLock shows that.  The touch record    *)
(* and the key buffer are not under that lock.  The touch-panel task runs  *)
(* above the window manager, so a report can land while the record is      *)
(* being copied, field by field: such a copy is torn.  Points of the       *)
(* screen stand for areas: a column with the windows and one beside them.  *)
(***************************************************************************)
EXTENDS Naturals

CONSTANTS ROWS,       \* rows that are touched, names of windows
          QLEN        \* length of xListBoxQueue, 2

Buttons == {"ok", "click"}
Windows == Buttons \cup {"list"}

ASSUME UiAssumption ==
    /\ ROWS \subseteq Windows /\ ROWS # {}
    /\ QLEN \in Nat \ {0}

None == "none"
Desktop == "desktop"
Reports == [x : {"column", "beside"}, y : ROWS, Pressed : BOOLEAN]

VARIABLES
  dhcpflag, xDhcpCmplSemaphore_1,
  pid,                  \* _State of GUI_PID.c
  wm, StateNew,         \* the window manager: place, its copy of the record
  StateLast, CHWinLast, \* WM_PID__StateLast, WM__CHWinLast
  hit,                  \* the key a button is storing
  windows, down,        \* windows there are, buttons in the pressed state
  capture,              \* WM__hCapture: all touches go to this window
  Key,                  \* _Key of GUI_OnKey.c
  gui, eGuiState,       \* the GUI task: place, state of the menu
  queue,                \* stations in xListBoxQueue
  shoutcast,            \* "suspended", "receive" or "started"
  since                 \* history: what was seen since the last hit of OK,
                        \* and if the copy is torn, or the one with OK pressed

dhcp == << dhcpflag, xDhcpCmplSemaphore_1 >>
touch == << pid, since >>
manager == << wm, StateNew, StateLast, hit >>
desk == << CHWinLast, windows, down, capture >>
radio == << queue, shoutcast >>
uiVars == << dhcp, touch, manager, desk, Key, gui, eGuiState, radio >>

(* A finger on OK, and what a report shows of it: a place in the column,   *)
(* one in the row of OK, the finger itself.                                *)
OnOk(s) == s.Pressed /\ s.x = "column" /\ s.y = "ok"
Seen(s) == (IF s.x = "column" THEN {"column"} ELSE {})
    \cup (IF s.y = "ok" THEN {"row"} ELSE {}) \cup (IF OnOk(s) THEN {"finger"} ELSE {})

AtRest == [x |-> "beside", y |-> CHOOSE r \in ROWS : TRUE, Pressed |-> FALSE]

(* main and GUI_Init.                                                      *)
UiInit ==
    /\ dhcpflag = FALSE /\ xDhcpCmplSemaphore_1 = 0
    /\ pid = AtRest /\ since = Seen(AtRest)
    /\ wm = "x" /\ StateNew = AtRest /\ StateLast = AtRest /\ hit = None
    /\ windows = {} /\ down = {} /\ CHWinLast = None /\ capture = None
    /\ Key = None
    /\ gui = "wait" /\ eGuiState = "SELECT"
    /\ queue = 0 /\ shoutcast = "suspended"

(* vDHCP_TimerCallback, once there is an address.                          *)
D_Completed ==
    /\ ~ dhcpflag
    /\ dhcpflag' = TRUE
    /\ xDhcpCmplSemaphore_1' = 1
    /\ UNCHANGED << touch, manager, desk, Key, gui, eGuiState, radio >>

(***************************************************************************)
(* The touch-panel task.  A report that differs from the last one is       *)
(* stored; a release keeps the coordinates of the touch.                   *)
(***************************************************************************)
Copying == wm \in {"y", "Pressed"}

GUI_PID_StoreState(s) ==
    /\ s # pid
    /\ pid' = s
    /\ since' = since \cup Seen(s) \cup (IF Copying THEN {"torn"} ELSE {})
    /\ UNCHANGED << dhcp, manager, desk, Key, gui, eGuiState, radio >>

T_Touch == \E s \in Reports : s.Pressed /\ GUI_PID_StoreState(s)
T_Release == GUI_PID_StoreState([pid EXCEPT !.Pressed = FALSE])

(***************************************************************************)
(* The window manager: WM_HandlePID.  Its task has the lowest priority: it *)
(* runs while the GUI task waits for the address, for its next poll or for *)
(* the lock.                                                               *)
(***************************************************************************)
Unlocked == wm \notin {"test", "set"}

ManagerRuns == \/ gui \in {"wait", "poll"}
               \/ gui \in Windows \cup {"getsel", "delete", "list_"} /\ ~ Unlocked

(* GUI_PID_GetState copies three words without the lock.                   *)
GUI_PID_GetState(field, next) ==
    /\ ManagerRuns /\ wm = field
    /\ StateNew' = [StateNew EXCEPT ![field] = pid[field]]
    /\ wm' = next
    /\ since' = IF field = "x" THEN since \ {"torn"} ELSE since
    /\ UNCHANGED << dhcp, pid, StateLast, hit, desk, Key, gui, eGuiState, radio >>

W_Copy == \/ GUI_PID_GetState("x", "y") \/ GUI_PID_GetState("y", "Pressed")
          \/ GUI_PID_GetState("Pressed", "handle")

(* The window at a point, or the one with the capture.                     *)
Screen2Win(s) ==
    IF capture # None THEN capture
    ELSE IF s.x = "column" /\ s.y \in windows THEN s.y ELSE Desktop

(* Nothing has changed since the last poll.                                *)
W_Same ==
    /\ ManagerRuns /\ wm = "handle"
    /\ StateNew = StateLast
    /\ wm' = "x"
    /\ UNCHANGED << dhcp, touch, StateNew, StateLast, hit, desk, Key, gui, eGuiState, radio >>

(* The window left and the window at the point, if a finger is or was down.*)
Left == IF CHWinLast # Screen2Win(StateNew) THEN {CHWinLast} \ {None} ELSE {}
Told == IF StateLast.Pressed \/ StateNew.Pressed
        THEN Left \cup {Screen2Win(StateNew)} ELSE {}

(* BUTTON _OnTouch: released while pressed is a hit, moved out is not.     *)
Hits == IF StateNew.Pressed THEN {} ELSE down \cap Told

(* Mutant: a button does not react when the finger has moved out.          *)
MutantStaysDown ==
    IF StateNew.Pressed THEN down \cup ({Screen2Win(StateNew)} \cap Buttons)
    ELSE down \ Told

DownAfter ==
    IF StateNew.Pressed THEN (down \ Left) \cup ({Screen2Win(StateNew)} \cap Buttons)
    ELSE down \ Told

(* SCROLLBAR _OnTouch: a finger on the scroll bar of the list captures all *)
(* touches until it is lifted.                                             *)
CaptureAfter ==
    IF StateNew.Pressed
    THEN {capture} \cup ({Screen2Win(StateNew)} \cap {"list"})
    ELSE IF StateLast.Pressed THEN {None} ELSE {capture}

(* History: a hit of OK begins it anew; "mixed" while OK is down from a    *)
(* torn copy.                                                              *)
SinceAfter ==
    ((IF wm' = "test" /\ hit' = "ok" THEN Seen(pid) ELSE since)
        \ (IF "ok" \in down' THEN {} ELSE {"mixed"}))
    \cup (IF "ok" \in down' \ down THEN { m \in {"mixed"} : "torn" \in since } ELSE {})

(* The messages of a change, sent under the lock; a hit goes on to store   *)
(* its key before the lock is given back.                                  *)
W_Handle ==
    /\ ManagerRuns /\ wm = "handle"
    /\ StateNew # StateLast
    /\ down' = DownAfter
    /\ capture' \in CaptureAfter
    /\ CHWinLast' = IF StateNew.Pressed THEN Screen2Win(StateNew)
                    ELSE IF StateLast.Pressed THEN None ELSE CHWinLast
    /\ StateLast' = StateNew
    /\ IF Hits = {} THEN wm' = "x" /\ UNCHANGED hit
       ELSE wm' = "test" /\ \E b \in Hits : hit' = b
    /\ since' = SinceAfter
    /\ UNCHANGED << dhcp, pid, StateNew, windows, Key, gui, eGuiState, radio >>

(* Mutant: a key that waits is overwritten.                                *)
MutantOverwrites ==
    /\ ManagerRuns /\ wm = "test"
    /\ wm' = "set"
    /\ UNCHANGED << dhcp, touch, StateNew, StateLast, hit, desk, Key, gui, eGuiState, radio >>

(* GUI_StoreKey: the buffer holds one key, tested and set without regard   *)
(* to the task that reads it.                                              *)
W_Test ==
    /\ ManagerRuns /\ wm = "test"
    /\ wm' = IF Key = None THEN "set" ELSE "x"
    /\ UNCHANGED << dhcp, touch, StateNew, StateLast, hit, desk, Key, gui, eGuiState, radio >>

W_Set ==
    /\ ManagerRuns /\ wm = "set"
    /\ Key' = hit
    /\ wm' = "x"
    /\ UNCHANGED << dhcp, touch, StateNew, StateLast, hit, desk, gui, eGuiState, radio >>

(***************************************************************************)
(* The GUI task, vHeartbeatTask.                                            *)
(***************************************************************************)
G_Wait ==
    /\ gui = "wait"
    /\ xDhcpCmplSemaphore_1 > 0
    /\ xDhcpCmplSemaphore_1' = 0
    /\ gui' = "ok"
    /\ UNCHANGED << dhcpflag, touch, manager, desk, Key, eGuiState, radio >>

(* BUTTON_CreateEx, LISTBOX_CreateEx: one after the other.                 *)
G_Create(w, next) ==
    /\ gui = w /\ Unlocked
    /\ windows' = windows \cup {w}
    /\ gui' = next
    /\ UNCHANGED << dhcp, touch, manager, CHWinLast, down, capture >>
    /\ UNCHANGED << Key, eGuiState, radio >>

(* GUI_GetKey; the key of CLICK only draws, so does any key once playing.  *)
G_GetKey ==
    /\ gui = "poll"
    /\ Key' = None
    /\ gui' = IF eGuiState = "SELECT" /\ Key = "ok" THEN "getsel" ELSE "poll"
    /\ UNCHANGED << dhcp, touch, manager, desk, eGuiState, radio >>

(* LISTBOX_GetSel; the list has a selection from the beginning.            *)
G_GetSel ==
    /\ gui = "getsel" /\ Unlocked
    /\ gui' = "send"
    /\ UNCHANGED << dhcp, touch, manager, desk, Key, eGuiState, radio >>

(* Mutant: the menu is kept when the station was sent.                     *)
MutantMenuStays ==
    /\ gui = "send"
    /\ queue' = IF queue < QLEN THEN queue + 1 ELSE queue
    /\ gui' = "resume"
    /\ UNCHANGED << dhcp, touch, manager, desk, Key, eGuiState, shoutcast >>

(* xQueueSendToBack: with a full queue the menu stays.                     *)
G_Send ==
    /\ gui = "send"
    /\ IF queue < QLEN THEN queue' = queue + 1 /\ gui' = "delete"
       ELSE gui' = "resume" /\ UNCHANGED queue
    /\ UNCHANGED << dhcp, touch, manager, desk, Key, eGuiState, shoutcast >>

(* Mutant: the window's critical handle is not reset.                      *)
MutantHandleKept(w) ==
    /\ windows' = windows \ {w}
    /\ down' = down \ {w}
    /\ capture' = IF capture = w THEN None ELSE capture
    /\ CHWinLast' = CHWinLast

(* WM_DeleteWindow, which resets the critical handles to the window, and   *)
(* the capture of its scroll bar.                                          *)
WM_DeleteWindow(w) ==
    /\ windows' = windows \ {w}
    /\ down' = down \ {w}
    /\ capture' = IF capture = w THEN None ELSE capture
    /\ CHWinLast' = IF CHWinLast = w THEN None ELSE CHWinLast

(* BUTTON_Delete.                                                          *)
G_Delete ==
    /\ gui = "delete" /\ Unlocked
    /\ WM_DeleteWindow("ok")
    /\ gui' = "clear"
    /\ UNCHANGED << dhcp, touch, manager, Key, eGuiState, radio >>

(* GUI_ClearKeyBuffer reads keys until there is none.                      *)
G_Clear ==
    /\ gui = "clear"
    /\ Key' = None
    /\ gui' = IF Key = None THEN "list_" ELSE "clear"
    /\ UNCHANGED << dhcp, touch, manager, desk, eGuiState, radio >>

(* LISTBOX_Delete; the menu is left.                                       *)
G_DeleteList ==
    /\ gui = "list_" /\ Unlocked
    /\ WM_DeleteWindow("list")
    /\ eGuiState' = "PLAYING"
    /\ gui' = "resume"
    /\ UNCHANGED << dhcp, touch, manager, Key, radio >>

(* Whatever became of the station, the shoutcast task is resumed.          *)
G_Resume ==
    /\ gui = "resume"
    /\ shoutcast' = IF shoutcast = "suspended" THEN "receive" ELSE shoutcast
    /\ gui' = "poll"
    /\ UNCHANGED << dhcp, touch, manager, desk, Key, eGuiState, queue >>

(* The shoutcast task waits for the station.                               *)
S_Receive ==
    /\ shoutcast = "receive"
    /\ queue > 0
    /\ queue' = queue - 1
    /\ shoutcast' = "started"
    /\ UNCHANGED << dhcp, touch, manager, desk, Key, gui, eGuiState >>

Touch == T_Touch \/ T_Release
Manager == W_Copy \/ W_Same \/ W_Handle \/ W_Test \/ W_Set
Menu == \/ G_Create("ok", "click") \/ G_Create("click", "list") \/ G_Create("list", "poll")
        \/ G_GetKey \/ G_GetSel \/ G_Send
        \/ G_Delete \/ G_Clear \/ G_DeleteList \/ G_Resume
UiNext == D_Completed \/ Touch \/ Manager \/ G_Wait \/ Menu \/ S_Receive

UiSpec == UiInit /\ [][UiNext]_uiVars

(* The scheduler comes back to every task that can go on: the GUI task     *)
(* when its delay is over or the lock is free, the window manager while    *)
(* the GUI task sleeps.                                                    *)
UiLiveSpec ==
    /\ UiSpec
    /\ WF_uiVars(Manager) /\ WF_uiVars(G_Wait) /\ WF_uiVars(Menu)
    /\ WF_uiVars(S_Receive)

-----------------------------------------------------------------------------
UiTypeOK ==
    /\ dhcpflag \in BOOLEAN /\ xDhcpCmplSemaphore_1 \in 0 .. 1
    /\ pid \in Reports /\ StateNew \in Reports /\ StateLast \in Reports
    /\ wm \in {"x", "y", "Pressed", "handle", "test", "set"}
    /\ hit \in Buttons \cup {None} /\ Key \in Buttons \cup {None}
    /\ windows \subseteq Windows /\ down \subseteq Buttons
    /\ CHWinLast \in Windows \cup {None, Desktop}
    /\ gui \in Windows \cup {"wait", "poll", "getsel", "send", "delete", "clear",
                             "list_", "resume"}
    /\ eGuiState \in {"SELECT", "PLAYING"}
    /\ queue \in 0 .. QLEN
    /\ shoutcast \in {"suspended", "receive", "started"}
    /\ capture \in {None, "list"}
    /\ since \subseteq {"column", "row", "finger", "torn", "mixed"}

(* WMTouch.c keeps WM__CHWinLast and WM__hCapture between polls while the  *)
(* GUI task deletes windows: the next WM_TOUCH does not go to a window     *)
(* that is gone.                                                           *)
MessagesReachWindows ==
    CHWinLast \in windows \cup {None, Desktop} /\ capture \in windows \cup {None}

(* "React only if button was pressed before" (BUTTON.c:231): a hit of OK   *)
(* has a touch of its own.  The window manager saw it with its last look   *)
(* before and sees it ended now, and since the hit before, the touch panel *)
(* has reported a finger on OK; or else the copy that showed it was torn,  *)
(* and a place in the column and one in the row of OK were both reported.  *)
OkWasTouched ==
    [][ wm = "handle" /\ wm' = "test" /\ hit' = "ok" =>
          /\ OnOk(StateLast) /\ ~ StateNew.Pressed
          /\ {"column", "row"} \subseteq since
          /\ "finger" \in since \/ "mixed" \in since ]_uiVars

(* One station is sent, and while one is being chosen the list is there to *)
(* be asked for it.                                                        *)
Sent == queue + (IF shoutcast = "started" THEN 1 ELSE 0)
SelectsOnce ==
    /\ Sent <= 1
    /\ gui \in {"getsel", "send"} => Sent = 0 /\ "list" \in windows

(* A click on OK starts the radio, whatever else is touched meanwhile.     *)
OkStarts == Key = "ok" /\ eGuiState = "SELECT" ~> shoutcast = "started"
=============================================================================
