# A TLA+ model of the stream radio

The program (`src/TCPv3`) is an internet radio on an LPC1768: FreeRTOS, lwIP
and uC/GUI, a VS1053 decoder on one SPI bus, and on another a ring buffer for
the stream, made of two serial SRAM chips that share their bus with the touch
panel. This directory holds TLA+ modules of what the radio does and of the
parts of lwIP and uC/GUI it stands on, the configurations TLC checks them with,
and proofs for TLAPS.

Paths below are relative to `src/TCPv3`; `EMAC.c` and `ethernetif.c` are in
`lwip-1.4.0/port/FreeRTOS/ethernetif/LPC17xx`, `sys_arch.c` is in
`lwip-1.4.0/port/FreeRTOS/arch`, lwIP's own files in `lwip-1.4.0/src`.

## Inventory

| Component | State | Operations | Talks to |
|---|---|---|---|
| Audio buffer, `src/external_RAM.c` | `RAM_bufhead`, `RAM_buftail`, the cells of two chips | `RAM_bufput`, `RAM_bufget`, `RAM_buflen`, `RAM_buffree`, `resetbuff`, `SPI1_SetSpeed` | called by shoutcast and VS tasks; DMA channels 0, 2, 3; `xSPI1_Mutex` |
| Shoutcast client, `src/shoutcast.c` (priority 4) | the connection, `flaga`, `DataCounter`, `eState`, `LeftMetaDataFrame`, `mybuf` | connect, read header, receive, take metadata out, suspend and resume the VS task, reconnect | netconn API; the buffer; the VS task's handle; the GUI's queue |
| VS task, `src/Tasks.c`, `VS1053/vs1053.c` (priority 5) | its place in `VS_feed` | take 32 bytes when DREQ is high and more than 32 are there, send them by DMA channel 1 | the buffer, `xSPI1_Mutex`, `xSPI0_Mutex` (nobody else uses it) |
| DMA driver, `src/DMA.c` | channel registers, three binary semaphores | start a transfer, report its end, set up anew | all users of the buses |
| Ethernet driver, `EMAC.c`, `ethernetif.c` | two descriptor rings, `semEthRx`, `semEthTx`, `LastRxProd` | `ENET_IRQHandler`, `low_level_input`, `low_level_output`, `ethernetif_input` | the controller, lwIP's thread |
| lwIP port and thread, `sys_arch.c`, `core/timers.c`, `api/tcpip.c` | mailboxes, semaphores, the list of timeouts | post, fetch, wait; `sys_timeout`, `sys_timeouts_mbox_fetch`; `tcpip_thread` | the netconn API's callers, the Ethernet task, FreeRTOS |
| TCP connections, `api/api_lib.c`, `api/api_msg.c`, `core/tcp.c`, `core/tcp_in.c` | a netconn with its `recvmbox`, the pcbs | new, bind, connect, write, recv, close, delete; segments, resets, timers | shoutcast task, the server |
| DHCP client, `core/dhcp.c` | `struct dhcp`, the interface's address | discover, select, check, renew, rebind, decline, release; two timer functions | called by lwIP's thread and by `vDHCP_TimerCallback` of `main.c` |
| Start-up, `src/main.c` | tasks, mutexes, semaphores, suspended tasks, DHCP timer | `main`, `eth_lwip_init`, the timer's callback | all tasks |
| GUI lock and contexts, `uCGUI/Core/GUITask.c`, `uCGUI/GUI_X/GUI_X_FreeRTOS.c` | `_EntranceCnt`, `_TaskIDLock`, `_Save` | `GUI_Lock`, `GUI_Unlock`, change of the drawing settings | every task that draws |
| Touch-panel task, `src/Tasks.c`, `uCGUI/Core/GUI_PID.c` (priority 3) | samples, one touch record | poll the panel every 10 ms at another bus clock, store a report | `xSPI1_Mutex`, the SPI clock; the window manager |
| GUI task and window manager, `src/Tasks.c`, `uCGUI/WM/WMTouch.c`, `uCGUI/Widget/BUTTON.c`, `uCGUI/Core/GUI_OnKey.c` | windows, `WM__CHWinLast`, one key, `eGuiState` | poll the touch record, send touches, press and release a button, pick a station, resume the shoutcast task | `xListBoxQueue`, the shoutcast task's handle |
| HTTP server, `src/httpserver.c` | a connection | serve a page | netconn API; not started |
| FreeRTOS kernel, the rest of uC/GUI, board support | | | see "Not modelled" |

What is hard here:

* **Tasks that stop each other.** The shoutcast task suspends the VS task, which
  may be anywhere in `VS_feed`. The mutex around the suspension is commented out
  (`shoutcast.c:243,245`): nothing but priorities and two comparisons with 32
  protect the bus and the buffer. It then waits for room in a buffer only the
  suspended task drains.
* **A shared ring without a lock on its pointers.** `RAM_buflen` is called by
  both tasks between any two stores of the other, also between the new head and
  its wrap.
* **Timeouts that go on.** A transfer that is not reported in 500 ms is taken for
  done, the DMA controller is set up anew under running transfers, a token may
  come late, and a channel that had stalled stays enabled and may send later.
* **Interrupts that stand for several events**, in the Ethernet driver, and two
  tasks that send through it without a lock.
* **A byte-counting parser** that must never be off by one, over any division of
  the stream into segments, and that keeps static state over reconnects.
* **Two tasks in a client made for one.** `main.c:166` calls lwIP's DHCP timer
  functions from FreeRTOS's timer task, beside lwIP's thread.
* **A connection with two owners.** Netconn and pcb refer to each other, either
  may go first, and every new connection wants the port of the last.
* **Locks that look before they lock**, in uC/GUI, and a touch record and a key
  buffer that are not locked at all.

What makes each part correct: the buffer is a queue of bytes and `RAM_buflen` is
exact; the decoder starts above the threshold and stops only when less than a
block is left; nobody waits for a task that was stopped; SPI1 carries one
transfer at a time, and the waits without a timeout are answered; exactly the
audio of the stream is put into the buffer; every frame received is delivered
once, every frame accepted is sent; timers neither drift with the order of their
list nor starve; the interface has an address exactly with a lease; what TCP
acknowledged reaches the task whole, no callback comes for a netconn that is
gone, no call hangs and the port comes free; one task at a time draws, with
settings of its own; a click on OK starts one station.

## Modules

| Module | What it is | Extends or instantiates |
|---|---|---|
| `RamRing` | address arithmetic of the buffer, as operators | |
| `Player` | abstract: a level and whether the decoder plays | |
| `Playback` | shoutcast, VS and touch-panel tasks, scheduler, mutex, DMA ends | `RamRing`, `Player` |
| `PlaybackInv`, `MCPlayback` | its inductive invariant; its assumption on the instances | `Playback` |
| `AudioQueue` | abstract: a queue of bytes | |
| `ExternalRam`, `MCExternalRam` | the bytes in the chips through `RAM_bufput` and `RAM_bufget` | `RamRing`, `AudioQueue` |
| `IcyDemux` | `shoutcast()`'s counter and `get_metadata` | |
| `DmaController` | the controller, its handler and `DMA_Config` under both tasks | |
| `EmacRx`, `EmacTx` | the two rings of the Ethernet controller | |
| `Ethernet` | both rings behind the one interrupt handler | `EmacTx`, `EmacRx` |
| `TcpipThread`, `MCTcpipThread` | lwIP's thread, mailbox, callers and timeouts | |
| `Dhcp` | the DHCP client, its two clocks, server and network | |
| `Connection` | shoutcast task, netconn and pcbs | |
| `Display` | abstract: one owner, settings for each task | |
| `GuiLock` | `GUI_Lock`, read by read, and the settings | `Display` |
| `UserInterface` | from the touch record to the station that plays | |
| `PlaybackProofs`, `DmaProofs`, `EmacRxProofs`, `EthernetProofs`, `ConnectionProofs` | proofs about the module of that name (`EthernetProofs` also about `EmacTx` alone) | that module, `TLAPS` |
| `AudioProofs` | proofs about `IcyDemux` and `ExternalRam` | both, `TLAPS` |
| `LwipProofs` | proofs about `Dhcp` and `TcpipThread` | both, `TLAPS` |
| `GuiProofs` | proofs about `GuiLock` and `UserInterface` | both, `TLAPS` |

Where two modules are extended by one, the definitions of one of them have
names of their own: `ExternalRam` has `RamInit`, `RamNext`, `RamSpec`, `Dhcp`
`DhcpInit` and so on, `UserInterface` `UiInit` and so on.

Operators named `Mutant...` are altered copies of the definition that follows
them, with a plausible mistake each; they are used to see that a property fails
when the code is wrong.

### Playback

One action per stretch of code that no other task can see into. `vpc`, `spc` and
`tpc` are the places of the three tasks; a step of the shoutcast or touch-panel
task needs `Cpu(t)`: no ready task has a higher priority, where a task that waits
for `xSPI1_Mutex` lends its priority to the holder. The VS task is the highest
of the three, so it runs as soon as it can; the shoutcast task may be preempted
between any two accesses, so each has its own action (`S_Suspend`, `S_Stop`,
`S_ResetTail`, `S_ResetHead`; `S_Publish`, `S_Wrap`, `S_Give`). `RAM_bufput` is
the actions `S_Lock` to `S_Give`, its six transfer branches folded into "fits
its chip" and "goes on in the other chip". Drawing, LEDs and the UART are left
out, as are the bytes themselves, which `ExternalRam` has.

`dma[i]` is what channel i does: a channel is `"off"` or `"runs"`, and channel 0,
the one with a time-out, may be `"stalled"`: enabled, with no byte on its way
(`DmaStalls`, `DmaGoesOn`). `S_Ch0Timeout` is "No semph ch0": no token in 500 ms,
of a stalled transfer, or of one whose interrupt is late. The code then waits
only for the SSP's BSY (`external_RAM.c:243`), which says nothing of the channel
(`BusIdle`, `S_Late`), moves the head without wrapping it, and calls `DMA_Config`
(`S_DmaConfig`), which swallows the end of a transfer to the decoder when `lost`,
and takes the interrupt of channel 0 but not its enable bit (`DMA.c:33-44`). So a
stalled channel is left enabled when the mutex is given (`"left"`, `"masked"`)
and may send in another task's access (`DmaStrays`).

`stored` counts bytes put and not taken. A header's segment is the one
`RAM_bufput` that does not ask for room (`shoutcast.c:198`): `hdrBytes` counts what
such segments put while the buffer fills, up to one more than `HDRROOM`, the
number a filling buffer has room for; and `overrun` is `"now"` from the moment a
header's bytes make the head pass the tail up to the next `resetbuff`, `"before"`
after it. What happens then is in the model: `RAM_buflen` is wrong, the VS task
may be suspended in `RAM_bufget`, where it keeps the mutex, and each piece put
waits for that mutex in vain (`S_LockTimeout`). The properties say what holds
then and what only before.

### ExternalRam

The same calls with the cells of the chips, one call at a time. A block is read
between two pieces at most (both sides hold the mutex while they move bytes), so
`Get` is enabled outside `RAM_bufput` and at its `cut`. `RAM_bufget` appears
with the two branches it can take; the split ones are dead (`NoSplitRead`).
Each transfer of `RAM_bufput` has its "No semph ch0" branch (`TooLate`, `LateHead`):
the indices advance, any part of the bytes is in the chip, and `stray` says that
the channel may still be enabled, or its token be due: then a later transfer can
be taken for done before it is, and `Stray` writes a cell at any time. `Call` is
also made without asking for room, as for a header. The refinement mapping to
`AudioQueue` reads the queue off the cells between tail and head; `trust` is what
the queue promises of them: everything, after a late transfer their number
(`Damage`), and after a call without room nothing (`Mess`) until the reset.

### IcyDemux

A byte is its place in the stream: below `METAINT` audio, at `METAINT` the length
byte, above it metadata. `Recv` takes a segment of any length, `D_Plain`,
`D_Block` and `D_Rest` are the paths through the switch of `shoutcast()` and the
modes of `get_metadata`, `Put` one wait for room with its `RAM_bufput`. `sent`
lists the indexes of `mybuf` that were put. What was found of the title only
chooses between three modes that go on in the same way. A connection breaks
anywhere (`Disconnect`), and `HeaderFails` is the `netconn_recv` that fails inside the
header's loop (`shoutcast.c:149,203`): the loop over the segments is entered with the
counter of the connection before. `lost` says that the parser is out of step
with the server: after a header that failed, one that was received in pieces, or
one that finds the parser inside a block, since only `DataCounter` starts anew. Then
the length byte it reads is any byte. The next whole header that finds it in
`MODE1` ends this.

### DmaController

The registers the driver writes (`running` the enable bits, `intEnabled` bit 31
of the control words, `tcStat`, `errStat`), the handler access by access (the
`I_` actions), the semaphores as the set `tokens`. The VS task is `V_Feed` to
`V_Done`, `RAM_bufput` is `S_Lock` to `S_Config`, and `DMA_Config` is
`C_Clear` to `C_EnableSecond`, one action for each register of each channel,
since the VS task runs between any two of them. `Thread` says that a pending
interrupt comes first, `VsWaits` that the shoutcast task runs only when the
VS task waits. `Stall` and `GoOn` are a transfer to the memory that moves nothing:
its channel stays enabled, through the time-out and `DMA_Config`, until its next
use or until it goes on. The pointers and addresses of a transfer are left out.

### EmacRx, EmacTx, Ethernet

The controller's side (`Receive`, `Send`) follows the LPC1768's manual as the
driver uses it: equal indices mean empty, and the ring holds one frame less than
it has descriptors. `ENET_IRQHandler` is split at its accesses to `IntStatus`,
`IntClear` and `RxProduceIndex`, because frames land and leave in between. A
pending interrupt is served before a task takes its next step. A frame may land in
each gap; one that lands between `IntClear` and `RxProduceIndex` is counted at once,
and its interrupt then finds equal indices and counts a full round: from then on
`overcount` is set. `low_level_output` is a process of each sender, the TCP/IP thread
and the timer task whose callback calls the DHCP client: `O_Take`, `O_Request`,
`O_Copy`, `O_End`, with `tptr` and `TxProduceIndex` shared (`EMAC.c:350-356,408-415`). Two
senders between `RequestSend` and `CopyToFrame_EMAC_End` set `mixed`; when as many
frames wait as there are descriptors the ring is `Choked`: the indices are equal,
the controller sees nothing to send, and no interrupt comes. `Ethernet` takes
the actions of both: the read of `IntStatus` and the clear are one step of both
rings, so an interrupt for a frame sent also looks at the receive ring.

### TcpipThread

`list` is the delta list with `sys_timeout` as an operator on it: `Due` adds up
the times, `Behind` is how far the loop of `sys_timeout` goes. It starts empty;
`Boot` is `sys_timeouts_init`, which arms one timer after the other before
`tcpip_init` makes the mailbox and the thread, so that until then nobody posts.
`waited` is what `sys_arch_mbox_fetch` will report, 0 made 1 (`sys_arch.c:215`). `T_Fetch` to
`T_ApiLater` are `tcpip_thread` and what it calls, `C_Call`, `C_Post`, `C_Return`
a caller of the netconn API, `Input` is `tcpip_input` from the Ethernet task with
the pool its messages come from. `real`, `early` and `late` are history: how long
each timer has run, what was counted and did not pass, what passed and was not
counted. `T_ApiLater` is a call that TCP answers later.

### Dhcp

Every sending function (`dhcp_discover` ... `dhcp_release`) is `Begin`, then
`Sent`: in between lies `low_level_output`, which may wait, and `p_out` is
taken. `Fine` and `F_...` are `dhcp_fine_tmr` and `dhcp_timeout`, split between
the test of `request_timeout` and its decrement, where the other task may run;
`Coarse` is `dhcp_coarse_tmr`; `Completed` the end of `vDHCP_TimerCallback`;
`R_...` is `dhcp_recv` and `dhcp_arp_reply`. Messages on their way are sets:
one that is lost is never taken out, one that is doubled is taken twice. Once
`p_out` has been taken twice (`clash`) the model stops, since nothing can be
said of a pbuf that was freed; the other properties hold up to there.

### Connection

`task` is the call the shoutcast task is in; the `S_` actions are its calls with
all that `tcpip_thread` does for them at once, and a call that has to wait
(`connecting`, `writing`, `closing`, `deleting`) is answered by a step of the
network or of a timer through `answer` (`op_completed`). A pcb is its state, the
bound port, whether it calls back (`cb`: `callback_arg`, `errf`, `poll`, `sent`;
`rxclosed`: no `recv`), the segments it has acknowledged, and `refused_data`. `N_...`
is `tcp_input`, `tcp_process`, `tcp_slowtmr` and `tcp_fasttmr` by what they do to
a pcb: an answer, a reset, data, FIN, both in a segment, the limits of the slow
timer, the poll that tries a write or a close again, the fast timer that offers
refused data. `kept` says that a limit of the slow timer does not apply: the server
answers the probes of a closed window, so that `nrtx` does not grow (`tcp.c:785-795`),
or sends a segment before each limit; `N_Keeps` turns it on and off at any time.
Where an allocation can fail (`MAXNOMEM`) the code's branch for it is taken, also
`netconn_recv` without a netbuf (`ERR_MEM`, before it looks into `recvmbox`). `netconn_new` that
returns NULL leads to `S_NullBind`: `shoutcast.c:119` writes the time-out through NULL,
and if that does not stop the processor, `netconn_bind` fails every 10 s.
Segments are numbers and `Eof` is the NULL message of a FIN.

### GuiLock and Display

Each read and write of `_EntranceCnt` and `_TaskIDLock` is an action (`L_Read`,
`L_Compare`, `L_Take`, `L_Id`, `L_Count`, `L_Switch`, `U_Count`, `U_Give`), because
both are read before the mutex is there. `L_Switch` is `GUITASK_CopyContext`'s
counterpart: the settings of the task before are put away in `_Save` and the
task's own taken out. `Set` stands for a call that sets (`GUI_SetColor`), `Draw` for
one that draws with the settings (`GUI_DispString`), each inside a lock of its own.
A few calls read the context before they lock (`GUI_SetFont` the font it returns,
`GUI_DispStringHCenterAt` the alignment); those reads are not modelled. `Display` is
what a task that draws may rely on; `owner` is the mutex, `own` the settings each
task made last.

### UserInterface

A point is a column with three windows, or beside it. `T_...` stores a report,
`W_...` is `WM_HandlePID` (the record copied word by word, `handle`, then the
two steps of `GUI_StoreKey` when a button was released where it was pressed),
`G_...` is the menu of `vHeartbeatTask`, `S_Receive` the first call of the
shoutcast task. `WM_DeleteWindow` clears `WM__CHWinLast` and the capture as the window
manager does; `capture` is `WM__hCapture`, which the scroll bar of the list takes.
The touch task may store a report between any two words of a copy. `since` is
history: which reports were seen since OK was hit last (its column, its row, a
finger on it), and whether the copy that pressed OK was torn (`"mixed"`).

## Runs

| Run | Asks | Bounds | States |
|---|---|---|---|
| `playback_safety` | safety invariants of the audio path, and that the tasks implement `Player` | two chips of 4 bytes, blocks of 2, transfers up to 2, segments up to 3, threshold 3, room for one header byte, two faults | 6,359,784 |
| `playback_live` | that room comes (`RoomComes`) and playing goes on (`PlaysAgain`) | the same without faults and without room for header bytes | 559,266 |
| `external_ram` | that the ring is a queue of bytes (`QueueSpec`) | two chips of 3 bytes, blocks of 1, transfers up to 2, calls up to 3, bytes 0 and 1 | 2,725,528 |
| `icy_demux` | that exactly the audio is put, and which wait for room cannot end | interval 6, unit 2, length byte up to 2, segments up to 5, two bytes with the header | 102,037 |
| `dma` | which waits are answered (`ReadIsAnswered`), what alone silences one (`OnlyConfigSilences`), that no block is in use by two (`BlockIsHeld`) | four faults | 60,766 |
| `ethernet` | what alone loses an accepted frame, forgets a sender or miscounts, and that frames are read in the end | 2 and 3 descriptors, two senders | 600,708 |
| `tcpip_thread` | that the list tells the time, timers stay armed and are served, callers find room | periods 1, 2 and 3, a mailbox of 3, a pool of 2 | 76,006 |
| `dhcp` | that the address goes with the lease, how early a message is repeated, that an address comes | both clocks, one try more than the limits, T1 2, T2 3, one refusal or address in use | 289,804 |
| `dhcp_two_clocks` | violation: the assertion at `dhcp.c:1640` | the same | |
| `gui_lock` | exclusion, no waiting for oneself, and that the lock implements `Display` | two tasks, two settings, two nested calls | 6,382 |
| `user_interface` | that touches reach windows there are, that OK was touched, that one station is chosen and the radio starts | three windows, a queue of 2 | 499,364 |
| `connection` | callbacks, pcbs, the stream, and that calls return, the end is noticed, the port comes free | three pcbs, a `recvmbox` of 3, five segments, three failures | 26,606 |

`dhcp` and `dhcp_two_clocks` do not check for deadlock, since the model stops at
a clash, and neither does `icy_demux`, where the task may wait for room that cannot
come; the other runs do.

Why the bounds are enough. In a ring of eight with blocks of two, head and tail
meet every alignment, both borders and every distance; a segment of three is cut
into two pieces and each piece is split at both borders; a threshold of three
leaves the smallest room `HeaderRoom` allows, and header bytes beyond it overrun
the ring after two or three reconnects. Two faults let a channel that has stalled
stray in the access of another task, and a stale token meet a second time-out. In
`external_ram` chips of three bytes with transfers of two split pieces at both
borders and at both places in a call. In `icy_demux` the length byte and each byte
of a block fall on both ends of a segment, and a block lies in one segment or in
several. In `dma` a token can be left over from a transfer that failed and
was set going again, which takes three faults, and meet another `DMA_Config`. In
`ethernet` two senders fill a ring of two, and a ring of three for the receiver has
full rounds and frames in every gap. In `dhcp` both limits on tries are reached
and time-outs are cut where the fine timer has run twice through them. In
`connection` the task reconnects while the pcb of the last connection is in each of
its states, and `recvmbox` fills up. In `user_interface` one station is sent at
most, so that the branch of a full queue is never taken: a queue of 2 says nothing
of it. The proofs remove the bounds for all of the safety properties.

Each module also states a type invariant, which is proved and not listed in the
configurations. `PlaybackInv`'s `IInv` and the other inductive invariants were
checked by TLC before they were proved.

### Where the code goes wrong, and what the properties say of it

Some of what the code does breaks what one would like to say of it. It is in the
model; a history variable says that it has happened, and the properties say what
holds until then and what still holds afterwards.

| What happens | History | What the properties say |
|---|---|---|
| `shoutcast.c:198` puts the header's segment without asking for room: after a few reconnects, or with the VS task stopped, the head passes the tail | `overrun`, `hdrBytes` | `BuflenExact` is false from there to the next reset; from the first overrun on the VS task may be suspended with the mutex of SPI1 (`NeverSuspendedInBufget`); when headers put more than `HDRROOM`, the task can wait for room that only the suspended decoder could make (`NeverWaitsForSuspendedDecoder`). `PlayerSpec` holds through it: a spoilt level may be anything until the player has starved |
| a channel stalls for 500 ms: the mutex is given with the channel enabled | `dma[0]`, `stray`, `trust` | `OneMasterOnSpi1`: it is the only channel that can send without the mutex, and only after such a stall; `QueueSpec`: bytes may be damaged then, their number stays right (after a call without room, as for a header, nothing is, until the reset) |
| `shoutcast.c:513,516`: the parser's state outlives the connection; a header that fails leaves the counter of the one before (`shoutcast.c:149,203`) | `lost` | `PutsTheAudio`: nothing but this takes the parser out of step |
| `shoutcast.c:640,649,681`: the rest of a block is cut again, a negative length becomes a huge unsigned one and the task waits for ever | none needed | `RoomIsPossible`: nothing else but a lost parser asks for room that cannot come |
| `EMAC.c:54`: an interrupt that finds no new frame counts a full ring of them | `overcount` | `ReadsAFrame`, `TokensCountFrames`: nothing else miscounts; `EveryFrameIsRead` holds all the same |
| `ethernetif.c:84`: as many tokens as descriptors; when all are used the controller sees an empty ring | state (`Choked`) | `AcceptedIsInRing`, `WaitIsAnswered`: nothing but this and the next one loses a frame or its token |
| `main.c:166`: the timer task sends while the TCP/IP thread does | `mixed` | as above |
| a report lands while the touch record is copied (`GUI_PID.c:70`): a point that was never touched | `since` | `OkWasTouched`: a hit of OK without a finger on it needs such a copy, with its column from one report and its row from another |
| a server with a closed window, or one that keeps sending, keeps a closing pcb | `kept` | `PortComesFree`: netconn_bind fails for ever only if one is kept for ever |
| the `netconn_new` of `shoutcast.c:118` returns NULL | state (`"null"`) | nothing can be said of a write through NULL; `OneIsLeft` says that the pcbs are never the reason |

One instance is set to where the code is right: with `MAXFAULTS = 1` in
`Playback_live.cfg`, `RoomComes` is violated, because an interrupt of channel 1 that
`DMA_Config` swallows stops the VS task for good.

Two more. `shoutcast.c:197-198` puts `mybuf` and
not `mybuf + HeaderLen`, so header text goes to the decoder and the first audio
is lost (`Header` models it; `PutsTheAudio` speaks of later segments).
`external_RAM.c:104` writes the prescaler of SSP0 where `SPI1_SetSpeed` means
SSP1: after the first poll of the panel the decoder's bus runs at another clock
(`SPI1_SetSpeed` in `Playback`) than the one `vs1053.c:1274` has set.

`dhcp_two_clocks` shows that `vDHCP_TimerCallback` and lwIP's thread make a
message at the same time: the assertion at `dhcp.c:1640` fails. `OnlyConfigSilences` of
`dma` says what is left when a wait goes wrong: when `RAM_bufput` gives up a write while a
block goes to the decoder, `DMA_Config` clears the terminal count or writes the
control word without bit 31, and the VS task's wait without a timeout is never
answered. The same function may leave a token of channel 1 behind; `BlockIsHeld`
shows that the wait for BSY at the end of `VS_feed` keeps that harmless.

## Fairness

* `playback_live`: DMA transfers and delays end; a task that is again and again
  the one to run does run (strong fairness, since a higher task comes and goes);
  and the decoder goes on asking for data, which is strong fairness of `V_Feed`.
  Nothing is assumed of the network: `PlaysAgain` has the arrival of data as its
  premise. Faults are excluded, because a lost channel-1 interrupt does stop
  the VS task for good. Headers without room are not: `RoomComes` and `PlaysAgain`
  name them (`HeadersFit`, `overrun`).
* `ethernet`: a pending interrupt is taken, the handler ends, and the input task
  runs between interrupts again and again (strong fairness: interrupts come and
  go).
* `tcpip_thread`: the thread has the highest priority of the three and runs; time
  passes; a caller comes to run in the end, and a call left to TCP is completed,
  since TCP's timer gives up a connection that does not get on.
* `dhcp`: both tasks and the clock run; a server asked again and again answers
  in time once, and of such answers one is not lost (strong fairness of the
  answer and of its reception). Without that no client gets an address.
* `connection`: the task and lwIP's timers run. Nothing is asked of the server:
  it may fall silent, reset, or close at any time, or keep a closing pcb (`kept`).
  The limits of the slow timer (`N_GivenUp`) have strong fairness, since a server can
  put one off as often as it likes, but a pcb it leaves to its timers again and
  again is given up; that it does so is the premise of `PortComesFree` alone.
* `user_interface`: the scheduler comes back to the window manager, the GUI task
  and the shoutcast task. Nothing is asked of the finger.

## Proofs

`PlaybackProofs` proves for all sizes, through stalls, time-outs and overruns:
type correctness, `NeverSuspendedInBufget`, `BuflenExact`, `NoSplitRead`,
`FlagaTellsTheTruth`, `OneMasterOnSpi1`, and that `Playback` implements `Player`. Only
`NeverWaitsForSuspendedDecoder` and `WaitsAreAnswered` need `HeaderRoom`: the threshold,
`HDRROOM` and one segment fit the ring. The only fact taken about the chips is that
their size is a multiple of a block.

The argument is the inductive invariant `IInv` of `PlaybackInv`. The safety
properties are not inductive: that the VS task is not suspended in `RAM_bufget`
rests on what each task knows at its place (`Feeding`: it has more than a block
before it, the shoutcast task suspends only with less), which needs `BuflenExact`
at every place, which needs that what was asked room for still has it
(`Capacity` with `Reserved`) and where the parts of a piece lie (`PutParts`);
the absence of waiting for oneself needs the level of a buffer that fills
(`FillLevel`), which needs that flag and suspension agree (`Modes`). The lemmas
`AlignedRoom`, `TakeBlock` and `PutPiece` hold all the address arithmetic; there
is a lemma for each group of actions.

`DmaProofs` proves `ReadIsAnswered`, `BlockIsHeld`, `OnlyConfigSilences` and the
types for any number of faults. `DMA_Config` writes back what it read, with the
VS task in between; `WritesBack` says why it writes nothing stale: the shoutcast
task holds the mutex (`MutexTells`), so that only the decoder's channel can run,
and the interrupt is off (`NvicTells`), so that the task waiting for that channel
is still waiting. `ReadInv` says that channel 2 runs or has reported its end
exactly while it is waited for.

For the transmit ring `EthernetProofs` proves for every number of descriptors and of
senders that, until two senders mix their frames and unless the ring is choked, a
frame accepted by `low_level_output` is one the controller sees and a waiting sender
has an interrupt, or another sender's frame, to wait for. Tokens are
lost when one interrupt stands for two frames; the invariant `TokenComes` says why
the last one is not: with no token a frame is on its way into the ring, in it, or
sent with its interrupt to come. `EmacRxProofs` proves, until a full round is
counted for no frame (`overcount`), that tokens count frames and every read finds
an unread one, from the distances of indices round the ring (`RingInv`) and what
the handler knows at each access (`HandlerInv`). `EthernetProofs` shows that the whole
driver implements both rings (`DriverIsBothRings`), takes their invariants over, and
adds that the two halves of the handler go in step.

`ConnectionProofs` proves for any number of pcbs, any `recvmbox` and any number
of failures that callbacks and netconn belong together and that at most one
earlier connection is left. The invariant has a part for each pcb (`PcbInv`), one
for the call the task is in (`CallInv`), and `OnePort`: no two pcbs have the port,
which bounds how many are left. On this rests the stream: `recvmbox` holds the
segments after the last one read and then the end (`HoldsStream`), and what TCP
has acknowledged is that and at most one refused segment (`Tracks`), so nothing
is missing, doubled or out of order (`WholeStream`).

`GuiProofs` proves for any number of tasks, as many entries in `_Save`, any
settings and any nesting that one task is inside, none waits for itself, each
finds its own settings, and that `GuiLock` implements `Display`. `LockInv` is
the argument for the reads outside the mutex: a task that does not hold it
never finds its own id there. For the user interface it proves that no message
goes to a window that was deleted, that one station is sent (`MenuInv`: what has
been sent, and which windows are there, follows from the menu's place), and
that every hit of OK had a touch of its own. `TouchInv` follows the touch through
the record, the copy that is made of it word by word, and the button: a word that
was copied was reported since the last hit, and a copy that was not torn is one
report.

`AudioProofs` proves for any interval of metadata, any unit and length of it, any
segments, breaks and failed headers that `get_metadata` leaves exactly the audio
while it is in step, and that only a cut rest of a block, or a lost parser, waits
for room that cannot come (`OnlyACutRestWaits`). `SyncInv` says what is not inductive in those: between
segments the parser knows the place where the next one starts, by `DataCounter`
in the audio and by `LeftMetaDataFrame` in a block. `PlanInv` says what the calls
of `RAM_bufput` to come will add to the audio put so far. Neither theorem has a
condition on the server: which of its segments, breaks and delays the code
mistakes is part of what they say.

It also proves that `ExternalRam` implements `AudioQueue` for chips of any size
with whole blocks, any largest transfer and calls of up to two transfers, through
every time-out, strayed transfer and call without room.
`RamInv` has four parts: the types; `SpaceInv`, what was asked room for still has
it, and the head is past the end of the ring only before its wrap; `PutInv`, what
is left of `data_in` and where `data` points; `PieceInv`, the part of the piece
that is in the chips already lies behind the head, round the ring, and what is
not fits the chip it goes to. `BlockFits` and `BlockTaken` hold the arithmetic of
`RAM_bufget`. Each step then is one of the queue's (`QueueOffer`, `QueueLose`,
`QueueAppend`, `QueueTake`, `QueueClear`) or changes nothing of it: a transfer that ends
in time writes only where the queue has no byte (`QueueWrite`).

`LwipProofs` proves for the DHCP client that the interface has an address only
with a lease (`ReleaseInv`: a task that gives the lease back has turned the client
off, and no second one gets there), and that two clocks repeat a message not
before half of its time-out. `WaitInv` counts what is left of the time-out, what
has passed, and the calls still owed in this period. `OneClockNeverClashes` is
the other side of `dhcp_two_clocks`: with lwIP's own timers alone (`OneClock`)
the assertion of `dhcp_create_msg` holds, so that it is the second caller that
breaks it.

For the thread it proves, for any timers, periods and callers, that the list
tells the time (`TimeIsAccounted`), that each timer is armed once and the list is
never empty when the thread waits (`TimersAreArmed`), and that a caller finds room
(`PostHasRoom`) if the mailbox holds the pool and a message of each caller
(`MailboxFits`; the program has 10 entries, 8 messages in the pool and at most
two tasks that call). `TcpipInv` is the types, `TimerInv` (the timers and what the
thread has in hand) and `MailInv`: each message of the pool is in the mailbox or
in hand (`Counted`), and a caller who waits is in one place, in the mailbox, in
hand, answered, or left to TCP (`InOnePlace`). The list takes induction, over the
entries: `Due` is a recursive function, and what it is for a list with an entry
more (`TimeoutKeepsTimes`) or one less follows by `UpTo`, an induction on a set of
numbers, which rests on `LeastElement` and the library's `WFMin`.

Liveness itself is out of reach, but what it rests on besides fairness is not: that
whoever waits has an answer coming, and that no step puts it off. `WaitsAreAnswered`
says it of the semaphores and the room of the buffer, and `RoomComesNearer` that the
wait for room ends after as many blocks as are missing, unless the head has passed
the tail.
`CallsAreKnown` says that a call which waits for `op_completed` is in the state in
which the callbacks of its pcb answer it (`WayInv`, for each pcb what the call in
progress expects of it), and `PortComesNearer` that whatever has the port is on its
way out and each segment or timer, but for what the server does to keep it, is one
of at most three steps to its end. The
DHCP client is `NeverAsleep`: without a lease its time-out runs or a task is about to
set it (`TimedInv`; a zero time-out, which `dhcp_fine_tmr` ignores, would be the end).
`TimersAreNotPutOff`: however many messages come, a timer is due no later after a
step than before it, so that what the thread adds to the list delays nobody.
`OkIsNotLost`: a key in the buffer is not overwritten (`BufferFree`), the menu takes
it, and then has room in the queue for the station.

The theorems state all safety properties of the runs, invariants and action
properties, and the three refinements and `DriverIsBothRings`. Their conditions on
the surroundings are few: `HeaderRoom` for the two theorems named above, `RxSizes`
(a receive ring of two descriptors or more), `MailboxFits` for `CallersFindRoom`, and
`OneClock` for `OneClockNeverClashes`.

Only model-checked: liveness (`RoomComes`, `PlaysAgain`, `EveryFrameIsRead`,
`TimersAreServed`, `GetsAnAddress`, `CallsReturn`, `EndIsNoticed`,
`PortComesFree`, `OkStarts`), since fairness and ENABLED are out of the prover's
reach, and what the bounds of the instances leave out of it.

## Not modelled

* **FreeRTOS kernel.** It enters by what the tasks rely on: priorities,
  inheritance by the holder of a mutex, suspension, queues. Its lists and context
  switches are another project.
* **The rest of lwIP.** Of `Connection`: sequence numbers, windows, keepalive, times
  of retransmission (the persist timer enters by `kept`), listening sockets; segments
  and acknowledgements come in order. `StreamIsWhole` is about a connection that
  lives: what `netconn_recv` drops after a reset (`api_lib.c:356-362`) is outside it.
  IP, ARP, UDP, DNS and the SNMP agent are
  left out, and of DHCP the options and the functions nothing calls
  (`dhcp_inform`, `dhcp_reboot`, `dhcp_stop`).
* **The rest of uC/GUI.** Drawing, fonts, bitmaps, JPEG, memory devices and the
  widgets other than the buttons. By far the most lines of the repository are
  here (tables of glyphs such as `GLCD/HzLib.c` and `Font/*.c`, pictures, SNMP's
  tables, register headers): data without behaviour, so that the share of all
  lines that can stand for something in a model is small.
* **HTTP server.** `main` does not start it, and it serves one request at a time
  through the same netconn calls.
* **Stalls of other channels than 0.** The waits for channels 1 and 2 have no
  time-out; a transfer of theirs that moves nothing stops its task, and nothing more
  can be said.
* **Board support, start-up code, console, calibration, the decoder's patch and
  registers.** Register access in one order, with no state a property could be
  about.
* **Filtering of touch samples, drawing of titles, parsing of header fields.**
  Calculations on one task's own data.

## What could come next

Sequence numbers and windows as a refinement of `Connection`'s segments;
FreeRTOS's queue and mutex as a module of their own, with `Playback`'s `Cpu` shown
to follow from it; for the rest of the liveness properties (`PlaysAgain`,
`EndIsNoticed`) a measure that the steps bring down, as `RoomComesNearer` has.
