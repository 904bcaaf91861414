------------------------------ MODULE Playback ------------------------------
(***************************************************************************)
(* The audio path of the radio: the shoutcast task ("sc", priority 4) puts *)
(* the bytes of the stream into the audio buffer, the VS task ("vs",       *)
(* priority 5) takes blocks out of it and feeds the VS1053 decoder, and    *)
(* the touch-panel task ("tp", priority 3) shares the SPI1 bus with both.  *)
(*                                                                         *)
(* The shoutcast task suspends the VS task when the buffer runs empty and  *)
(* resumes it when the buffer is filled above a threshold.  The mutex that *)
(* would have kept the two apart is commented out in the code              *)
(* (shoutcast.c:243,245), so the design stands on the priorities of the    *)
(* tasks and on the two comparisons with 32; this module is where that     *)
(* argument is checked.                                                    *)
(*                                                                         *)
(* Steps end where a task can lose the processor to another one that sees  *)
(* what it wrote: the VS task is the highest of the three and only yields  *)
(* where it blocks, the shoutcast task can be preempted between any two    *)
(* accesses to shared data.                                                *)
(***************************************************************************)
EXTENDS RamRing

CONSTANTS TRESH,        \* buffer_tresh, the level at which playing starts
          MAXCHUNK,     \* bytes one netconn_recv returns, at most
          HDRROOM,      \* header bytes a filling buffer has room for
          MAXFAULTS     \* bound: transfers that stall, waits that time out

ASSUME PlaybackAssumption ==
    /\ TRESH \in Nat /\ TRESH >= BLOCK
    /\ MAXCHUNK \in Nat \ {0}
    /\ HDRROOM \in Nat
    /\ MAXFAULTS \in Nat

(* Prescalers of the SSP blocks; SPI0_SetSpeed and SPI1_SetSpeed clear bit *)
(* 0 and never go below 2.                                                 *)
SPI_2MHz == 50
SPI_11MHz == 9
SPI_16MHz == 6
Prescaler(speed) == IF speed < 2 THEN 2 ELSE speed - (speed % 2)

VARIABLES
  head, tail,           \* RAM_bufhead, RAM_buftail
  flaga,                \* "PLAY" or "STOP"
  suspended,            \* the VS task is suspended
  mutex,                \* holder of xSPI1_Mutex
  sem,                  \* xDMAch0..2_Semaphore, binary
  dma,                  \* what channel i of the DMA does (see DmaStates)
  ssp0,                 \* LPC_SSP0->CPSR, clock of the decoder's bus
  vpc, vtail,           \* VS task: place, local copy of tail
  spc,                  \* shoutcast task: place
  phase,                \* "header" or "stream": which loop calls RAM_bufput
  todo, post,           \* len_in of this RAM_bufput, length of a second one
  shead, piece, written,\* RAM_bufput's head, len, written_data
  tpc,                  \* touch-panel task: place
  stored,               \* history: bytes put minus bytes taken since reset
  overrun,              \* history: head has passed tail (see OverrunStates)
  hdrBytes,             \* history: bytes put by headers since the last chunk
  faults                \* history: transfers that stalled, waits that timed out

ring   == << head, tail, stored, overrun >>
kernel == << mutex, sem, dma >>
vs     == << vpc, vtail >>
put    == << shead, piece, written >>
sc     == << spc, phase, todo, post, hdrBytes >>
vars   == << ring, kernel, vs, put, sc, flaga, suspended, ssp0, tpc, faults >>

Tasks == {"vs", "sc", "tp"}

(* A channel is off, moves bytes, or is enabled and moves none.  Channel 0 *)
(* can stay enabled when its task has gone on: then it may still send, and *)
(* report its end or, after DMA_Config, send without a report.             *)
DmaStates == {"off", "runs", "stalled", "left", "masked"}

(* Whether head has passed tail: never, since the last reset, before it.   *)
OverrunStates == {"never", "now", "before"}

buflen == RAM_buflen(head, tail)
buffree == RAM_buffree(head, tail)

(***************************************************************************)
(* The FreeRTOS scheduler: the ready task of the highest priority runs; a  *)
(* task that blocks on a mutex lends its priority to the holder.           *)
(***************************************************************************)
VsReady == /\ ~suspended
           /\ \/ vpc = "check"
              \/ vpc = "lock" /\ mutex = "none"
              \/ vpc = "ch2" /\ sem[2] = 1
              \/ vpc = "ch1" /\ sem[1] = 1

ScReady == \/ spc \in {"empty", "suspend", "stop", "rtail", "rhead", "demux",
                       "bsy", "wrap", "late", "config", "give", "tresh",
                       "resume", "play"}
           \/ spc = "room" /\ (buffree < 0 \/ buffree >= todo)
           \/ spc = "lock" /\ mutex = "none"
           \/ spc = "ch0" /\ sem[0] = 1

TpReady == tpc = "exec" \/ (tpc = "lock" /\ mutex = "none")

Ready(t) == CASE t = "vs" -> VsReady [] t = "sc" -> ScReady [] t = "tp" -> TpReady

VsWaitsForMutex == vpc = "lock" /\ ~suspended
Prio(t) == IF t = "vs" \/ (mutex = t /\ VsWaitsForMutex) THEN 5
           ELSE IF t = "sc" \/ (mutex = t /\ spc = "lock") THEN 4 ELSE 3

Cpu(t) == \A u \in Tasks \ {t} : Ready(u) => Prio(u) <= Prio(t)

(* DMA_IRQHandler: the end of a transfer gives the channel's semaphore.    *)
DmaDone(ch) ==
    /\ dma[ch] = "runs"
    /\ dma' = [dma EXCEPT ![ch] = "off"]
    /\ sem' = [sem EXCEPT ![ch] = 1]
    /\ UNCHANGED << ring, mutex, vs, put, sc, flaga, suspended, ssp0, tpc, faults >>

(* The transfer to the memory stops moving: the channel stays enabled, the *)
(* bus falls silent; it may go on later.                                   *)
DmaStalls ==
    /\ dma[0] = "runs"
    /\ faults < MAXFAULTS
    /\ faults' = faults + 1
    /\ dma' = [dma EXCEPT ![0] = "stalled"]
    /\ UNCHANGED << ring, mutex, sem, vs, put, sc, flaga, suspended, ssp0, tpc >>

DmaGoesOn ==
    /\ dma[0] = "stalled"
    /\ dma' = [dma EXCEPT ![0] = "runs"]
    /\ UNCHANGED << ring, mutex, sem, vs, put, sc, flaga, suspended, ssp0, tpc, faults >>

(* A channel left enabled sends what it had left, whoever has the bus now. *)
DmaStrays ==
    /\ dma[0] \in {"left", "masked"}
    /\ dma' = [dma EXCEPT ![0] = "off"]
    /\ sem' = [sem EXCEPT ![0] = IF dma[0] = "left" THEN 1 ELSE sem[0]]
    /\ UNCHANGED << ring, mutex, vs, put, sc, flaga, suspended, ssp0, tpc, faults >>

(***************************************************************************)
(* The VS task: vVsTask and VS_feed.                                       *)
(***************************************************************************)
(* The 20 ms of vTaskDelay are over (Tasks.c:68).                          *)
V_Wake ==
    /\ vpc = "delay" /\ ~suspended
    /\ vpc' = "check"
    /\ UNCHANGED << ring, kernel, vtail, put, sc, flaga, suspended, ssp0, tpc, faults >>

(* DREQ is high and there is more than a block (vs1053.c:1304-1307).       *)
EnoughToFeed == buflen > BLOCK

V_Feed ==
    /\ vpc = "check" /\ ~suspended
    /\ EnoughToFeed
    /\ vpc' = "lock"
    /\ UNCHANGED << ring, kernel, vtail, put, sc, flaga, suspended, ssp0, tpc, faults >>

(* DREQ is low, or the buffer holds too little (vs1053.c:1304,1309).       *)
V_Idle ==
    /\ vpc = "check" /\ ~suspended
    /\ vpc' = "delay"
    /\ UNCHANGED << ring, kernel, vtail, put, sc, flaga, suspended, ssp0, tpc, faults >>

(* RAM_bufget gets the mutex, reads tail and starts the transfer.          *)
V_Lock ==
    /\ vpc = "lock" /\ ~suspended
    /\ mutex = "none"
    /\ mutex' = "vs"
    /\ vtail' = tail
    /\ dma' = [dma EXCEPT ![2] = "runs"]
    /\ vpc' = "ch2"
    /\ UNCHANGED << ring, sem, put, sc, flaga, suspended, ssp0, tpc, faults >>

(* "bufget mutex timeout": VS_feed sends the buffer as it is.              *)
V_LockTimeout ==
    /\ vpc = "lock" /\ ~suspended
    /\ mutex # "none"
    /\ faults < MAXFAULTS
    /\ faults' = faults + 1
    /\ dma' = [dma EXCEPT ![1] = "runs"]
    /\ vpc' = "ch1"
    /\ UNCHANGED << ring, mutex, sem, vtail, put, sc, flaga, suspended, ssp0, tpc >>

(* The block has arrived: move tail, release SPI1, send it to the decoder. *)
V_Got ==
    /\ vpc = "ch2" /\ ~suspended
    /\ sem[2] = 1
    /\ sem' = [sem EXCEPT ![2] = 0]
    /\ tail' = NextTail(vtail, BLOCK)
    /\ stored' = IF overrun = "now" THEN 0 ELSE stored - BLOCK
    /\ mutex' = "none"
    /\ dma' = [dma EXCEPT ![1] = "runs"]
    /\ vpc' = "ch1"
    /\ UNCHANGED << head, overrun, vtail, put, sc, flaga, suspended, ssp0, tpc,
                    faults >>

(* The decoder has the block; look again.                                  *)
V_Sent ==
    /\ vpc = "ch1" /\ ~suspended
    /\ sem[1] = 1
    /\ sem' = [sem EXCEPT ![1] = 0]
    /\ vpc' = "check"
    /\ UNCHANGED << ring, mutex, dma, vtail, put, sc, flaga, suspended, ssp0, tpc, faults >>

(***************************************************************************)
(* The shoutcast task: connection and header.                              *)
(***************************************************************************)
(* netconn_new .. netconn_write and the pause of 4 s (shoutcast.c:118-147).*)
S_Connect ==
    /\ spc = "connect" /\ Cpu("sc")
    /\ spc' = "header"
    /\ UNCHANGED << ring, kernel, vs, put, phase, todo, post, hdrBytes,
                    flaga, suspended, ssp0, tpc, faults >>

(* What headers have put into a filling buffer, counted up to HDRROOM + 1. *)
HeaderBytes(n) ==
    IF flaga = "PLAY" THEN hdrBytes
    ELSE IF hdrBytes + n > HDRROOM THEN HDRROOM + 1 ELSE hdrBytes + n

(* The segment with the end of the header carries n bytes of stream, put   *)
(* into the buffer without asking for room (shoutcast.c:194-199).          *)
S_Header(n) ==
    /\ spc = "header" /\ Cpu("sc")
    /\ hdrBytes' = HeaderBytes(n)
    /\ phase' = "header"
    /\ todo' = n
    /\ post' = 0
    /\ spc' = IF n = 0 THEN "recv" ELSE "lock"
    /\ UNCHANGED << ring, kernel, vs, put, flaga, suspended, ssp0, tpc, faults >>

(* netconn_recv fails before the header is complete: the code goes on to   *)
(* the loop over the segments all the same (shoutcast.c:149-202).          *)
S_HeaderFails ==
    /\ spc = "header" /\ Cpu("sc")
    /\ spc' = "recv"
    /\ UNCHANGED << ring, kernel, vs, put, phase, todo, post, hdrBytes,
                    flaga, suspended, ssp0, tpc, faults >>

(* netconn_recv fails: the connection is given up and made anew            *)
(* (shoutcast.c:303-319).  Buffer, flaga and the VS task stay as they are. *)
S_Disconnect ==
    /\ spc = "recv" /\ Cpu("sc")
    /\ spc' = "connect"
    /\ UNCHANGED << ring, kernel, vs, put, phase, todo, post, hdrBytes,
                    flaga, suspended, ssp0, tpc, faults >>

(***************************************************************************)
(* The shoutcast task: the loop over the segments of the stream.           *)
(***************************************************************************)
S_Recv(n) ==
    /\ spc = "recv" /\ Cpu("sc")
    /\ phase' = "stream"
    /\ todo' = n
    /\ spc' = "empty"
    /\ UNCHANGED << ring, kernel, vs, put, post, hdrBytes,
                    flaga, suspended, ssp0, tpc, faults >>

(* Mutant: the buffer counts as empty below two blocks.                    *)
MutantEmptyTwoBlocks == buflen < 2 * BLOCK /\ flaga = "PLAY"

(* "Bufor jest pusty - zatrzymaj zadanie VS" (shoutcast.c:241).            *)
BufferRanEmpty == buflen < BLOCK /\ flaga = "PLAY"

S_Empty ==
    /\ spc = "empty" /\ Cpu("sc")
    /\ spc' = IF BufferRanEmpty THEN "suspend" ELSE "demux"
    /\ UNCHANGED << ring, kernel, vs, put, phase, todo, post, hdrBytes,
                    flaga, suspended, ssp0, tpc, faults >>

(* vTaskSuspend(xVsTskHandle), wherever the VS task is blocked.            *)
S_Suspend ==
    /\ spc = "suspend" /\ Cpu("sc")
    /\ suspended' = TRUE
    /\ spc' = "stop"
    /\ UNCHANGED << ring, kernel, vs, put, phase, todo, post, hdrBytes,
                    flaga, ssp0, tpc, faults >>

(* Mutant: flaga is not set when the VS task is suspended.                 *)
MutantStopForgets ==
    /\ spc = "stop" /\ Cpu("sc")
    /\ spc' = "rtail"
    /\ UNCHANGED << ring, kernel, vs, put, phase, todo, post, hdrBytes,
                    flaga, suspended, ssp0, tpc, faults >>

S_Stop ==
    /\ spc = "stop" /\ Cpu("sc")
    /\ flaga' = "STOP"
    /\ spc' = "rtail"
    /\ UNCHANGED << ring, kernel, vs, put, phase, todo, post, hdrBytes,
                    suspended, ssp0, tpc, faults >>

(* Mutant: the buffer is emptied by moving tail up to head.                *)
MutantTailToHead ==
    /\ spc = "rtail" /\ Cpu("sc")
    /\ tail' = head % RAM_BUFSIZE
    /\ stored' = 0
    /\ spc' = "demux"
    /\ UNCHANGED << head, overrun, kernel, vs, put, phase, todo, post, hdrBytes,
                    flaga, suspended, ssp0, tpc, faults >>

(* resetbuff: tail first, then head.                                       *)
S_ResetTail ==
    /\ spc = "rtail" /\ Cpu("sc")
    /\ tail' = 0
    /\ spc' = "rhead"
    /\ UNCHANGED << head, stored, overrun, kernel, vs, put, phase, todo, post, hdrBytes,
                    flaga, suspended, ssp0, tpc, faults >>

S_ResetHead ==
    /\ spc = "rhead" /\ Cpu("sc")
    /\ head' = 0
    /\ stored' = 0
    /\ overrun' = IF overrun = "now" THEN "before" ELSE overrun
    /\ spc' = "demux"
    /\ UNCHANGED << tail, kernel, vs, put, phase, todo, post, hdrBytes,
                    flaga, suspended, ssp0, tpc, faults >>

(* What the segment holds besides metadata: all of it, or what get_metadata*)
(* finds before and after a metadata block (shoutcast.c:258-281); module   *)
(* IcyDemux tells how it finds them.                                       *)
S_Demux(before, after) ==
    /\ spc = "demux" /\ Cpu("sc")
    /\ before + after <= todo
    /\ todo' = before
    /\ post' = after
    /\ spc' = "room"
    /\ UNCHANGED << ring, kernel, vs, put, phase, hdrBytes,
                    flaga, suspended, ssp0, tpc, faults >>

(* Where RAM_bufput returns to when it has put all its bytes.              *)
BufputReturns ==
    IF phase = "header"
    THEN spc' = "recv" /\ todo' = 0 /\ UNCHANGED post
    ELSE IF post > 0
         THEN spc' = "room" /\ todo' = post /\ post' = 0
         ELSE spc' = "tresh" /\ todo' = 0 /\ UNCHANGED post

(* while(RAM_buffree() < ...) vTaskDelay(5): polled until there is room.   *)
(* RAM_buffree is unsigned: one byte too few is room for anything.         *)
RoomFor(n) == buffree < 0 \/ buffree >= n

S_Room ==
    /\ spc = "room" /\ Cpu("sc")
    /\ RoomFor(todo)
    /\ IF todo > 0 THEN spc' = "lock" /\ UNCHANGED << todo, post >>
       ELSE BufputReturns
    /\ UNCHANGED << ring, kernel, vs, put, phase, hdrBytes,
                    flaga, suspended, ssp0, tpc, faults >>

(***************************************************************************)
(* The shoutcast task: RAM_bufput.                                         *)
(***************************************************************************)
(* Cut off a piece, get the mutex, read head, start the first transfer.    *)
S_Lock ==
    /\ spc = "lock" /\ Cpu("sc")
    /\ mutex = "none"
    /\ mutex' = "sc"
    /\ piece' = Piece(todo)
    /\ todo' = todo - Piece(todo)
    /\ shead' = head
    /\ written' = 0
    /\ dma' = [dma EXCEPT ![0] = "runs"]
    /\ spc' = "ch0"
    /\ UNCHANGED << ring, sem, vs, phase, post, hdrBytes,
                    flaga, suspended, ssp0, tpc, faults >>

(* "bufput mutex timeout": the piece is dropped.  A VS task suspended with *)
(* the mutex never gives it.                                               *)
S_LockTimeout ==
    /\ spc = "lock" /\ Cpu("sc")
    /\ mutex # "none"
    /\ IF mutex = "vs" /\ suspended THEN UNCHANGED faults
       ELSE faults < MAXFAULTS /\ faults' = faults + 1
    /\ IF todo > Piece(todo)
       THEN todo' = todo - Piece(todo) /\ UNCHANGED << spc, post >>
       ELSE BufputReturns
    /\ UNCHANGED << ring, kernel, vs, put, phase, hdrBytes,
                    flaga, suspended, ssp0, tpc >>

(* A token of xDMAch0_Semaphore, possibly one left by a late interrupt.    *)
S_Ch0 ==
    /\ spc = "ch0" /\ Cpu("sc")
    /\ sem[0] = 1
    /\ sem' = [sem EXCEPT ![0] = 0]
    /\ spc' = "bsy"
    /\ UNCHANGED << ring, mutex, dma, vs, put, phase, todo, post, hdrBytes,
                    flaga, suspended, ssp0, tpc, faults >>

(* Mutant: the semaphore alone ends the wait.                              *)
MutantNoBusyWait == TRUE

(* while (LPC_SSP1->SR & BSY): the shift register is idle when no byte is  *)
(* on its way, so when the transfer is over, and also when it is stalled.  *)
BusIdle == dma[0] # "runs"

(* What the task leaves of the transfer when it goes on.                   *)
LeftOfTransfer == IF dma[0] = "stalled" THEN "left" ELSE dma[0]

MoreInOtherChip == ~ FitsChip(shead, piece - written)

(* The first part of a split piece is in its chip; go on in the other one. *)
NextPart ==
    /\ written' = written + (ChipEnd(shead) - shead)
    /\ shead' = OtherChip(shead)
    /\ UNCHANGED piece

S_SecondPart ==
    /\ spc = "bsy" /\ Cpu("sc")
    /\ BusIdle
    /\ MoreInOtherChip
    /\ NextPart
    /\ dma' = [dma EXCEPT ![0] = "runs"]
    /\ spc' = "ch0"
    /\ UNCHANGED << ring, mutex, sem, vs, phase, todo, post, hdrBytes,
                    flaga, suspended, ssp0, tpc, faults >>

(* A header's bytes came without room for them: head passes tail, and from *)
(* then on what is stored is not counted.                                  *)
Overruns(n) == overrun = "now" \/ (phase = "header" /\ stored + n > RAM_BUFSIZE - 1)

(* RAM_bufhead = head+len or head+(len-written_data).                      *)
AdvanceHead ==
    /\ head' = shead + (piece - written)
    /\ IF Overruns(piece)
       THEN overrun' = "now" /\ stored' = 0
       ELSE stored' = stored + piece /\ UNCHANGED overrun
    /\ UNCHANGED tail

S_Publish ==
    /\ spc = "bsy" /\ Cpu("sc")
    /\ BusIdle
    /\ ~ MoreInOtherChip
    /\ AdvanceHead
    /\ dma' = [dma EXCEPT ![0] = LeftOfTransfer]
    /\ spc' = "wrap"
    /\ UNCHANGED << mutex, sem, vs, put, phase, todo, post, hdrBytes,
                    flaga, suspended, ssp0, tpc, faults >>

(* if(RAM_bufhead >= 2*RAM_CHIPSIZE) RAM_bufhead = 0: a step of its own,   *)
(* the VS task may look at the buffer before it.                           *)
S_Wrap ==
    /\ spc = "wrap" /\ Cpu("sc")
    /\ head' = IF head >= RAM_BUFSIZE THEN 0 ELSE head
    /\ spc' = "give"
    /\ UNCHANGED << tail, stored, overrun, kernel, vs, put, phase, todo, post, hdrBytes,
                    flaga, suspended, ssp0, tpc, faults >>

(* "No semph ch0 ...": no token in 500 ms, because the transfer is stalled *)
(* or for any other reason.                                                *)
S_Ch0Timeout ==
    /\ spc = "ch0" /\ Cpu("sc")
    /\ sem[0] = 0
    /\ IF dma[0] = "stalled" THEN UNCHANGED faults
       ELSE faults < MAXFAULTS /\ faults' = faults + 1
    /\ spc' = "late"
    /\ UNCHANGED << ring, kernel, vs, put, phase, todo, post, hdrBytes,
                    flaga, suspended, ssp0, tpc >>

(* The code waits for the bus and goes on as after a good transfer, but it *)
(* does not wrap head.  A transfer that still moved has ended by then, and *)
(* may have left its token.                                                *)
S_Late ==
    /\ spc = "late" /\ Cpu("sc")
    /\ BusIdle
    /\ IF MoreInOtherChip THEN UNCHANGED ring ELSE AdvanceHead
    /\ dma' = [dma EXCEPT ![0] = LeftOfTransfer]
    /\ spc' = "config"
    /\ UNCHANGED << mutex, sem, vs, put, phase, todo, post, hdrBytes,
                    flaga, suspended, ssp0, tpc, faults >>

(* DMA_Config writes the registers of all channels: channel 0 loses its    *)
(* interrupt and keeps its enable bit (DMA.c:33-44), and the end of a      *)
(* transfer to the decoder may never be reported (DMA.c:26-27,50-62).      *)
DMA_Config(lost) ==
    LET ch1 == IF lost THEN "off" ELSE dma[1]
        ch0 == IF dma[0] = "left" THEN "masked" ELSE dma[0]
    IN  [dma EXCEPT ![0] = ch0, ![1] = ch1]

(* Then the other part, which uses channel 0 again, or the end.            *)
S_DmaConfig(lost) ==
    /\ spc = "config" /\ Cpu("sc")
    /\ IF MoreInOtherChip
       THEN /\ NextPart
            /\ spc' = "ch0"
            /\ dma' = [DMA_Config(lost) EXCEPT ![0] = "runs"]
       ELSE /\ spc' = "give"
            /\ dma' = DMA_Config(lost)
            /\ UNCHANGED put
    /\ UNCHANGED << ring, mutex, sem, vs, phase, todo, post, hdrBytes,
                    flaga, suspended, ssp0, tpc, faults >>

S_Give ==
    /\ spc = "give" /\ Cpu("sc")
    /\ mutex' = "none"
    /\ IF todo > 0 THEN spc' = "lock" /\ UNCHANGED << todo, post >>
       ELSE BufputReturns
    /\ UNCHANGED << ring, sem, dma, vs, put, phase, hdrBytes,
                    flaga, suspended, ssp0, tpc, faults >>

(***************************************************************************)
(* The shoutcast task: starting the decoder.                               *)
(***************************************************************************)
(* Mutants: a threshold the buffer cannot reach, and one met exactly.      *)
MutantUnreachable == buflen > 2 * TRESH /\ flaga = "STOP"
MutantAtTresh == buflen >= TRESH /\ flaga = "STOP"

(* "Bufor jest pelny" (shoutcast.c:292).                                   *)
BufferFilled == buflen > TRESH /\ flaga = "STOP"

S_Tresh ==
    /\ spc = "tresh" /\ Cpu("sc")
    /\ spc' = IF BufferFilled THEN "resume" ELSE "recv"
    /\ hdrBytes' = 0
    /\ UNCHANGED << ring, kernel, vs, put, phase, todo, post,
                    flaga, suspended, ssp0, tpc, faults >>

(* vTaskResume: a suspended delay is over, a semaphore is waited for again.*)
S_Resume ==
    /\ spc = "resume" /\ Cpu("sc")
    /\ suspended' = FALSE
    /\ vpc' = IF vpc = "delay" THEN "check" ELSE vpc
    /\ spc' = "play"
    /\ UNCHANGED << ring, kernel, vtail, put, phase, todo, post, hdrBytes,
                    flaga, ssp0, tpc, faults >>

(* Mutant: flaga is not set when the VS task is resumed.                   *)
MutantPlayForgets ==
    /\ spc = "play" /\ Cpu("sc")
    /\ spc' = "recv"
    /\ UNCHANGED << ring, kernel, vs, put, phase, todo, post, hdrBytes,
                    flaga, suspended, ssp0, tpc, faults >>

S_Play ==
    /\ spc = "play" /\ Cpu("sc")
    /\ flaga' = "PLAY"
    /\ spc' = "recv"
    /\ UNCHANGED << ring, kernel, vs, put, phase, todo, post, hdrBytes,
                    suspended, ssp0, tpc, faults >>

(***************************************************************************)
(* The touch-panel task: vTouchPanelTask.                                  *)
(***************************************************************************)
T_Wake ==
    /\ tpc = "delay"
    /\ tpc' = "lock"
    /\ UNCHANGED << ring, kernel, vs, put, sc, flaga, suspended, ssp0, faults >>

(* SPI1_SetSpeed writes the prescaler of SSP0.                             *)
SPI1_SetSpeed(speed) == ssp0' = Prescaler(speed)

T_Lock ==
    /\ tpc = "lock" /\ Cpu("tp")
    /\ mutex = "none"
    /\ mutex' = "tp"
    /\ SPI1_SetSpeed(SPI_2MHz)
    /\ tpc' = "exec"
    /\ UNCHANGED << ring, sem, dma, vs, put, sc, flaga, suspended, faults >>

T_Give ==
    /\ tpc = "exec" /\ Cpu("tp")
    /\ SPI1_SetSpeed(SPI_16MHz)
    /\ mutex' = "none"
    /\ tpc' = "delay"
    /\ UNCHANGED << ring, sem, dma, vs, put, sc, flaga, suspended, faults >>

-----------------------------------------------------------------------------
(* main() suspends the VS task before the scheduler starts; VS_Init has    *)
(* reset the buffer and set the decoder's clock.                           *)
Init ==
    /\ head = 0 /\ tail = 0 /\ stored = 0 /\ overrun = "never"
    /\ flaga = "STOP" /\ suspended = TRUE
    /\ mutex = "none"
    /\ sem = [ch \in 0 .. 2 |-> 0]
    /\ dma = [ch \in 0 .. 2 |-> "off"]
    /\ ssp0 = Prescaler(SPI_11MHz)
    /\ vpc = "check" /\ vtail = 0
    /\ spc = "connect" /\ phase = "header"
    /\ todo = 0 /\ post = 0 /\ hdrBytes = 0
    /\ shead = 0 /\ piece = 0 /\ written = 0
    /\ tpc = "delay"
    /\ faults = 0

VsStep == V_Idle \/ V_Feed \/ V_Lock \/ V_LockTimeout \/ V_Got \/ V_Sent

(* Steps of the shoutcast task that wait for nothing outside the device.   *)
ScStep ==
    \/ S_Empty \/ S_Suspend \/ S_Stop \/ S_ResetTail \/ S_ResetHead
    \/ \E before, after \in 0 .. MAXCHUNK : S_Demux(before, after)
    \/ S_Room \/ S_Lock \/ S_LockTimeout \/ S_Ch0 \/ S_SecondPart \/ S_Publish
    \/ S_Wrap \/ S_Ch0Timeout \/ S_Late \/ \E lost \in BOOLEAN : S_DmaConfig(lost)
    \/ S_Give \/ S_Tresh \/ S_Resume \/ S_Play

Network ==
    \/ S_Connect \/ S_HeaderFails \/ S_Disconnect
    \/ \E n \in 0 .. MAXCHUNK : S_Header(n)
    \/ \E n \in 1 .. MAXCHUNK : S_Recv(n)

TpStep == T_Lock \/ T_Give

Next ==
    \/ \E ch \in 0 .. 2 : DmaDone(ch)
    \/ DmaStalls \/ DmaGoesOn \/ DmaStrays
    \/ V_Wake \/ VsStep
    \/ ScStep \/ Network
    \/ T_Wake \/ TpStep

Spec == Init /\ [][Next]_vars

(***************************************************************************)
(* Fairness: transfers end, delays end, and a task that is again and again *)
(* the one to run does run.  The last conjunct is the decoder: it goes on  *)
(* asking for data (DREQ).                                                 *)
(***************************************************************************)
Fairness ==
    /\ \A ch \in 0 .. 2 : WF_vars(DmaDone(ch))
    /\ WF_vars(V_Wake) /\ WF_vars(VsStep)
    /\ WF_vars(T_Wake) /\ SF_vars(TpStep)
    /\ SF_vars(ScStep)
    /\ SF_vars(V_Feed)

LiveSpec == Spec /\ Fairness

-----------------------------------------------------------------------------
(***************************************************************************)
(* Properties.                                                             *)
(***************************************************************************)
TypeOK ==
    /\ head \in 0 .. RAM_BUFSIZE /\ tail \in 0 .. RAM_BUFSIZE - 1
    /\ stored \in Int /\ overrun \in OverrunStates /\ hdrBytes \in 0 .. HDRROOM + 1
    /\ flaga \in {"PLAY", "STOP"} /\ suspended \in BOOLEAN
    /\ mutex \in Tasks \cup {"none"}
    /\ sem \in [0 .. 2 -> 0 .. 1] /\ dma \in [0 .. 2 -> DmaStates]
    /\ ssp0 \in {Prescaler(SPI_2MHz), Prescaler(SPI_11MHz), Prescaler(SPI_16MHz)}
    /\ vpc \in {"check", "lock", "ch2", "ch1", "delay"}
    /\ vtail \in 0 .. RAM_BUFSIZE - 1
    /\ spc \in {"connect", "header", "recv", "empty", "suspend", "stop", "rtail",
                "rhead", "demux", "room", "lock", "ch0", "bsy", "wrap", "late",
                "config", "give", "tresh", "resume", "play"}
    /\ phase \in {"header", "stream"}
    /\ todo \in 0 .. MAXCHUNK /\ post \in 0 .. MAXCHUNK
    /\ shead \in 0 .. RAM_BUFSIZE
    /\ piece \in 0 .. MAXDMA /\ written \in 0 .. MAXDMA
    /\ tpc \in {"delay", "lock", "exec"}
    /\ faults \in 0 .. MAXFAULTS

(* The VS task is never suspended inside RAM_bufget: it would keep SPI1's  *)
(* mutex, and later move the tail of a buffer that was reset meanwhile.    *)
(* This is what the commented-out mutex of shoutcast.c:243 was for.  Bytes *)
(* put without room make it possible: RAM_buflen then says "empty" of a    *)
(* buffer the VS task is reading.                                          *)
NeverSuspendedInBufget ==
    overrun = "never" /\ suspended => vpc \notin {"lock", "ch2"} /\ mutex # "vs"

(* RAM_buflen returns "number of samples in audio buffer" (its comment),   *)
(* wherever either task may call it: bytes put and not yet taken, also     *)
(* between the two stores of the wrap, after transfers that timed out, and *)
(* again after the reset that follows an overrun.                          *)
BuflenExact == overrun # "now" /\ spc # "rhead" => buflen = stored

(* Headers have left the room a filling buffer counts on.                  *)
HeadersFit == overrun # "now" /\ hdrBytes <= HDRROOM

(* The shoutcast task never waits for room that only the decoder it has    *)
(* suspended could make.                                                   *)
NeverWaitsForSuspendedDecoder ==
    spc = "room" /\ suspended /\ HeadersFit => buffree >= todo + post

(* The reads that RAM_bufget would split between the chips, marked "jest   *)
(* bug" in the code, never happen.                                         *)
NoSplitRead == vpc = "ch2" => FitsChip(vtail, BLOCK)

(* flaga tells the truth about the VS task whenever the shoutcast task     *)
(* waits for the network, so also after a reconnect.                       *)
FlagaTellsTheTruth ==
    spc \in {"connect", "header", "recv"} => (suspended <=> flaga = "STOP")

(* A transfer that moves on SPI1 was started by the task that holds the    *)
(* mutex, even when a token of an earlier transfer ends a wait too early   *)
(* or no token comes.  Only a channel that had stalled is left enabled.    *)
OneMasterOnSpi1 ==
    /\ dma[0] = "runs" => mutex = "sc"
    /\ dma[2] = "runs" => mutex = "vs"
    /\ dma[0] = "stalled" => mutex = "sc"

(* A wait for room in the buffer ends.                                     *)
RoomComes == spc = "room" /\ HeadersFit ~> spc # "room"

(* While segments of the stream are put, the radio plays again and again,  *)
(* unless headers overrun the buffer again and again.                      *)
PlaysAgain ==
    []<>(spc = "wrap" /\ phase = "stream") /\ <>[](overrun # "now")
      => []<>(flaga = "PLAY")

(***************************************************************************)
(* What the audio path promises: module Player.  A suspended decoder is    *)
(* a stopped player; the buffer counts as empty from the suspension on.    *)
(***************************************************************************)
InReset == spc \in {"stop", "rtail", "rhead"}
spoilt == overrun = "now" /\ ~ InReset
level == IF spoilt \/ InReset THEN 0 ELSE buflen
mode == IF suspended THEN "STOP" ELSE "PLAY"

P == INSTANCE Player WITH CAPACITY <- RAM_BUFSIZE - 1

(* Every behaviour of the two tasks is one of the player.                  *)
PlayerSpec == P!Spec
=============================================================================
