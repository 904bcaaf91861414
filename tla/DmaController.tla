--------------------------- MODULE DmaController ---------------------------
(***************************************************************************)
(* The DMA driver under its two users.  Channel 0 writes to the audio      *)
(* buffer for the shoutcast task, channels 2 and 3 read it for the VS task *)
(* (3 sends the bytes that clock the answer in and is never waited for),   *)
(* channel 1 feeds the decoder.  A transfer ends with a terminal count;    *)
(* DMA_IRQHandler turns it into the token of a binary semaphore.           *)
(*                                                                         *)
(* RAM_bufput gives up a transfer after 500 ms and calls DMA_Config, which *)
(* sets up every channel anew, also the decoder's, which may be running:   *)
(* it clears all terminal counts, and it writes 0 to the bit that enables  *)
(* the interrupt (its comment reads "Enable Interrupt", DMA.c:55).  It     *)
(* leaves a channel enabled that was: the transfer that was given up may   *)
(* go on later, when the bus has another master.  The VS task has the      *)
(* higher priority and runs between any two of these writes.  Its waits    *)
(* have no timeout; this module says which of them are answered.           *)
(***************************************************************************)
EXTENDS Naturals

CONSTANT MAXFAULTS      \* bound: waits that time out, transfers that fail

ASSUME DmaAssumption == MAXFAULTS \in Nat

VARIABLES
  running,              \* enabled channels
  stalled,              \* those of them that move nothing
  intEnabled,           \* channels whose DMACCControl has bit 31
  tcStat, errStat,      \* DMACIntTCStat, DMACRawIntErrStat
  nvic,                 \* the interrupt is enabled in the NVIC
  isr, status,          \* DMA_IRQHandler: place, status
  tokens,               \* semaphores xDMAch0..2 that hold their token
  mutex,                \* holder of xSPI1_Mutex
  vpc,                  \* VS task: "idle", "lock", "ch2", "bsy2", "ch1", "bsy1"
  spc, split,           \* shoutcast task: place, a second part is to come
  cch, enabled,         \* DMA_Config: channel, DMACCConfig as it was read
  faults

registers == << running, stalled, intEnabled, tcStat, errStat >>
irq == << nvic, isr, status >>
sc == << spc, split >>
config == << cch, enabled >>
vars == << registers, irq, tokens, mutex, vpc, sc, config, faults >>

Channels == 0 .. 3
Waited == {0, 1, 2}     \* channels with an interrupt and a semaphore
Spi1 == {0, 2, 3}       \* channels that move bytes over SSP1

(* DMA_Config has been called once, nothing runs.                          *)
Init ==
    /\ running = {} /\ stalled = {} /\ intEnabled = {} /\ tcStat = {} /\ errStat = {}
    /\ nvic = TRUE /\ isr = "idle" /\ status = {}
    /\ tokens = {} /\ mutex = "none"
    /\ vpc = "idle" /\ spc = "idle" /\ split = FALSE
    /\ cch = 0 /\ enabled = FALSE
    /\ faults = 0

(***************************************************************************)
(* The controller.                                                         *)
(***************************************************************************)
(* The last byte has been moved; what is read has been clocked in before,  *)
(* by the dummies of channel 3 or by the bytes of a straying channel 0.    *)
Finish(ch) ==
    /\ ch \in running \ stalled
    /\ ch = 2 => 3 \notin running \/ 0 \in running
    /\ running' = running \ {ch}
    /\ tcStat' = tcStat \cup ({ch} \cap intEnabled \cap Waited)
    /\ UNCHANGED << stalled, intEnabled, errStat, irq, tokens, mutex, vpc, sc,
                    config, faults >>

(* A bus error ends a transfer of channels 0..2.  Channel 3 reads one byte *)
(* that is always there.  Bit 31 does not mask an error, so it also ends a *)
(* wait that was silenced.                                                 *)
Fail(ch) ==
    /\ ch \in running
    /\ faults < MAXFAULTS
    /\ faults' = faults + 1
    /\ running' = running \ {ch}
    /\ stalled' = stalled \ {ch}
    /\ errStat' = errStat \cup {ch}
    /\ UNCHANGED << intEnabled, tcStat, irq, tokens, mutex, vpc, sc, config >>

(* Channel 0 stops in the middle, reports nothing and stays enabled ...    *)
Stall ==
    /\ 0 \in running /\ stalled' = stalled \cup {0} /\ stalled' # stalled
    /\ faults < MAXFAULTS
    /\ faults' = faults + 1
    /\ UNCHANGED << running, intEnabled, tcStat, errStat, irq, tokens, mutex,
                    vpc, sc, config >>

(* ... so that it may go on at any time, whoever has the bus by then.      *)
GoOn ==
    /\ stalled # {} /\ stalled' = {}
    /\ UNCHANGED << running, intEnabled, tcStat, errStat, irq, tokens, mutex,
                    vpc, sc, config, faults >>

(* Start...DmaTransfer: control word with bit 31, then the enable bit; a   *)
(* channel that stalled is set going by the software request.              *)
Start(chs) ==
    /\ intEnabled' = intEnabled \cup chs
    /\ running' = running \cup chs
    /\ stalled' = stalled \ chs
    /\ UNCHANGED << tcStat, errStat >>

(***************************************************************************)
(* DMA_IRQHandler.  Its "&= ~(1<0)" changes no bit.                        *)
(***************************************************************************)
Pending == nvic /\ (tcStat # {} \/ errStat # {})

I_Status ==
    /\ isr = "idle" /\ Pending
    /\ status' = tcStat
    /\ isr' = "clear"
    /\ UNCHANGED << registers, nvic, tokens, mutex, vpc, sc, config, faults >>

(* Mutant: all terminal counts are cleared, as DMA_Config does.            *)
MutantClearAll ==
    /\ isr = "clear"
    /\ tcStat' = {}
    /\ isr' = "give"
    /\ UNCHANGED << running, stalled, intEnabled, errStat, nvic, status, tokens,
                    mutex, vpc, sc, config, faults >>

I_Clear ==
    /\ isr = "clear"
    /\ tcStat' = tcStat \ status
    /\ isr' = "give"
    /\ UNCHANGED << running, stalled, intEnabled, errStat, nvic, status, tokens,
                    mutex, vpc, sc, config, faults >>

I_Give ==
    /\ isr = "give"
    /\ tokens' = tokens \cup status
    /\ isr' = "error"
    /\ UNCHANGED << registers, nvic, status, mutex, vpc, sc, config, faults >>

(* The same for errors.                                                    *)
I_Error ==
    /\ isr = "error"
    /\ errStat' = {}
    /\ tokens' = tokens \cup errStat
    /\ isr' = "idle"
    /\ UNCHANGED << running, stalled, intEnabled, tcStat, nvic, status, mutex,
                    vpc, sc, config, faults >>

(* A pending interrupt is served before a task takes its next step.        *)
Thread == isr = "idle" /\ ~Pending

(* The end of a transfer on ch is on its way to the task that waits.       *)
Coming(ch) ==
    \/ ch \in tokens
    \/ ch \in running /\ ch \in intEnabled
    \/ ch \in tcStat \cup errStat
    \/ ch \in status /\ isr \in {"clear", "give"}

(* while(SR & BSY): nothing is being shifted; a channel that stalled does  *)
(* not show.                                                               *)
BusIdle == (running \ stalled) \cap Spi1 = {}

(***************************************************************************)
(* The VS task: VS_feed and RAM_bufget, the higher priority of the two.    *)
(***************************************************************************)
VsStep(from, to) == Thread /\ vpc = from /\ vpc' = to

V_Feed ==
    /\ VsStep("idle", "lock")
    /\ UNCHANGED << registers, irq, tokens, mutex, sc, config, faults >>

V_Lock ==
    /\ VsStep("lock", "ch2")
    /\ mutex = "none" /\ mutex' = "vs"
    /\ Start({2, 3})
    /\ UNCHANGED << irq, tokens, sc, config, faults >>

(* "bufget mutex timeout": the old block is sent once more.                *)
V_LockTimeout ==
    /\ VsStep("lock", "ch1")
    /\ mutex # "none"
    /\ faults < MAXFAULTS /\ faults' = faults + 1
    /\ Start({1})
    /\ UNCHANGED << irq, tokens, mutex, sc, config >>

V_Got ==
    /\ VsStep("ch2", "bsy2")
    /\ 2 \in tokens /\ tokens' = tokens \ {2}
    /\ UNCHANGED << registers, irq, mutex, sc, config, faults >>

V_Send ==
    /\ VsStep("bsy2", "ch1")
    /\ BusIdle
    /\ mutex' = "none"
    /\ Start({1})
    /\ UNCHANGED << irq, tokens, sc, config, faults >>

V_Sent ==
    /\ VsStep("ch1", "bsy1")
    /\ 1 \in tokens /\ tokens' = tokens \ {1}
    /\ UNCHANGED << registers, irq, mutex, sc, config, faults >>

(* Mutant: VS_feed does not wait for BSY.                                  *)
MutantNoBsy ==
    /\ VsStep("bsy1", "idle")
    /\ UNCHANGED << registers, irq, tokens, mutex, sc, config, faults >>

V_Done ==
    /\ VsStep("bsy1", "idle")
    /\ 1 \notin running
    /\ UNCHANGED << registers, irq, tokens, mutex, sc, config, faults >>

(***************************************************************************)
(* The shoutcast task: RAM_bufput, the lower priority: it runs when the VS *)
(* task waits.                                                             *)
(***************************************************************************)
VsWaits == \/ vpc = "idle"
           \/ vpc = "lock" /\ mutex # "none"
           \/ vpc = "ch2" /\ 2 \notin tokens
           \/ vpc = "ch1" /\ 1 \notin tokens

ScStep(from, to) == Thread /\ VsWaits /\ spc = from /\ spc' = to

S_Lock ==
    /\ ScStep("idle", "ch0")
    /\ split' \in BOOLEAN
    /\ mutex = "none" /\ mutex' = "sc"
    /\ Start({0})
    /\ UNCHANGED << irq, tokens, vpc, config, faults >>

S_Written ==
    /\ ScStep("ch0", "bsy")
    /\ 0 \in tokens /\ tokens' = tokens \ {0}
    /\ UNCHANGED << registers, irq, mutex, vpc, config, faults, split >>

S_Give ==
    /\ ScStep("bsy", "idle") /\ ~split
    /\ BusIdle
    /\ mutex' = "none"
    /\ UNCHANGED << registers, irq, tokens, vpc, config, faults, split >>

(* The second part of a piece goes to the other chip.                      *)
S_Second ==
    /\ ScStep("bsy", "ch0") /\ split /\ split' = FALSE
    /\ BusIdle
    /\ Start({0})
    /\ UNCHANGED << irq, tokens, mutex, vpc, config, faults >>

(* 500 ms are over.  An end that is still to come counts as a fault.      *)
S_Timeout ==
    /\ ScStep("ch0", "late")
    /\ 0 \notin tokens
    /\ IF Coming(0) /\ 0 \notin stalled THEN faults < MAXFAULTS /\ faults' = faults + 1
       ELSE UNCHANGED faults
    /\ UNCHANGED << registers, irq, tokens, mutex, vpc, config, split >>

(* Mutant: the mutex is given before the controller is set up again.       *)
MutantGiveFirst ==
    /\ ScStep("late", "clear")
    /\ BusIdle
    /\ nvic' = FALSE
    /\ mutex' = "none"
    /\ UNCHANGED << registers, isr, status, tokens, vpc, config, faults, split >>

(* The timed-out branch waits for the bus as well, then calls DMA_Config.  *)
S_Config ==
    /\ ScStep("late", "clear")
    /\ BusIdle
    /\ nvic' = FALSE
    /\ UNCHANGED << registers, isr, status, tokens, mutex, vpc, config, faults, split >>

(***************************************************************************)
(* DMA_Config, one action for each register that matters here.             *)
(***************************************************************************)
(* DMACIntErrClr |= 0xFF, DMACIntTCClear |= 0xFF.                          *)
C_Clear ==
    /\ ScStep("clear", "control")
    /\ tcStat' = {} /\ errStat' = {}
    /\ cch' = 0
    /\ UNCHANGED << running, stalled, intEnabled, irq, tokens, mutex, vpc,
                    enabled, faults, split >>

(* DMACCControl is written without bit 31; channel 2's DMACCConfig with 0; *)
(* DMACCConfig is read, to be written back with more bits.                 *)
C_Control ==
    /\ ScStep("control", "config")
    /\ intEnabled' = intEnabled \ {cch}
    /\ enabled' = (cch # 2 /\ cch \in running)
    /\ UNCHANGED << running, stalled, tcStat, errStat, irq, tokens, mutex, vpc,
                    cch, faults, split >>

(* The enable bit goes back as it was read, whatever has happened since.   *)
C_Config ==
    /\ Thread /\ VsWaits /\ spc = "config"
    /\ running' = IF enabled THEN running \cup {cch} ELSE running \ {cch}
    /\ IF cch < 3 THEN cch' = cch + 1 /\ spc' = "control"
       ELSE UNCHANGED cch /\ spc' = "enable"
    /\ UNCHANGED << stalled, intEnabled, tcStat, errStat, irq, tokens, mutex,
                    vpc, enabled, faults, split >>

(* NVIC_EnableIRQ; RAM_bufput gives the mutex, or goes on with the second  *)
(* part.                                                                   *)
C_Enable ==
    /\ ScStep("enable", "idle") /\ ~split
    /\ nvic' = TRUE
    /\ mutex' = "none"
    /\ UNCHANGED << registers, isr, status, tokens, vpc, config, faults, split >>

C_EnableSecond ==
    /\ ScStep("enable", "ch0") /\ split /\ split' = FALSE
    /\ nvic' = TRUE
    /\ Start({0})
    /\ UNCHANGED << isr, status, tokens, mutex, vpc, config, faults >>

Controller == GoOn \/ \E ch \in Channels : Finish(ch)
Fault == Stall \/ V_LockTimeout \/ \E ch \in Waited : Fail(ch)
Isr == I_Status \/ I_Clear \/ I_Give \/ I_Error
VsTask == V_Lock \/ V_Got \/ V_Send \/ V_Sent \/ V_Done
ScTask == \/ S_Timeout \/ S_Written \/ S_Give \/ S_Second
          \/ S_Config \/ C_Clear \/ C_Control \/ C_Config
          \/ C_Enable \/ C_EnableSecond
Next == Controller \/ Fault \/ Isr \/ V_Feed \/ VsTask \/ S_Lock \/ ScTask

Spec == Init /\ [][Next]_vars

-----------------------------------------------------------------------------
TypeOK ==
    /\ running \subseteq Channels /\ stalled \subseteq {0} /\ intEnabled \subseteq Channels
    /\ tcStat \subseteq Waited /\ errStat \subseteq Waited
    /\ nvic \in BOOLEAN
    /\ isr \in {"idle", "clear", "give", "error"} /\ status \subseteq Waited
    /\ tokens \subseteq Waited
    /\ mutex \in {"none", "vs", "sc"}
    /\ vpc \in {"idle", "lock", "ch2", "bsy2", "ch1", "bsy1"}
    /\ spc \in {"idle", "ch0", "bsy", "late", "clear", "control", "config", "enable"}
    /\ split \in BOOLEAN
    /\ cch \in Channels /\ enabled \in BOOLEAN
    /\ faults \in 0 .. MAXFAULTS

(* RAM_bufget's wait without a timeout is answered, whatever DMA_Config    *)
(* does: xSPI1_Mutex keeps the two apart.                                  *)
ReadIsAnswered == vpc = "ch2" => Coming(2)

(* VS_feed's wait without a timeout loses its answer only in DMA_Config,   *)
(* and then nothing but a bus error ends it: no later step repairs it.     *)
OnlyConfigSilences ==
    [][vpc' = "ch1" =>
        /\ vpc # "ch1" => Coming(1)'
        /\ vpc = "ch1" /\ Coming(1) /\ ~Coming(1)' =>
              spc \in {"clear", "control", "config"}
        /\ vpc = "ch1" /\ ~Coming(1) /\ Coming(1)' => 1 \in errStat' \ errStat]_vars

(* While channel 1 reads or channel 2 fills the buffer of VS_feed, that    *)
(* task waits for it.  A token may be left over from a transfer that has   *)
(* failed and was set going again by DMA_Config; the wait for BSY is what  *)
(* keeps the buffer then.                                                  *)
BlockIsHeld ==
    /\ 1 \in running => vpc \in {"ch1", "bsy1"}
    /\ 2 \in running => vpc = "ch2"
    /\ 2 \in tokens => vpc = "ch2" /\ 2 \notin running
=============================================================================
