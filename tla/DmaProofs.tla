----------------------------- MODULE DmaProofs -----------------------------
(***************************************************************************)
(* Proofs about DmaController for any number of waits that time out and of *)
(* transfers that fail.                                                    *)
(*                                                                         *)
(* DMA_Config writes back what it read from DMACCConfig, and the VS task   *)
(* may run in between.  What saves it is that the shoutcast task holds     *)
(* xSPI1_Mutex, so that the only other transfer is the decoder's, beside a *)
(* channel 0 that was given up, whose write hurts nobody's wait; and that  *)
(* the interrupt is off, so that the VS task, which waits for that         *)
(* transfer, is still waiting when the register is written (WritesBack).   *)
(***************************************************************************)
EXTENDS DmaController, TLAPS

(* Who is where holds the mutex, and where the interrupt is off.           *)
MutexTells ==
    /\ mutex = "vs" <=> vpc \in {"ch2", "bsy2"}
    /\ mutex = "sc" <=> spc # "idle"

NvicTells ==
    /\ nvic <=> spc \notin {"clear", "control", "config", "enable"}
    /\ ~ nvic => isr = "idle"

(* Ends of transfers that have been reported and not been waited for.      *)
Read == IF isr \in {"clear", "give"} THEN status ELSE {}
Reported == tokens \cup tcStat \cup errStat \cup Read

(* Channel 2 runs, or has reported its end, while the VS task waits for it. *)
ReadInv ==
    /\ 2 \in running \cup Reported => vpc = "ch2"
    /\ 2 \in Reported => 2 \notin running
    /\ 2 \in running => 2 \in intEnabled
    /\ ReadIsAnswered

(* Channels 1 and 3 run only where the VS task waits for them or for BSY.  *)
OwnersWait ==
    /\ 1 \in running => vpc \in {"ch1", "bsy1"}
    /\ 3 \in running => vpc \in {"ch2", "bsy2"}

(* Beside channel 0, DMA_Config can write back as enabled the decoder's    *)
(* alone, and then the VS task has not gone on since the register was read. *)
WritesBack ==
    spc = "config" /\ enabled /\ cch # 0 =>
        cch = 1 /\ vpc = "ch1" /\ 1 \notin tokens /\ 1 \notin intEnabled

IInv ==
    /\ TypeOK
    /\ MutexTells /\ NvicTells
    /\ ReadInv /\ OwnersWait /\ WritesBack

-----------------------------------------------------------------------------
(* A transfer ends, or fails.                                              *)
LEMMA ControllerKeeps ==
    ASSUME IInv,
           \/ \E ch \in Channels : Finish(ch)
           \/ \E ch \in Waited : Fail(ch)
           \/ Stall \/ GoOn
    PROVE  IInv'
<1> USE DEF registers, irq, sc, config
<1>0. /\ TypeOK /\ MutexTells /\ NvicTells
      /\ ReadInv /\ OwnersWait /\ WritesBack
  BY DEF IInv
<1>1. ASSUME NEW ch \in Channels, Finish(ch) PROVE IInv'
  <2>1. TypeOK'
    BY <1>0, <1>1 DEF Finish, TypeOK
  <2>2. MutexTells' /\ NvicTells'
    BY <1>0, <1>1 DEF Finish, MutexTells, NvicTells
  <2>3. ReadInv'
    BY <1>0, <1>1 DEF Finish, Waited, ReadInv, ReadIsAnswered, Coming,
        Reported, Read
  <2>4. OwnersWait' /\ WritesBack'
    BY <1>0, <1>1 DEF Finish, OwnersWait, WritesBack
  <2>5. QED BY <2>1, <2>2, <2>3, <2>4 DEF IInv
<1>2. ASSUME NEW ch \in Waited, Fail(ch) PROVE IInv'
  <2>1. TypeOK'
    <3>1. faults' \in 0 .. MAXFAULTS
      BY DmaAssumption, <1>0, <1>2 DEF Fail, TypeOK
    <3>2. QED BY <1>0, <1>2, <3>1 DEF Fail, Waited, TypeOK
  <2>2. MutexTells' /\ NvicTells'
    BY <1>0, <1>2 DEF Fail, MutexTells, NvicTells
  <2>3. ReadInv'
    BY <1>0, <1>2 DEF Fail, ReadInv, ReadIsAnswered, Coming, Reported, Read
  <2>4. OwnersWait' /\ WritesBack'
    BY <1>0, <1>2 DEF Fail, OwnersWait, WritesBack
  <2>5. QED BY <2>1, <2>2, <2>3, <2>4 DEF IInv
<1>3. CASE Stall \/ GoOn
  <2>1. TypeOK'
    <3>1. faults' \in 0 .. MAXFAULTS
      BY DmaAssumption, <1>0, <1>3 DEF Stall, GoOn, TypeOK
    <3>2. QED BY <1>0, <1>3, <3>1 DEF Stall, GoOn, Waited, TypeOK
  <2>2. MutexTells' /\ NvicTells'
    BY <1>0, <1>3 DEF Stall, GoOn, MutexTells, NvicTells
  <2>3. ReadInv'
    BY <1>0, <1>3 DEF Stall, GoOn, ReadInv, ReadIsAnswered, Coming, Reported, Read
  <2>4. OwnersWait' /\ WritesBack'
    BY <1>0, <1>3 DEF Stall, GoOn, OwnersWait, WritesBack
  <2>5. QED BY <2>1, <2>2, <2>3, <2>4 DEF IInv
<1>4. QED BY <1>1, <1>2, <1>3

(* The interrupt handler.                                                  *)
LEMMA IsrKeeps == ASSUME IInv, Isr PROVE IInv'
<1> USE DEF registers, irq, sc, config
<1>0. /\ TypeOK /\ MutexTells /\ NvicTells
      /\ ReadInv /\ OwnersWait /\ WritesBack
  BY DEF IInv
<1>1. CASE I_Status
  <2>1. TypeOK'
    BY <1>0, <1>1 DEF I_Status, TypeOK
  <2>2. MutexTells' /\ NvicTells'
    BY <1>0, <1>1 DEF I_Status, Pending, MutexTells, NvicTells
  <2>3. ReadInv'
    BY <1>0, <1>1 DEF I_Status, ReadInv, ReadIsAnswered, Coming, Reported,
        Read
  <2>4. OwnersWait' /\ WritesBack'
    BY <1>0, <1>1 DEF I_Status, OwnersWait, WritesBack
  <2>5. QED BY <2>1, <2>2, <2>3, <2>4 DEF IInv
<1>2. CASE I_Clear
  <2>1. TypeOK'
    BY <1>0, <1>2 DEF I_Clear, TypeOK
  <2>2. MutexTells' /\ NvicTells'
    BY <1>0, <1>2 DEF I_Clear, MutexTells, NvicTells
  <2>3. ReadInv'
    BY <1>0, <1>2 DEF I_Clear, ReadInv, ReadIsAnswered, Coming, Reported, Read
  <2>4. OwnersWait' /\ WritesBack'
    BY <1>0, <1>2 DEF I_Clear, OwnersWait, WritesBack
  <2>5. QED BY <2>1, <2>2, <2>3, <2>4 DEF IInv
<1>3. CASE I_Give
  <2>1. TypeOK'
    BY <1>0, <1>3 DEF I_Give, TypeOK
  <2>2. MutexTells' /\ NvicTells'
    BY <1>0, <1>3 DEF I_Give, MutexTells, NvicTells
  <2>3. ReadInv'
    BY <1>0, <1>3 DEF I_Give, ReadInv, ReadIsAnswered, Coming, Reported, Read
  <2>4. OwnersWait' /\ WritesBack'
    BY <1>0, <1>3 DEF I_Give, NvicTells, OwnersWait, WritesBack
  <2>5. QED BY <2>1, <2>2, <2>3, <2>4 DEF IInv
<1>4. CASE I_Error
  <2>1. TypeOK'
    BY <1>0, <1>4 DEF I_Error, TypeOK
  <2>2. MutexTells' /\ NvicTells'
    BY <1>0, <1>4 DEF I_Error, MutexTells, NvicTells
  <2>3. ReadInv'
    BY <1>0, <1>4 DEF I_Error, ReadInv, ReadIsAnswered, Coming, Reported, Read
  <2>4. OwnersWait' /\ WritesBack'
    BY <1>0, <1>4 DEF I_Error, NvicTells, OwnersWait, WritesBack
  <2>5. QED BY <2>1, <2>2, <2>3, <2>4 DEF IInv
<1>5. QED BY <1>1, <1>2, <1>3, <1>4 DEF Isr

(* The VS task.                                                            *)
LEMMA VsKeeps == ASSUME IInv, V_Feed \/ V_Lock \/ V_LockTimeout \/ V_Got \/
    V_Send \/ V_Sent \/ V_Done PROVE IInv'
<1> USE DEF registers, irq, sc, config
<1>0. /\ TypeOK /\ MutexTells /\ NvicTells
      /\ ReadInv /\ OwnersWait /\ WritesBack
  BY DEF IInv
<1>1. CASE V_Feed
  <2>1. TypeOK'
    BY <1>0, <1>1 DEF V_Feed, VsStep, TypeOK
  <2>2. MutexTells' /\ NvicTells'
    BY <1>0, <1>1 DEF V_Feed, VsStep, MutexTells, NvicTells
  <2>3. ReadInv'
    BY <1>0, <1>1 DEF V_Feed, VsStep, ReadInv, ReadIsAnswered, Reported, Read
  <2>4. OwnersWait' /\ WritesBack'
    BY <1>0, <1>1 DEF V_Feed, VsStep, OwnersWait, WritesBack
  <2>5. QED BY <2>1, <2>2, <2>3, <2>4 DEF IInv
<1>2. CASE V_Lock
  <2>1. TypeOK'
    BY <1>0, <1>2 DEF V_Lock, Channels, Start, VsStep, TypeOK
  <2>2. MutexTells' /\ NvicTells'
    BY <1>0, <1>2 DEF V_Lock, VsStep, MutexTells, NvicTells
  <2>3. ReadInv'
    BY <1>0, <1>2 DEF V_Lock, Start, VsStep, ReadInv, ReadIsAnswered, Coming,
        Reported, Read
  <2>4. OwnersWait' /\ WritesBack'
    BY <1>0, <1>2 DEF V_Lock, Start, VsStep, OwnersWait, WritesBack
  <2>5. QED BY <2>1, <2>2, <2>3, <2>4 DEF IInv
<1>3. CASE V_LockTimeout
  <2>1. TypeOK'
    BY DmaAssumption, <1>0, <1>3 DEF V_LockTimeout, Channels, Start, VsStep,
        TypeOK
  <2>2. MutexTells' /\ NvicTells'
    BY <1>0, <1>3 DEF V_LockTimeout, VsStep, MutexTells, NvicTells
  <2>3. ReadInv'
    BY <1>0, <1>3 DEF V_LockTimeout, Start, VsStep, ReadInv, ReadIsAnswered,
        Reported, Read
  <2>4. OwnersWait' /\ WritesBack'
    BY <1>0, <1>3 DEF V_LockTimeout, Start, VsStep, OwnersWait, WritesBack
  <2>5. QED BY <2>1, <2>2, <2>3, <2>4 DEF IInv
<1>4. CASE V_Got
  <2>1. TypeOK'
    BY <1>0, <1>4 DEF V_Got, VsStep, TypeOK
  <2>2. MutexTells' /\ NvicTells'
    BY <1>0, <1>4 DEF V_Got, VsStep, MutexTells, NvicTells
  <2>3. ReadInv'
    BY <1>0, <1>4 DEF V_Got, Pending, Thread, VsStep, MutexTells, NvicTells,
        ReadInv, ReadIsAnswered, Reported, Read
  <2>4. OwnersWait' /\ WritesBack'
    BY <1>0, <1>4 DEF V_Got, VsStep, OwnersWait, WritesBack
  <2>5. QED BY <2>1, <2>2, <2>3, <2>4 DEF IInv
<1>5. CASE V_Send
  <2>1. TypeOK'
    BY <1>0, <1>5 DEF V_Send, Channels, Start, VsStep, TypeOK
  <2>2. MutexTells' /\ NvicTells'
    BY <1>0, <1>5 DEF V_Send, VsStep, MutexTells, NvicTells
  <2>3. ReadInv'
    BY <1>0, <1>5 DEF V_Send, Start, VsStep, ReadInv, ReadIsAnswered,
        Reported, Read
  <2>4. OwnersWait' /\ WritesBack'
    BY <1>0, <1>5 DEF V_Send, BusIdle, Spi1, Start, VsStep, TypeOK, OwnersWait, WritesBack
  <2>5. QED BY <2>1, <2>2, <2>3, <2>4 DEF IInv
<1>6. CASE V_Sent
  <2>1. TypeOK'
    BY <1>0, <1>6 DEF V_Sent, VsStep, TypeOK
  <2>2. MutexTells' /\ NvicTells'
    BY <1>0, <1>6 DEF V_Sent, VsStep, MutexTells, NvicTells
  <2>3. ReadInv'
    BY <1>0, <1>6 DEF V_Sent, VsStep, ReadInv, ReadIsAnswered, Reported, Read
  <2>4. OwnersWait' /\ WritesBack'
    BY <1>0, <1>6 DEF V_Sent, VsStep, OwnersWait, WritesBack
  <2>5. QED BY <2>1, <2>2, <2>3, <2>4 DEF IInv
<1>7. CASE V_Done
  <2>1. TypeOK'
    BY <1>0, <1>7 DEF V_Done, VsStep, TypeOK
  <2>2. MutexTells' /\ NvicTells'
    BY <1>0, <1>7 DEF V_Done, VsStep, MutexTells, NvicTells
  <2>3. ReadInv'
    BY <1>0, <1>7 DEF V_Done, VsStep, ReadInv, ReadIsAnswered, Reported, Read
  <2>4. OwnersWait' /\ WritesBack'
    BY <1>0, <1>7 DEF V_Done, VsStep, OwnersWait, WritesBack
  <2>5. QED BY <2>1, <2>2, <2>3, <2>4 DEF IInv
<1>8. QED BY <1>1, <1>2, <1>3, <1>4, <1>5, <1>6, <1>7

(* The shoutcast task in RAM_bufput.                                       *)
LEMMA PutKeeps == ASSUME IInv, S_Lock \/ S_Written \/ S_Give \/ S_Second \/
    S_Timeout \/ S_Config PROVE IInv'
<1> USE DEF registers, irq, sc, config
<1>0. /\ TypeOK /\ MutexTells /\ NvicTells
      /\ ReadInv /\ OwnersWait /\ WritesBack
  BY DEF IInv
<1>1. CASE S_Lock
  <2>1. TypeOK'
    BY <1>0, <1>1 DEF S_Lock, Channels, ScStep, Start, TypeOK
  <2>2. MutexTells' /\ NvicTells'
    BY <1>0, <1>1 DEF S_Lock, ScStep, MutexTells, NvicTells
  <2>3. ReadInv'
    BY <1>0, <1>1 DEF S_Lock, Start, ReadInv, ReadIsAnswered, Coming,
        Reported, Read
  <2>4. OwnersWait' /\ WritesBack'
    BY <1>0, <1>1 DEF S_Lock, ScStep, Start, OwnersWait, WritesBack
  <2>5. QED BY <2>1, <2>2, <2>3, <2>4 DEF IInv
<1>2. CASE S_Written
  <2>1. TypeOK'
    BY <1>0, <1>2 DEF S_Written, ScStep, TypeOK
  <2>2. MutexTells' /\ NvicTells'
    BY <1>0, <1>2 DEF S_Written, ScStep, MutexTells, NvicTells
  <2>3. ReadInv'
    BY <1>0, <1>2 DEF S_Written, ReadInv, ReadIsAnswered, Coming, Reported,
        Read
  <2>4. OwnersWait' /\ WritesBack'
    BY <1>0, <1>2 DEF S_Written, ScStep, OwnersWait, WritesBack
  <2>5. QED BY <2>1, <2>2, <2>3, <2>4 DEF IInv
<1>3. CASE S_Give
  <2>1. TypeOK'
    BY <1>0, <1>3 DEF S_Give, ScStep, TypeOK
  <2>2. MutexTells' /\ NvicTells'
    BY <1>0, <1>3 DEF S_Give, ScStep, MutexTells, NvicTells
  <2>3. ReadInv'
    BY <1>0, <1>3 DEF S_Give, ReadInv, ReadIsAnswered, Coming, Reported, Read
  <2>4. OwnersWait' /\ WritesBack'
    BY <1>0, <1>3 DEF S_Give, BusIdle, ScStep, Spi1, OwnersWait, WritesBack
  <2>5. QED BY <2>1, <2>2, <2>3, <2>4 DEF IInv
<1>4. CASE S_Second
  <2>1. TypeOK'
    <3>1. split' \in BOOLEAN
      BY <1>4 DEF S_Second, ScStep
    <3>2. QED
      BY <1>0, <1>4, <3>1 DEF S_Second, Channels, ScStep, Start, TypeOK
  <2>2. MutexTells' /\ NvicTells'
    BY <1>0, <1>4 DEF S_Second, ScStep, MutexTells, NvicTells
  <2>3. ReadInv'
    BY <1>0, <1>4 DEF S_Second, Start, ReadInv, ReadIsAnswered, Coming,
        Reported, Read
  <2>4. OwnersWait' /\ WritesBack'
    BY <1>0, <1>4 DEF S_Second, ScStep, Start, OwnersWait, WritesBack
  <2>5. QED BY <2>1, <2>2, <2>3, <2>4 DEF IInv
<1>5. CASE S_Timeout
  <2>1. TypeOK'
    BY DmaAssumption, <1>0, <1>5 DEF S_Timeout, ScStep, TypeOK
  <2>2. MutexTells' /\ NvicTells'
    BY <1>0, <1>5 DEF S_Timeout, ScStep, MutexTells, NvicTells
  <2>3. ReadInv'
    BY <1>0, <1>5 DEF S_Timeout, ReadInv, ReadIsAnswered, Coming, Reported,
        Read
  <2>4. OwnersWait' /\ WritesBack'
    BY <1>0, <1>5 DEF S_Timeout, ScStep, OwnersWait, WritesBack
  <2>5. QED BY <2>1, <2>2, <2>3, <2>4 DEF IInv
<1>6. CASE S_Config
  <2>1. TypeOK'
    BY <1>0, <1>6 DEF S_Config, ScStep, TypeOK
  <2>2. MutexTells' /\ NvicTells'
    BY <1>0, <1>6 DEF S_Config, ScStep, Thread, MutexTells, NvicTells
  <2>3. ReadInv'
    BY <1>0, <1>6 DEF S_Config, ReadInv, ReadIsAnswered, Coming, Reported,
        Read
  <2>4. OwnersWait' /\ WritesBack'
    BY <1>0, <1>6 DEF S_Config, BusIdle, ScStep, Spi1, OwnersWait, WritesBack
  <2>5. QED BY <2>1, <2>2, <2>3, <2>4 DEF IInv
<1>7. QED BY <1>1, <1>2, <1>3, <1>4, <1>5, <1>6

(* The shoutcast task in DMA_Config.                                       *)
LEMMA ConfigKeeps == ASSUME IInv, C_Clear \/ C_Control \/ C_Config \/ C_Enable
    \/ C_EnableSecond PROVE IInv'
<1> USE DEF registers, irq, sc, config
<1>0. /\ TypeOK /\ MutexTells /\ NvicTells
      /\ ReadInv /\ OwnersWait /\ WritesBack
  BY DEF IInv
<1>1. CASE C_Clear
  <2>1. TypeOK'
    BY <1>0, <1>1 DEF C_Clear, Channels, ScStep, TypeOK
  <2>2. MutexTells' /\ NvicTells'
    BY <1>0, <1>1 DEF C_Clear, ScStep, MutexTells, NvicTells
  <2>3. ReadInv'
    BY <1>0, <1>1 DEF C_Clear, ScStep, MutexTells, ReadInv, ReadIsAnswered,
        Reported, Read
  <2>4. OwnersWait' /\ WritesBack'
    BY <1>0, <1>1 DEF C_Clear, ScStep, OwnersWait, WritesBack
  <2>5. QED BY <2>1, <2>2, <2>3, <2>4 DEF IInv
<1>2. CASE C_Control
  <2>1. TypeOK'
    BY <1>0, <1>2 DEF C_Control, ScStep, TypeOK
  <2>2. MutexTells' /\ NvicTells'
    BY <1>0, <1>2 DEF C_Control, ScStep, MutexTells, NvicTells
  <2>3. ReadInv'
    BY <1>0, <1>2 DEF C_Control, ScStep, MutexTells, ReadInv, ReadIsAnswered,
        Reported, Read
  <2>4. OwnersWait' /\ WritesBack'
    BY <1>0, <1>2 DEF C_Control, Channels, ScStep, VsWaits, TypeOK,
        MutexTells, NvicTells, OwnersWait, WritesBack
  <2>5. QED BY <2>1, <2>2, <2>3, <2>4 DEF IInv
<1>3. CASE C_Config
  <2>1. TypeOK'
    BY <1>0, <1>3 DEF C_Config, Channels, TypeOK
  <2>2. MutexTells' /\ NvicTells'
    BY <1>0, <1>3 DEF C_Config, MutexTells, NvicTells
  <2>3. ReadInv'
    BY <1>0, <1>3 DEF C_Config, MutexTells, ReadInv, WritesBack,
        ReadIsAnswered, Reported, Read
  <2>4. OwnersWait' /\ WritesBack'
    BY <1>0, <1>3 DEF C_Config, OwnersWait, WritesBack
  <2>5. QED BY <2>1, <2>2, <2>3, <2>4 DEF IInv
<1>4. CASE C_Enable
  <2>1. TypeOK'
    BY <1>0, <1>4 DEF C_Enable, ScStep, TypeOK
  <2>2. MutexTells' /\ NvicTells'
    BY <1>0, <1>4 DEF C_Enable, ScStep, MutexTells, NvicTells
  <2>3. ReadInv'
    BY <1>0, <1>4 DEF C_Enable, ReadInv, ReadIsAnswered, Coming, Reported,
        Read
  <2>4. OwnersWait' /\ WritesBack'
    BY <1>0, <1>4 DEF C_Enable, ScStep, OwnersWait, WritesBack
  <2>5. QED BY <2>1, <2>2, <2>3, <2>4 DEF IInv
<1>5. CASE C_EnableSecond
  <2>1. TypeOK'
    <3>1. split' \in BOOLEAN
      BY <1>5 DEF C_EnableSecond, ScStep
    <3>2. QED
      BY <1>0, <1>5, <3>1 DEF C_EnableSecond, Channels, ScStep, Start, TypeOK
  <2>2. MutexTells' /\ NvicTells'
    BY <1>0, <1>5 DEF C_EnableSecond, ScStep, MutexTells, NvicTells
  <2>3. ReadInv'
    BY <1>0, <1>5 DEF C_EnableSecond, Start, ReadInv, ReadIsAnswered, Coming,
        Reported, Read
  <2>4. OwnersWait' /\ WritesBack'
    BY <1>0, <1>5 DEF C_EnableSecond, ScStep, Start, OwnersWait, WritesBack
  <2>5. QED BY <2>1, <2>2, <2>3, <2>4 DEF IInv
<1>6. QED BY <1>1, <1>2, <1>3, <1>4, <1>5

(* Every step keeps the invariant.                                         *)
LEMMA StepKeeps == ASSUME IInv, [Next]_vars PROVE IInv'
<1>1. CASE Controller
  BY <1>1, ControllerKeeps DEF Controller
<1>2. CASE Fault
  BY <1>2, ControllerKeeps, VsKeeps DEF Fault
<1>3. CASE Isr
  BY <1>3, IsrKeeps
<1>4. CASE V_Feed \/ VsTask
  BY <1>4, VsKeeps DEF VsTask
<1>5. CASE S_Lock \/ ScTask
  BY <1>5, PutKeeps, ConfigKeeps DEF ScTask
<1>6. CASE UNCHANGED vars
  BY <1>6 DEF vars, registers, irq, sc, config, IInv, TypeOK, MutexTells, NvicTells,
     ReadInv, ReadIsAnswered, Coming, Reported, Read, OwnersWait, WritesBack
<1>7. QED BY <1>1, <1>2, <1>3, <1>4, <1>5, <1>6 DEF Next

(* The invariant.                                                          *)
LEMMA Invariant == Spec => []IInv
<1>1. Init => IInv
  <2> SUFFICES ASSUME Init PROVE IInv
    OBVIOUS
  <2>1. nvic \in BOOLEAN /\ split \in BOOLEAN /\ enabled \in BOOLEAN
    BY DEF Init
  <2>2. TypeOK
    BY <2>1, DmaAssumption DEF Init, TypeOK, Channels, Waited
  <2>3. MutexTells /\ NvicTells /\ OwnersWait /\ WritesBack
    BY DEF Init, MutexTells, NvicTells, OwnersWait, WritesBack
  <2>4. ReadInv
    BY DEF Init, ReadInv, ReadIsAnswered, Reported, Read
  <2>5. QED BY <2>2, <2>3, <2>4 DEF IInv
<1>2. IInv /\ [Next]_vars => IInv'
  BY StepKeeps
<1>3. QED BY <1>1, <1>2, PTL DEF Spec

(***************************************************************************)
(* The theorems.                                                           *)
(***************************************************************************)
(* Registers, tokens and places keep their ranges.                         *)
THEOREM DmaTypes == Spec => []TypeOK
<1>1. IInv => TypeOK  BY DEF IInv
<1>2. QED BY Invariant, <1>1, PTL

(* However many transfers fail or are given up, the read that RAM_bufget   *)
(* waits for without a timeout ends: DMA_Config never runs beside it.      *)
THEOREM ReadEnds == Spec => []ReadIsAnswered
<1>1. IInv => ReadIsAnswered  BY DEF IInv, ReadInv
<1>2. QED BY Invariant, <1>1, PTL

(* While a channel reads or fills the block of VS_feed, the task waits for *)
(* it.                                                                     *)
THEOREM BlockStays == Spec => []BlockIsHeld
<1>1. IInv => BlockIsHeld
  BY DEF IInv, ReadInv, OwnersWait, BlockIsHeld, Reported
<1>2. QED BY Invariant, <1>1, PTL

(***************************************************************************)
(* What a step does to a wait for channel 1.                               *)
(***************************************************************************)
Waits == vpc = "ch1" /\ vpc' = "ch1"
InConfig == spc \in {"clear", "control", "config"}
ByError == 1 \in errStat' \ errStat

(* It may take away what was to end the wait, or end one that nothing was  *)
(* to end.                                                                 *)
Orderly == Waits => /\ ~ Coming(1)' => ~ Coming(1) \/ InConfig
                    /\ Coming(1)' => Coming(1) \/ ByError

(* A wait begins with a transfer.                                          *)
LEMMA BeginsAnswered ==
    ASSUME IInv, Next, vpc # "ch1", vpc' = "ch1"
    PROVE  Coming(1)'
<1>1. V_LockTimeout \/ V_Send
  BY DEF Next, Controller, Fault, Isr, VsTask, ScTask, Finish, Fail, Stall, GoOn, I_Status,
     I_Clear, I_Give, I_Error, V_Feed, V_Lock, V_Got, V_Sent, V_Done, VsStep, S_Lock,
     S_Written, S_Give, S_Second, S_Timeout, S_Config, C_Clear, C_Control, C_Config, C_Enable,
     C_EnableSecond
<1>2. QED BY <1>1 DEF V_LockTimeout, V_Send, Start, Coming

(* Every step is orderly.                                                  *)
LEMMA StepsOrderly == ASSUME IInv, Next PROVE Orderly
<1> USE DEF registers, irq, sc, config
<1>0. TypeOK /\ NvicTells /\ WritesBack
  BY DEF IInv
<1>1. CASE Controller
  BY <1>0, <1>1 DEF Controller, Finish, GoOn, Waited, Orderly, Coming
<1>2. CASE Fault
  BY <1>0, <1>2 DEF Fault, Fail, Stall, V_LockTimeout, VsStep, Waited, Orderly, Waits,
     ByError, Coming
<1>3. CASE Isr
  BY <1>0, <1>3 DEF Isr, I_Status, I_Clear, I_Give, I_Error, Orderly, Coming
<1>4. CASE V_Feed \/ VsTask
  BY <1>4 DEF VsTask, V_Feed, V_Lock, V_Got, V_Send, V_Sent, V_Done, VsStep, Orderly,
     Waits, Coming
<1>5. CASE S_Lock \/ ScTask
  <2>1. CASE S_Lock \/ S_Second \/ C_EnableSecond
    BY <2>1 DEF S_Lock, S_Second, C_EnableSecond, Start, Orderly, Coming
  <2>2. CASE S_Timeout \/ S_Written \/ S_Give \/ S_Config \/ C_Enable
    BY <2>2 DEF S_Timeout, S_Written, S_Give, S_Config, C_Enable, Orderly, Coming
  <2>3. CASE C_Clear \/ C_Control
    BY <2>3, <1>0 DEF C_Clear, C_Control, ScStep, Orderly, InConfig, Coming
  <2>4. CASE C_Config
    BY <2>4, <1>0 DEF C_Config, WritesBack, Orderly, InConfig, Coming
  <2>5. QED BY <1>5, <2>1, <2>2, <2>3, <2>4 DEF ScTask
<1>6. QED BY <1>1, <1>2, <1>3, <1>4, <1>5 DEF Next

(* Only DMA_Config takes away the end VS_feed waits for without a timeout, *)
(* and only a bus error brings it back.                                    *)
THEOREM ConfigSilences == Spec => OnlyConfigSilences
<1>1. ASSUME IInv, [Next]_vars
      PROVE  [vpc' = "ch1" =>
                /\ vpc # "ch1" => Coming(1)'
                /\ vpc = "ch1" /\ Coming(1) /\ ~Coming(1)' =>
                      spc \in {"clear", "control", "config"}
                /\ vpc = "ch1" /\ ~Coming(1) /\ Coming(1)' =>
                      1 \in errStat' \ errStat]_vars
  BY <1>1, BeginsAnswered, StepsOrderly DEF Orderly, Waits, InConfig, ByError
<1>2. QED BY Invariant, <1>1, PTL DEF Spec, OnlyConfigSilences
=============================================================================
