------------------------------ MODULE Ethernet ------------------------------
(***************************************************************************)
(* The whole Ethernet driver: both rings of the controller behind the one  *)
(* ENET_IRQHandler.  The handler reads IntStatus once for both directions, *)
(* clears what it read, takes RxProduceIndex, counts the received frames   *)
(* if bit 3 was set and gives a token for frames sent if bit 7 was; it     *)
(* runs for either reason, so an interrupt for a frame sent also looks at  *)
(* a ring that frames are landing in, and the other way round.             *)
(*                                                                         *)
(* Sending is EmacTx, extended; receiving is the instance Rx of EmacRx.    *)
(* Their handlers run in step: the status and clear accesses are one       *)
(* action of both, the index and the two branches one action of each.      *)
(***************************************************************************)
EXTENDS EmacTx

CONSTANT NUM_RX_FRAG

VARIABLES rproduce, rconsume, fresh, rxDone, risr, rstatus, new, last,
          rtokens, epc, overcount

Rx == INSTANCE EmacRx WITH produce <- rproduce, consume <- rconsume,
                           isr <- risr, status <- rstatus, tokens <- rtokens

ASSUME EthAssumption == Rx!RxSizes

rxVars == << rproduce, rconsume, fresh, rxDone, risr, rstatus, new, last,
             rtokens, epc, overcount >>
ethVars == << vars, rxVars >>

(* Init_EMAC and low_level_init set up both rings.                         *)
EthInit == Init /\ Rx!Init

(***************************************************************************)
(* The controller works on its own in both directions.                     *)
(***************************************************************************)
FrameSent == Send /\ UNCHANGED rxVars
FrameReceived == Rx!Receive /\ UNCHANGED vars

(***************************************************************************)
(* ENET_IRQHandler.                                                        *)
(***************************************************************************)
(* One read of IntStatus serves both branches.                             *)
ReadStatus == I_Status /\ Rx!I_Status

ClearStatus == I_Clear /\ Rx!I_Clear
ReadIndex == Rx!I_Index /\ UNCHANGED vars
RxBranch == Rx!I_Give /\ UNCHANGED vars
TxBranch == risr = "idle" /\ I_Give /\ UNCHANGED rxVars

Handler == ClearStatus \/ ReadIndex \/ RxBranch \/ TxBranch

(***************************************************************************)
(* The tasks run when no interrupt of either kind is served or pending.    *)
(***************************************************************************)
Thread == isr = "idle" /\ ~ txDone /\ ~ rxDone

OutputStep == Thread /\ Output /\ UNCHANGED rxVars
InputStep == Thread /\ Rx!Task /\ UNCHANGED vars

EthNext == \/ FrameSent \/ FrameReceived
           \/ ReadStatus \/ Handler
           \/ OutputStep \/ InputStep

EthSpec == EthInit /\ [][EthNext]_ethVars

(* A pending interrupt is taken, and the handler ends; the Ethernet task   *)
(* comes to run between interrupts.                                        *)
EthLiveSpec ==
    /\ EthSpec
    /\ WF_ethVars((txDone \/ rxDone) /\ ReadStatus)
    /\ WF_ethVars(Handler)
    /\ SF_ethVars(InputStep)

-----------------------------------------------------------------------------
(* The receive ring's variables keep their types, in step with the other.  *)
RxTypeOK ==
    /\ Rx!TypeOK
    /\ risr \in {"clear", "index", "give"} => isr \in {"clear", "give"}

(* low_level_input reads descriptors that hold an unread frame, also when  *)
(* the interrupt was for a frame sent.                                     *)
ReadsAFrame == Rx!ReadsAFrame

(* Between interrupts semEthRx counts the frames in the ring, however the  *)
(* interrupts of both directions merged, until a round is overcounted.     *)
TokensCountFrames ==
    Thread /\ ~overcount =>
        rtokens + (IF epc = "read" THEN 1 ELSE 0) = Rx!Distance(rconsume, rproduce)

(* A received frame is read, also while the other tasks keep sending or    *)
(* wait at a ring that is full for ever.                                   *)
EveryFrameIsRead == \A i \in Rx!Slot : i \in fresh ~> i \notin fresh \/ overcount
=============================================================================
