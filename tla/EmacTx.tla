------------------------------- MODULE EmacTx -------------------------------
(***************************************************************************)
(* Sending Ethernet frames: low_level_output takes a token of semEthTx,    *)
(* copies the frame behind the descriptor at TxProduceIndex and moves that *)
(* index; the controller sends what lies between the indices; and          *)
(* ENET_IRQHandler gives one token back for an interrupt.                  *)
(*                                                                         *)
(* The TCP/IP thread sends in this way and so does the timer task, whose   *)
(* callback calls the DHCP client (main.c:164); both have priority 7, and  *)
(* nothing keeps one out while the other is between RequestSend and        *)
(* CopyToFrame_EMAC_End, where tptr and TxProduceIndex are shared.  The    *)
(* history variable mixed says that they have met there.                   *)
(***************************************************************************)
EXTENDS Integers, FiniteSets

CONSTANTS NUM_TX_FRAG,  \* descriptors of the ring, 4; initial tokens too
          NUM_SENDERS   \* tasks that send, 2

ASSUME TxAssumption ==
    /\ NUM_TX_FRAG \in Nat /\ NUM_TX_FRAG >= 2
    /\ NUM_SENDERS \in Nat

VARIABLES
  produce, consume,     \* TxProduceIndex, TxConsumeIndex
  unsent,               \* descriptors with a frame that was not sent
  txDone,               \* IntStatus, bit 7
  isr, status,          \* ENET_IRQHandler: place, status
  tokens,               \* semEthTx, a counting semaphore
  tptr,                 \* the descriptor that WriteFrame_EMAC writes behind
  opc,                  \* low_level_output: place of each sender
  mixed                 \* history: two senders wrote at the same time

Sender == 1 .. NUM_SENDERS

hw == << produce, consume, unsent, txDone >>
handler == << isr, status >>
senders == << tptr, opc, mixed >>
vars == << hw, handler, tokens, senders >>

Slot == 0 .. NUM_TX_FRAG - 1

NextSlot(i) == IF i + 1 = NUM_TX_FRAG THEN 0 ELSE i + 1

(* The slots between the indices: the controller takes equal indices for   *)
(* an empty ring.                                                          *)
InRing == IF consume <= produce THEN consume .. produce - 1
          ELSE Slot \ (produce .. consume - 1)

(* tx_descr_init and low_level_init.                                       *)
Init ==
    /\ produce = 0 /\ consume = 0 /\ unsent = {}
    /\ txDone = FALSE
    /\ isr = "idle" /\ status = FALSE
    /\ tokens = NUM_TX_FRAG
    /\ tptr = 0 /\ mixed = FALSE
    /\ opc = [s \in Sender |-> "idle"]

(* The controller sends a frame and reports it.                            *)
Send ==
    /\ consume # produce
    /\ unsent' = unsent \ {consume}
    /\ consume' = NextSlot(consume)
    /\ txDone' = TRUE
    /\ UNCHANGED << produce, handler, tokens, senders >>

(***************************************************************************)
(* ENET_IRQHandler; also entered for frames received.                      *)
(***************************************************************************)
I_Status ==
    /\ isr = "idle"
    /\ status' = txDone
    /\ isr' = "clear"
    /\ UNCHANGED << hw, tokens, senders >>

(* Mutant: all bits are cleared, not those that were read.                 *)
MutantClearAll ==
    /\ isr = "clear"
    /\ txDone' = FALSE
    /\ isr' = "give"
    /\ UNCHANGED << produce, consume, unsent, status, tokens, senders >>

(* IntClear = status: a bit set since status was read stays.               *)
I_Clear ==
    /\ isr = "clear"
    /\ txDone' = (txDone /\ ~ status)
    /\ isr' = "give"
    /\ UNCHANGED << produce, consume, unsent, status, tokens, senders >>

I_Give ==
    /\ isr = "give"
    /\ tokens' = IF status /\ tokens < NUM_TX_FRAG THEN tokens + 1 ELSE tokens
    /\ isr' = "idle"
    /\ UNCHANGED << hw, status, senders >>

(***************************************************************************)
(* A task in low_level_output.  A pending interrupt is served before any   *)
(* step of a task.                                                         *)
(***************************************************************************)
TaskRuns == isr = "idle" /\ ~ txDone

Goes(s, from, to) == TaskRuns /\ opc[s] = from /\ opc' = [opc EXCEPT ![s] = to]

(* Has begun to write a frame and not yet put it into the ring.            *)
Writing(s) == opc[s] \in {"copy", "end"}

(* A sender is "idle" while it has no token, also when it waits for one.   *)
O_Take(s) ==
    /\ Goes(s, "idle", "request")
    /\ tokens > 0
    /\ tokens' = tokens - 1
    /\ UNCHANGED << hw, handler, tptr, mixed >>

(* RequestSend: the descriptor at the index is taken.                      *)
O_Request(s) ==
    /\ Goes(s, "request", "copy")
    /\ tptr' = produce
    /\ mixed' = (mixed \/ \E r \in Sender : Writing(r))
    /\ UNCHANGED << hw, handler, tokens >>

(* Mutant: the index is moved before the frame is copied.                  *)
MutantEndFirst(s) ==
    /\ Goes(s, "copy", "end")
    /\ produce' = NextSlot(produce)
    /\ UNCHANGED << consume, unsent, txDone, handler, tokens, tptr, mixed >>

(* CopyToFrame_EMAC_Start, for every pbuf of the frame.                    *)
O_Copy(s) ==
    /\ Goes(s, "copy", "end")
    /\ unsent' = unsent \cup {tptr}
    /\ UNCHANGED << produce, consume, txDone, handler, tokens, tptr, mixed >>

(* CopyToFrame_EMAC_End moves the index, in one step: a sender that came   *)
(* between its read and its write would have mixed with this one already.  *)
(* Nobody asks whether the ring is full; low_level_output returns ERR_OK.  *)
O_End(s) ==
    /\ Goes(s, "end", "idle")
    /\ produce' = NextSlot(produce)
    /\ UNCHANGED << consume, unsent, txDone, handler, tokens, tptr, mixed >>

Isr == I_Clear \/ I_Give
Output == \E s \in Sender : O_Take(s) \/ O_Request(s) \/ O_Copy(s) \/ O_End(s)
Next == Send \/ I_Status \/ Isr \/ Output

Spec == Init /\ [][Next]_vars

-----------------------------------------------------------------------------
TypeOK ==
    /\ produce \in Slot /\ consume \in Slot /\ unsent \subseteq Slot
    /\ txDone \in BOOLEAN /\ mixed \in BOOLEAN
    /\ isr \in {"idle", "clear", "give"} /\ status \in BOOLEAN
    /\ tokens \in 0 .. NUM_TX_FRAG
    /\ tptr \in Slot
    /\ opc \in [Sender -> {"idle", "request", "copy", "end"}]

(* The semaphore lets in as many frames as there are descriptors.  When    *)
(* they all wait to be sent the indices meet: the controller takes the     *)
(* ring for empty, and no token ever comes back.                           *)
Choked ==
    /\ produce = consume /\ unsent = Slot
    /\ tokens = 0 /\ ~txDone /\ (status => isr # "give")

(* A frame that was written but is not yet between the indices.            *)
BeingPut == IF \E s \in Sender : opc[s] = "end" THEN {produce} ELSE {}

(* "@return ERR_OK if the packet could be sent" (ethernetif.c:111): as     *)
(* long as no two senders have mixed their frames, the frames that         *)
(* low_level_output accepted are the ones the controller sees, or the ring *)
(* is choked by as many frames as it has descriptors.                      *)
AcceptedIsInRing == mixed \/ Choked \/ unsent = InRing \cup BeingPut

(* Who waits for a token waits for an interrupt that will come or for      *)
(* another sender to put its frame into the ring, or the ring is choked.   *)
WaitIsAnswered ==
    tokens = 0 =>
        \/ mixed \/ Choked
        \/ consume # produce \/ txDone \/ (status /\ isr # "idle")
        \/ \E s \in Sender : opc[s] # "idle"
=============================================================================
