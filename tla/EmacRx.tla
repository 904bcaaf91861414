------------------------------- MODULE EmacRx -------------------------------
(***************************************************************************)
(* Receiving Ethernet frames: the controller puts frames into a ring of    *)
(* NUM_RX_FRAG descriptors and moves RxProduceIndex; ENET_IRQHandler gives *)
(* semEthRx a token for every frame; the Ethernet task takes a token,      *)
(* copies the frame at RxConsumeIndex into a pbuf and moves that index.    *)
(*                                                                         *)
(* The handler reads IntStatus, clears it and reads RxProduceIndex in      *)
(* three separate accesses, while frames go on landing.  A frame that      *)
(* lands between the clear and the index is counted at once and leaves an  *)
(* interrupt behind; if that one finds no other frame it takes the equal   *)
(* indices for a full round.  The history variable overcount says that     *)
(* this has happened.                                                      *)
(***************************************************************************)
EXTENDS Integers

CONSTANT NUM_RX_FRAG    \* descriptors of the ring, 6

(* What Ethernet assumes of it.                                            *)
RxSizes == NUM_RX_FRAG \in Nat /\ NUM_RX_FRAG >= 2

VARIABLES
  produce, consume,     \* RxProduceIndex, RxConsumeIndex
  fresh,                \* descriptors with a frame nobody has read
  rxDone,               \* IntStatus, bit 3
  isr, status, new,     \* ENET_IRQHandler: place, status, NewRxProd
  last,                 \* LastRxProd
  tokens,               \* semEthRx, a counting semaphore
  epc,                  \* the Ethernet task: "wait" or "read"
  overcount             \* history: a full round was counted for no frame

hw == << produce, fresh, rxDone >>
handler == << isr, status, new, last, overcount >>
task == << consume, epc >>
vars == << hw, handler, task, tokens >>

Slot == 0 .. NUM_RX_FRAG - 1

NextSlot(i) == IF i + 1 = NUM_RX_FRAG THEN 0 ELSE i + 1

(* Slots from one index to another, going round the ring.                  *)
Distance(from, to) == IF from <= to THEN to - from ELSE NUM_RX_FRAG - (from - to)

(* Init_EMAC, low_level_init and rx_descr_init.                            *)
Init ==
    /\ produce = 0 /\ consume = 0 /\ fresh = {}
    /\ rxDone = FALSE /\ overcount = FALSE
    /\ isr = "idle" /\ status = FALSE /\ new = 0 /\ last = 0
    /\ tokens = 0
    /\ epc = "wait"

(* A frame lands, unless the ring is full: it holds one frame less than it *)
(* has descriptors.                                                        *)
Receive ==
    /\ NextSlot(produce) # consume
    /\ fresh' = fresh \cup {produce}
    /\ produce' = NextSlot(produce)
    /\ rxDone' = TRUE
    /\ UNCHANGED << handler, task, tokens >>

(***************************************************************************)
(* ENET_IRQHandler; also entered for a frame sent or an overrun.           *)
(***************************************************************************)
I_Status ==
    /\ isr = "idle"
    /\ status' = rxDone
    /\ isr' = "clear"
    /\ UNCHANGED << hw, new, last, overcount, task, tokens >>

(* IntClear = status: other bits stay.                                     *)
I_Clear ==
    /\ isr = "clear"
    /\ rxDone' = (rxDone /\ ~ status)
    /\ isr' = "index"
    /\ UNCHANGED << produce, fresh, status, new, last, overcount, task, tokens >>

I_Index ==
    /\ isr = "index"
    /\ new' = produce
    /\ isr' = "give"
    /\ UNCHANGED << hw, status, last, overcount, task, tokens >>

(* Mutants: one token for an interrupt, as for frames sent; one too few    *)
(* when the index has wrapped.                                             *)
MutantOneToken == IF last = new THEN 0 ELSE 1
MutantWrapShort == IF last < new THEN new - last ELSE NUM_RX_FRAG - 1 - (last - new)

(* How many frames the handler counts; equal indices mean a full round.    *)
Counted == IF last < new THEN new - last ELSE NUM_RX_FRAG - (last - new)

(* Mutant: LastRxProd is not kept.                                         *)
MutantLastForgotten ==
    /\ isr = "give"
    /\ tokens' = IF status /\ tokens + Counted <= NUM_RX_FRAG THEN tokens + Counted
                 ELSE IF status THEN NUM_RX_FRAG ELSE tokens
    /\ last' = last
    /\ overcount' = (overcount \/ (status /\ last = new))
    /\ isr' = "idle"
    /\ UNCHANGED << hw, status, new, task >>

(* Tokens beyond the maximum of the semaphore are dropped.                 *)
I_Give ==
    /\ isr = "give"
    /\ IF status
       THEN /\ tokens' = IF tokens + Counted <= NUM_RX_FRAG THEN tokens + Counted
                         ELSE NUM_RX_FRAG
            /\ last' = new
       ELSE UNCHANGED << tokens, last >>
    /\ overcount' = (overcount \/ (status /\ last = new))
    /\ isr' = "idle"
    /\ UNCHANGED << hw, status, new, task >>

(***************************************************************************)
(* The Ethernet task, ethernetif_input and low_level_input.  A pending     *)
(* interrupt is served before any step of a task.                          *)
(***************************************************************************)
TaskRuns == isr = "idle" /\ ~ rxDone

E_Take ==
    /\ TaskRuns
    /\ epc = "wait" /\ tokens > 0
    /\ tokens' = tokens - 1
    /\ epc' = "read"
    /\ UNCHANGED << hw, handler, consume >>

(* Copy the frame into a pbuf, or drop it when there is none, and give the *)
(* descriptor back (EndReadFrame).                                         *)
E_Read ==
    /\ TaskRuns
    /\ epc = "read"
    /\ fresh' = fresh \ {consume}
    /\ consume' = NextSlot(consume)
    /\ epc' = "wait"
    /\ UNCHANGED << produce, rxDone, handler, tokens >>

Isr == I_Clear \/ I_Index \/ I_Give
Task == E_Take \/ E_Read
Next == Receive \/ I_Status \/ Isr \/ Task

Spec == Init /\ [][Next]_vars

-----------------------------------------------------------------------------
TypeOK ==
    /\ produce \in Slot /\ consume \in Slot /\ fresh \subseteq Slot
    /\ rxDone \in BOOLEAN /\ overcount \in BOOLEAN
    /\ isr \in {"idle", "clear", "index", "give"} /\ status \in BOOLEAN
    /\ new \in Slot /\ last \in Slot
    /\ tokens \in 0 .. NUM_RX_FRAG
    /\ epc \in {"wait", "read"}

(* low_level_input returns "a pbuf filled with the received packet"        *)
(* (ethernetif.c:162): the descriptor it reads holds a frame, and one that *)
(* was not read before, until an interrupt that finds no frame is counted  *)
(* as a full round; frames that land during the handler alone do no harm.  *)
ReadsAFrame == epc = "read" /\ ~overcount => consume \in fresh

(* Between interrupts the semaphore counts the frames in the ring, to the  *)
(* same extent.                                                            *)
TokensCountFrames ==
    TaskRuns /\ ~overcount =>
        tokens + (IF epc = "read" THEN 1 ELSE 0) = Distance(consume, produce)
=============================================================================
