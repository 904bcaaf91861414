---------------------------- MODULE PlaybackInv ----------------------------
(***************************************************************************)
(* The inductive invariant behind the safety properties of Playback, in    *)
(* named parts.  What it says of the number of bytes stored holds unless a *)
(* header has just overrun the buffer; the rest holds always.              *)
(***************************************************************************)
EXTENDS Playback

(* A buffer filled to the threshold still has room for the bytes that come *)
(* with headers and for one segment.                                       *)
HeaderRoom == TRESH + HDRROOM + MAXCHUNK <= RAM_BUFSIZE - 1

Counted == overrun # "now"

InBufput == spc \in {"ch0", "bsy", "wrap", "late", "config", "give"}

(* A part of a piece is being written, or the next one is about to be.     *)
InPiece == spc \in {"ch0", "bsy", "late"} \/ (spc = "config" /\ MoreInOtherChip)

(* Who holds xSPI1_Mutex.                                                  *)
MutexHolders ==
    /\ mutex = "vs" <=> vpc = "ch2"
    /\ mutex = "sc" <=> InBufput
    /\ mutex = "tp" <=> tpc = "exec"

(* Suspension and flaga differ only between the two statements that change *)
(* them.                                                                   *)
Modes ==
    /\ spc \in {"suspend", "stop"} => flaga = "PLAY"
    /\ spc \in {"rtail", "rhead", "resume", "play"} => flaga = "STOP"
    /\ suspended <=> \/ flaga = "STOP" /\ spc # "play"
                     \/ spc = "stop"

(* The VS task in RAM_bufget has more than a block before it, and the      *)
(* shoutcast task only suspends it when there is less, and resumes it when *)
(* there is more than the threshold.  Only an overrun lets it be suspended *)
(* there; with the mutex, it then stays so, and nothing is put any more.   *)
Feeding ==
    /\ vpc \in {"lock", "ch2"} /\ ~ suspended /\ Counted => stored > BLOCK
    /\ vpc \in {"lock", "ch2"} /\ suspended => overrun # "never"
    /\ vpc = "ch2" /\ ~ suspended => vtail = tail
    /\ vpc = "ch2" /\ suspended => InReset \/ (Counted /\ stored = 0)
    /\ spc = "suspend" /\ Counted => stored < BLOCK
    /\ spc = "resume" /\ Counted => stored > TRESH

(* head and tail describe what is stored.                                  *)
RingShape ==
    /\ stored \in 0 .. RAM_BUFSIZE - 1
    /\ Aligned(tail) /\ Aligned(vtail)
    /\ spc = "rhead" => tail = 0
    /\ ~ Counted => stored = 0
    /\ BuflenExact

(* Which loop a call of RAM_bufput belongs to, and that it has a byte.     *)
PutCall ==
    /\ spc \in {"empty", "suspend", "stop", "rtail", "rhead", "demux", "room",
               "tresh"} => phase = "stream"
    /\ spc = "lock" => todo > 0

(* The part of a piece that is being written.                              *)
PutParts ==
    InPiece =>
      /\ piece > 0 /\ written <= piece
      /\ \/ shead = head /\ written = 0
         \/ shead = CHIPSIZE /\ head + written = CHIPSIZE
         \/ shead = 0 /\ head + written = RAM_BUFSIZE

(* Bytes RAM_buffree was asked about that are not in the buffer yet.       *)
Reserved ==
    IF InPiece THEN piece + todo
    ELSE IF spc \in {"lock", "wrap", "config", "give"} THEN todo ELSE 0

(* They have room, unless they came with a header.                         *)
Capacity ==
    Counted /\ phase = "stream" => stored + Reserved <= RAM_BUFSIZE - 1

(* While the buffer fills it holds at most a threshold, what came with     *)
(* headers, and the segment at hand.                                       *)
FillLevel ==
    flaga = "STOP" /\ HeadersFit =>
      /\ spc \in {"connect", "header", "recv", "empty", "demux"}
           => stored <= TRESH + hdrBytes
      /\ spc = "room" => stored + todo + post <= TRESH + hdrBytes + MAXCHUNK
      /\ spc = "lock" \/ InBufput
           => IF phase = "header" THEN stored + Reserved <= TRESH + hdrBytes
              ELSE stored + Reserved + post <= TRESH + hdrBytes + MAXCHUNK

(* A transfer on SPI1 belongs to the task that waits for it, except on a   *)
(* channel 0 that had stalled and was left enabled.                        *)
Transfers ==
    /\ dma[0] \in {"runs", "stalled"} => spc \in {"ch0", "bsy", "late"}
    /\ dma[2] = "runs" => vpc = "ch2"
    /\ sem[2] = 1 => vpc = "ch2" /\ dma[2] # "runs"

(* The inductive invariant.                                                *)
IInv ==
    /\ TypeOK /\ MutexHolders /\ Modes /\ Feeding /\ RingShape
    /\ PutCall /\ PutParts /\ Capacity /\ FillLevel /\ Transfers
=============================================================================
