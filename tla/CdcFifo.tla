------------------------------ MODULE CdcFifo ------------------------------
(***************************************************************************)
(* What either half of the serial port promises the application: bytes     *)
(* come out in the order they went in, each once, until the host takes the *)
(* endpoint away.  CdcRx implements it with the bytes the device           *)
(* acknowledged and udi_cdc_getc(), CdcTx with udi_cdc_putc() and the      *)
(* packets the host fetched: two buffers, a DMA channel, an interrupt      *)
(* handler and a loop each.                                                *)
(***************************************************************************)
EXTENDS Naturals, Sequences

CONSTANTS
  Byte,
  ChunkSize,  \* the most that is put in at once
  Lost        \* what a restart takes: the "latest" bytes or the "oldest"

VARIABLES
  pipe,   \* bytes put in and not yet taken
  taken,  \* the bytes taken last
  epoch   \* flips whenever the host halts, stops or restarts the endpoint

fifoVars == <<pipe, taken, epoch>>

Chunk == UNION {[1 .. n -> Byte] : n \in 1 .. ChunkSize}

Init == pipe = <<>> /\ taken \in Seq(Byte) /\ epoch \in {0, 1}

Accept ==
  /\ \E chunk \in Chunk : pipe' = pipe \o chunk
  /\ UNCHANGED <<taken, epoch>>

Take ==
  /\ \E n \in 1 .. Len(pipe) : /\ taken' = SubSeq(pipe, 1, n)
                               /\ pipe' = SubSeq(pipe, n + 1, Len(pipe))
  /\ UNCHANGED epoch

\* A receiver keeps what it has in its buffers and loses the bytes the endpoint
\* holds, which are the latest; a transmitter the oldest, and it may send those
\* of the transfer under way again.
Cut ==
  /\ \/ /\ Lost = "latest"
        /\ \E k \in 0 .. Len(pipe) : pipe' = SubSeq(pipe, 1, k)
     \/ /\ Lost = "oldest"
        /\ \E k \in 0 .. Len(pipe), again \in Chunk \cup {<<>>} :
             pipe' = again \o SubSeq(pipe, k + 1, Len(pipe))
  /\ epoch' = 1 - epoch
  /\ UNCHANGED taken

Next == Accept \/ Take \/ Cut

Spec == Init /\ [][Next]_fifoVars
=============================================================================
