------------------------------- MODULE CdcTx -------------------------------
(***************************************************************************)
(* The sending half of the serial port (udi_cdc.c).  The application fills *)
(* one of two buffers; a start-of-frame, or the end of the transfer before *)
(* it, sends it and leaves the application the other one.  When both are   *)
(* full a flag tells which goes first.                                     *)
(*                                                                         *)
(* The USB interrupt may come between any two steps of the application,    *)
(* which are cut where the code leaves its critical sections: in           *)
(* udi_cdc_putc() and udi_cdc_write_buf() between the test for space and   *)
(* the store.  A handler runs to its end.                                  *)
(*                                                                         *)
(* The application of this firmware has its calls of udi_cdc_putc()        *)
(* commented out; the model's calls the interface as udi_cdc.h offers it.  *)
(***************************************************************************)
EXTENDS Integers, Sequences, SequencesExt

CONSTANTS
  PacketSize,  \* bytes of a full packet
  BufSize,     \* UDI_CDC_TX_BUFFERS: bytes of a buffer
  Banks,       \* banks of the endpoint
  ZlpWait,     \* idle start-of-frames before an empty transfer: 100 or 800
  Frames,      \* BOUND: (micro-)frames are numbered modulo this
  ByteValues,  \* BOUND: bytes are numbered modulo this
  MaxWrite     \* BOUND: bytes the application writes in one call

ASSUME CdcTxAssumption ==
  /\ PacketSize \in Nat \ {0} /\ BufSize \in Nat \ {0}
  /\ \E k \in 1 .. BufSize : BufSize = k * PacketSize
  /\ Banks \in Nat \ {0} /\ ZlpWait \in Nat \ {0}
  /\ Frames \in Nat \ {0} /\ ByteValues \in Nat \ {0} /\ MaxWrite \in Nat \ {0}

VARIABLES
  tx,     \* the file's TX statics: ongoing, both (both_buf_to_send), sel, sof
          \* (sof_num) and idle (sof_zlp_counter); buf: bytes of each buffer, as
          \* many as its tx_buf_nb says
  ep,     \* the endpoint: off, on or halted; the port runs unless it is off
  job,    \* its udd_ep_job: busy, buffer, size, bytes moved, empty packet to come
  line,   \* packets in the endpoint's banks
  sof,    \* the frame's number, and whether its interrupt is pending
  main,   \* where the application is, what it called, bytes left to write
  next,   \* the next byte it writes
  host,   \* bytes of the packet the host took last, and whether the transfer is
          \* open for it: that packet was full
  epoch   \* ghost: flips when a halt, stop or restart of the endpoint takes effect

vars == <<tx, ep, job, line, sof, main, next, host, epoch>>

Byte == 0 .. ByteValues - 1
Strings(n) == UNION {[1 .. k -> Byte] : k \in 0 .. n}
Buffers == {0, 1}
NoJob == [busy |-> FALSE, src |-> 0, size |-> 0, at |-> 0, zlp |-> FALSE]

Other(i) == IF i = 0 THEN 1 ELSE 0

\* n consecutive bytes, as the application numbers them.
Run(n) == [i \in 1 .. n |-> (next + i - 1) % ByteValues]

-----------------------------------------------------------------------------
(* udi_cdc_tx_send(): the statics and the job after it                     *)

\* Mutant of Chosen: a full buffer that waits is overtaken by the current one.
ChosenCurrent(s) == [src |-> s.sel, sel |-> Other(s.sel)]

\* The current buffer goes out and the other becomes current; if both wait, the
\* other goes first and the current one stays.
Chosen(s) == IF s.both THEN [src |-> Other(s.sel), sel |-> s.sel]
             ELSE [src |-> s.sel, sel |-> Other(s.sel)]

Empty(s) == s.buf[s.sel] = <<>>

\* A transfer is on-going, or the last short one was sent in this frame.  A
\* frame whose number is 0 looks like one in which a transfer was sent.
Waits(s) == s.ongoing \/ s.sof = sof.frame

\* Mutant of Counted: idle calls are not counted.
CountedNot(idle) == idle

\* sof_zlp_counter++
Counted(idle) == idle + 1

\* Nothing in the current buffer, and not for long enough to send an empty
\* transfer.
Rests(s) == Empty(s) /\ Counted(s.idle) < ZlpWait

\* udd_ep_run(): refused on an endpoint that is off or halted, or a busy one.
\* An empty packet follows a short transfer that fills its last packet.
Armed(e, j, src, bytes) ==
  IF e = "on" /\ ~j.busy
  THEN [busy |-> TRUE, src |-> src, size |-> Len(bytes), at |-> 0,
        zlp |-> Len(bytes) # BufSize /\ Len(bytes) % PacketSize = 0]
  ELSE j

\* What a short transfer is told from a full one by.
Stamp(bytes) == IF Len(bytes) # BufSize THEN sof.frame ELSE 0

TxSend(s, e, j) ==
  LET c == Chosen(s)
      bytes == s.buf[c.src]
  IN CASE Waits(s) -> [tx |-> s, job |-> j]
       [] ~Waits(s) /\ Rests(s) -> [tx |-> [s EXCEPT !.idle = Counted(@)], job |-> j]
       [] OTHER -> [tx |-> [s EXCEPT !.idle = 0, !.sel = c.sel, !.ongoing = TRUE,
                                     !.sof = Stamp(bytes)],
                    job |-> Armed(e, j, c.src, bytes)]

\* Mutant of Sent: the current buffer is emptied instead of the one sent.
SentCurrent(s) ==
  [s EXCEPT !.buf[s.sel] = <<>>, !.both = FALSE, !.ongoing = FALSE]

\* udi_cdc_data_sent() before it sends on.
Sent(s) == [s EXCEPT !.buf[Other(s.sel)] = <<>>, !.both = FALSE, !.ongoing = FALSE]

-----------------------------------------------------------------------------
(* The controller and the host                                             *)

\* Interrupts are masked for less than a frame.
NewFrame ==
  /\ ~sof.due
  /\ sof' = [frame |-> (sof.frame + 1) % Frames, due |-> TRUE]
  /\ UNCHANGED <<tx, ep, job, line, main, next, host, epoch>>

PacketLen(j) == IF j.size - j.at < PacketSize THEN j.size - j.at ELSE PacketSize

DmaMove ==
  /\ job.busy /\ job.at < job.size /\ Len(line) < Banks
  /\ line' = Append(line, SubSeq(tx.buf[job.src], job.at + 1, job.at + PacketLen(job)))
  /\ job' = [job EXCEPT !.at = @ + PacketLen(job)]
  /\ UNCHANGED <<tx, ep, sof, main, next, host, epoch>>

\* The host fetches a packet and gives it to its reader.
HostTake ==
  /\ ep = "on" /\ line # <<>>
  /\ line' = Tail(line)
  /\ host' = [got |-> IF Head(line) = <<>> THEN host.got ELSE Head(line),
              open |-> Len(Head(line)) = PacketSize]
  /\ UNCHANGED <<tx, ep, job, sof, main, next, epoch>>

-----------------------------------------------------------------------------
(* The firmware, in the USB interrupt                                      *)

\* The end of the DMA's transfer, or a free bank for the empty packet.
TransferEnds ==
  LET s == TxSend(Sent(tx), ep, NoJob)
  IN /\ job.busy /\ job.at = job.size
     /\ job.zlp => Len(line) < Banks
     /\ line' = IF job.zlp THEN Append(line, <<>>) ELSE line
     /\ tx' = s.tx /\ job' = s.job
     /\ UNCHANGED <<ep, sof, main, next, host, epoch>>

\* udi_cdc_data_sof_notify(), unless no configuration is set.  If the endpoint is
\* halted udd_ep_run() refuses, and what was to be sent counts as on-going.
SofNotify ==
  LET s == TxSend(tx, ep, job)
  IN /\ sof.due
     /\ sof' = [sof EXCEPT !.due = FALSE]
     /\ IF ep = "off" THEN UNCHANGED <<tx, job, epoch>>
        ELSE /\ tx' = s.tx /\ job' = s.job
             /\ epoch' = IF ~tx.ongoing /\ s.tx.ongoing /\ ~s.job.busy
                        THEN 1 - epoch ELSE epoch
     /\ UNCHANGED <<ep, line, main, next, host>>

\* The statics as udi_cdc_data_enable() sets them; it leaves sof_zlp_counter.
Fresh == [ongoing |-> FALSE, both |-> FALSE, sel |-> 0, sof |-> 0, idle |-> tx.idle,
          buf |-> [b \in Buffers |-> <<>>]]

\* SET_CONFIGURATION, SET_INTERFACE: the endpoint is freed and allocated.
Enable ==
  LET s == TxSend(Fresh, "on", NoJob)
  IN /\ ep' = "on"
     /\ tx' = s.tx /\ job' = s.job /\ line' = <<>>
     /\ host' = [host EXCEPT !.open = FALSE]
     /\ epoch' = 1 - epoch
     /\ UNCHANGED <<sof, main, next>>

\* Bus reset, SET_CONFIGURATION 0.  An aborted transfer's callback does nothing.
Disable ==
  /\ ep # "off" /\ ep' = "off"
  /\ job' = NoJob /\ line' = <<>>
  /\ host' = [host EXCEPT !.open = FALSE]
  /\ epoch' = 1 - epoch
  /\ UNCHANGED <<tx, sof, main, next>>

\* SET_FEATURE(ENDPOINT_HALT): the banks are killed, the job aborted.
SetHalt ==
  /\ ep = "on" /\ ep' = "halted"
  /\ job' = NoJob /\ line' = <<>>
  /\ host' = [host EXCEPT !.open = FALSE]
  /\ epoch' = 1 - epoch
  /\ UNCHANGED <<tx, sof, main, next>>

ClearHalt ==
  /\ ep = "halted" /\ ep' = "on"
  /\ UNCHANGED <<tx, job, line, sof, main, next, host, epoch>>

\* The display's interface is restarted: udd_ep_alloc() of its endpoint 1 moves
\* this endpoint's memory and runs its job again from the start.
Reallocate ==
  /\ ep = "on"
  /\ job' = IF job.busy THEN Armed(ep, NoJob, job.src, tx.buf[job.src]) ELSE job
  /\ line' = <<>>
  /\ epoch' = 1 - epoch
  /\ UNCHANGED <<tx, ep, sof, main, next, host>>

-----------------------------------------------------------------------------
(* The application                                                         *)

Idle == [pc |-> "idle", call |-> "putc", left |-> 0]

\* udi_cdc_putc() of a character of 8 or 9 bits, or the same with "block";
\* udi_cdc_write_buf(); udi_cdc_get_free_tx_buffer() or is_tx_ready() alone.
Call(c, n) ==
  /\ main.pc = "idle"
  /\ c \in {"putc", "putc_block"} => n \in {1, 2}
  /\ c = "free" => n = 1
  /\ main' = [pc |-> "check", call |-> c, left |-> n]
  /\ UNCHANGED <<tx, ep, job, line, sof, next, host, epoch>>

\* udi_cdc_get_free_tx_buffer(): the statics after it.  A full buffer is left
\* for the other one if that is not in use.
FreeSpace(s) ==
  IF Len(s.buf[s.sel]) = BufSize /\ ~s.ongoing /\ ~s.both
  THEN [s EXCEPT !.both = TRUE, !.sel = Other(@)] ELSE s

Free(s) == BufSize - Len(s.buf[s.sel])

\* Mutant of GivesUp: a writer does not look whether the port runs.
GivesUpNever == main.call \in {"putc", "free"}

\* No space: udi_cdc_putc() and the query return, the others only when the port
\* is stopped.
GivesUp == ep = "off" \/ main.call \in {"putc", "free"}

\* Up to the end of the first critical section.
Check ==
  LET s == FreeSpace(tx)
  IN /\ main.pc = "check"
     /\ tx' = s
     /\ main' = IF Free(s) > 0 /\ main.call # "free" THEN [main EXCEPT !.pc = "store"]
                ELSE IF GivesUp THEN Idle ELSE main
     /\ UNCHANGED <<ep, job, line, sof, next, host, epoch>>

\* Mutant of Stored: the space is the one found before.
StoredAll == main.left

\* The second critical section: a byte, or what fits.
Stored == IF main.call = "write" /\ main.left > Free(tx) THEN Free(tx)
          ELSE IF main.call = "write" THEN main.left ELSE 1

Store ==
  /\ main.pc = "store"
  /\ tx' = [tx EXCEPT !.buf[tx.sel] = @ \o Run(Stored)]
  /\ next' = (next + Stored) % ByteValues
  /\ main' = IF main.left > Stored
             THEN [main EXCEPT !.pc = "check", !.left = @ - Stored] ELSE Idle
  /\ UNCHANGED <<ep, job, line, sof, host, epoch>>

Calls == {"putc", "putc_block", "write", "free"}

-----------------------------------------------------------------------------
Init ==
  /\ ep = "off" /\ job = NoJob /\ line = <<>>
  /\ tx = [ongoing |-> FALSE, both |-> FALSE, sel |-> 0, sof |-> 0, idle |-> 0,
           buf |-> [b \in Buffers |-> <<>>]]
  /\ sof = [frame |-> 0, due |-> FALSE]
  /\ main = Idle
  /\ next = 0
  /\ host = [got |-> <<>>, open |-> FALSE]
  /\ epoch = 0

Next ==
  \/ NewFrame \/ DmaMove \/ HostTake
  \/ TransferEnds \/ SofNotify
  \/ Enable \/ Disable \/ SetHalt \/ ClearHalt \/ Reallocate
  \/ \E c \in Calls, n \in 1 .. MaxWrite : Call(c, n)
  \/ Check \/ Store

Spec == Init /\ [][Next]_vars

\* Frames come, their interrupt and that of a transfer's end are not masked for
\* long, the application goes on between interrupts, and the host's driver
\* fetches what the endpoint has.
Fairness ==
  /\ WF_vars(NewFrame) /\ WF_vars(SofNotify)
  /\ WF_vars(DmaMove) /\ WF_vars(TransferEnds)
  /\ WF_vars(HostTake)
  /\ WF_vars(Check) /\ WF_vars(Store)

FairSpec == Spec /\ Fairness

-----------------------------------------------------------------------------
(* Properties                                                              *)

\* With the buffers' bounds: between its test for space and its store the
\* application's buffer is swapped, sent and emptied, but never fills up.
TypeOK ==
  /\ tx \in [ongoing : BOOLEAN, both : BOOLEAN, sel : Buffers, sof : 0 .. Frames - 1,
             idle : 0 .. ZlpWait - 1, buf : [Buffers -> Strings(BufSize)]]
  /\ ep \in {"off", "on", "halted"}
  /\ job \in [busy : BOOLEAN, src : Buffers, size : 0 .. BufSize, at : 0 .. BufSize,
              zlp : BOOLEAN]
  /\ line \in Seq(Strings(PacketSize)) /\ Len(line) <= Banks
  /\ sof \in [frame : 0 .. Frames - 1, due : BOOLEAN]
  /\ main \in [pc : {"idle", "check", "store"}, call : Calls, left : 0 .. MaxWrite]
  /\ next \in Byte
  /\ host \in [got : Strings(PacketSize), open : BOOLEAN]
  /\ epoch \in {0, 1}

\* A transfer that is "on-going" with no job behind it: one that was aborted by a
\* halt, or refused by a halted endpoint.  Only udi_cdc_data_enable() ends it.
Stuck == tx.ongoing /\ ~job.busy

\* The buffer that is sent is not the one the application writes to, and it is
\* the older: a buffer other than the current one holds bytes only while it is
\* sent or waits, full, to be sent first.
SenderAndWriterApart ==
  /\ job.busy => /\ tx.ongoing /\ job.src = Other(tx.sel)
                 /\ job.size = Len(tx.buf[job.src])
  /\ tx.buf[Other(tx.sel)] # <<>> =>
       \/ tx.ongoing
       \/ tx.both /\ Len(tx.buf[Other(tx.sel)]) = BufSize

\* What is between the application and the host, the oldest first.
Drop(s, n) == SubSeq(s, n + 1, Len(s))

Pipe ==
  IF ep = "off" \/ Stuck THEN <<>>
  ELSE FlattenSeq(line)
       \o Drop(tx.buf[Other(tx.sel)], IF job.busy THEN job.at ELSE 0)
       \o tx.buf[tx.sel]

Fifo == INSTANCE CdcFifo WITH ChunkSize <- BufSize, Lost <- "oldest",
                              pipe <- Pipe, taken <- host.got

\* The two buffers, the transfers and the banks behave as one queue: no byte is
\* lost, repeated or out of order until the host takes the endpoint away.
IsFifo == Fifo!Spec

\* The host stops halting, stopping and restarting the endpoint.
Steady == <>[][epoch' = epoch]_epoch

\* What is buffered moves on as long as the endpoint is there: the wait for the
\* next frame, for the empty transfer and for the other buffer all end.
BytesMoveOn ==
  Steady => []<>(Pipe = <<>> \/ ep # "on") \/ []<><<HostTake>>_<<line, host>>

\* A transfer whose last packet was full is closed by a short or empty one, so
\* that the host hands it to its reader, unless more is written meanwhile.
TransferCloses ==
  Steady => (host.open /\ Pipe = <<>> ~> ~host.open \/ Pipe # <<>> \/ Stuck)

\* udi_cdc_putc(), udi_cdc_write_buf() and the query come back to the main loop,
\* unless a halt left the transmitter stuck.
WriteReturns == Steady => (main.pc # "idle" ~> main.pc = "idle" \/ Stuck)
=============================================================================
