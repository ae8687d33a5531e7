------------------------------- MODULE CdcRx -------------------------------
(***************************************************************************)
(* The receiving half of the serial port (udi_cdc.c).  The DMA fills one   *)
(* of two buffers while the main loop reads the other; whichever of the    *)
(* transfer callback (in the USB interrupt) and udi_cdc_getc() (in the     *)
(* main loop) finds both sides done with their buffer swaps them and arms  *)
(* the next transfer.                                                      *)
(*                                                                         *)
(* An interrupt may come between any two steps of the main loop, which are *)
(* cut where the code leaves its critical sections; a handler runs to its  *)
(* end.  Between its check and its store udi_cdc_getc() holds a position   *)
(* and a buffer number in locals, with interrupts enabled.                 *)
(***************************************************************************)
EXTENDS Integers, Sequences, SequencesExt

CONSTANTS
  PacketSize,  \* bytes of a full packet
  BufSize,     \* UDI_CDC_RX_BUFFERS: bytes of a buffer, and of a transfer
  Banks,       \* banks of the endpoint
  ByteValues   \* BOUND: bytes are numbered modulo this

ASSUME CdcRxAssumption ==
  /\ PacketSize \in Nat \ {0} /\ BufSize \in Nat \ {0}
  /\ \E k \in 1 .. BufSize : BufSize = k * PacketSize
  /\ Banks \in Nat \ {0}
  /\ ByteValues \in Nat \ {0}

VARIABLES
  rx,       \* the file's RX statics: ongoing, sel, pos and nb
  buf,      \* udi_cdc_rx_buf[0..1]
  running,  \* udi_cdc_data_running
  ep,       \* off, on, halted, cleared (on again after a halt), or stuck: the
            \* USB interrupt never returns
  job,      \* the endpoint's udd_ep_job: busy, buffer, bytes moved, ended
  line,     \* packets in the endpoint's banks
  next,     \* the next byte the host will send
  main,     \* where the main loop is, and the locals of udi_cdc_getc()
  epoch,    \* ghost: flips when the host halts, stops or restarts the endpoint
  stale     \* ghost: the port was stopped or restarted in the midst of
            \* udi_cdc_getc(), and not restarted outside it since

vars == <<rx, buf, running, ep, job, line, next, main, epoch, stale>>

Byte == 0 .. ByteValues - 1
Packets == UNION {[1 .. n -> Byte] : n \in 0 .. PacketSize}
Buffers == {0, 1}
Offsets == 0 .. BufSize - 1
NoJob == [busy |-> FALSE, target |-> 0, fill |-> 0, ended |-> FALSE]

\* At the top of "while (udi_cdc_is_rx_ready())", with what is no longer used
\* reset; "got" is the byte stored last.
Idle(got) == [pc |-> "poll", pos |-> 0, sel |-> 0, val |-> 0, got |-> got,
              trans |-> 0, more |-> FALSE]

Other(i) == IF i = 0 THEN 1 ELSE 0

-----------------------------------------------------------------------------
(* The host and the DMA                                                    *)

\* BOUND: bytes are numbered as long as IsFifo follows them.
Number(i) == IF stale THEN 0 ELSE (next + i) % ByteValues

\* A packet of n consecutive bytes.
Send(n) ==
  /\ ep \in {"on", "cleared"}
  /\ Len(line) < Banks
  /\ line' = Append(line, [i \in 1 .. n |-> Number(i - 1)])
  /\ next' = Number(n)
  /\ UNCHANGED <<rx, buf, running, ep, job, main, epoch, stale>>

\* The oldest packet goes to the buffer.  A short packet or the last byte of the
\* buffer ends the transfer, whose interrupt is then pending.
DmaMove ==
  LET p == Head(line)
  IN /\ job.busy /\ ~job.ended /\ line # <<>>
     /\ buf' = [buf EXCEPT ![job.target] =
                  [i \in Offsets |-> IF i \in job.fill .. job.fill + Len(p) - 1
                                     THEN p[i - job.fill + 1] ELSE @[i]]]
     /\ job' = [job EXCEPT !.fill = @ + Len(p),
                           !.ended = \/ Len(p) < PacketSize
                                     \/ job.fill + Len(p) = BufSize]
     /\ line' = Tail(line)
     /\ UNCHANGED <<rx, running, ep, next, main, epoch, stale>>

-----------------------------------------------------------------------------
(* udi_cdc_rx_start() and udd_ep_run()                                     *)

\* Mutant of RxFree: the buffer being read is not looked at.
RxFreeNoPos(s) == ~s.ongoing

\* No transfer is under way and the current buffer is read to its end.
RxFree(s) == ~s.ongoing /\ s.pos >= s.nb[s.sel]

\* Mutants of Swapped: the position is not reset; the buffers are not swapped.
SwappedKeepsPos(s) ==
  IF RxFree(s) THEN [s EXCEPT !.sel = Other(@), !.ongoing = TRUE] ELSE s

SwappedNot(s) == IF RxFree(s) THEN [s EXCEPT !.pos = 0, !.ongoing = TRUE] ELSE s

\* The critical section of udi_cdc_rx_start(): swap, and claim the transfer.
Swapped(s) ==
  IF RxFree(s) THEN [s EXCEPT !.pos = 0, !.sel = Other(@), !.ongoing = TRUE] ELSE s

\* udd_ep_run(): refused on an endpoint that is off, halted or busy.
Run(b, e, j) ==
  IF e \in {"on", "cleared"} /\ ~j.busy
  THEN [busy |-> TRUE, target |-> b, fill |-> 0, ended |-> FALSE]
  ELSE j

-----------------------------------------------------------------------------
(* The firmware, in the USB interrupt                                      *)

\* Mutant of Received: the length adds to the one before.
ReceivedAdds(s, n) == [s EXCEPT !.nb[Other(s.sel)] = @ + n, !.ongoing = FALSE]

\* The statics once a transfer of n bytes is recorded.
Received(s, n) ==
  [ongoing |-> FALSE, sel |-> s.sel, pos |-> s.pos,
   nb |-> [s.nb EXCEPT ![Other(s.sel)] = n]]

\* Mutant of EmptyAgain: an empty transfer is not armed again.
EmptyForgotten == NoJob

\* An empty transfer is armed again in the same buffer.
EmptyAgain == Run(Other(rx.sel), ep, NoJob)

\* The end of a transfer: udi_cdc_data_received() with UDD_EP_TRANSFER_OK.
DataReceived ==
  LET s == Received(rx, job.fill)
  IN /\ job.busy /\ job.ended
     /\ IF job.fill = 0
        THEN /\ job' = EmptyAgain
             /\ UNCHANGED rx
        ELSE /\ rx' = Swapped(s)
             /\ job' = IF RxFree(s) THEN Run(s.sel, ep, NoJob) ELSE NoJob
     /\ UNCHANGED <<buf, running, ep, line, next, main, epoch, stale>>

\* udi_cdc_getc() is past its check.
Midst == main.pc \notin {"poll", "check"}

\* Bus reset, SET_CONFIGURATION 0: the endpoint is freed, then
\* udi_cdc_data_disable().  The abort's callback changes nothing.
Disable ==
  /\ ep \notin {"off", "stuck"}
  /\ ep' = "off" /\ running' = FALSE
  /\ job' = NoJob /\ line' = <<>>
  /\ epoch' = 1 - epoch /\ stale' = (stale \/ Midst)
  /\ UNCHANGED <<rx, buf, next, main>>

\* The statics as udi_cdc_data_enable() sets them.
Fresh == [ongoing |-> FALSE, sel |-> 0, pos |-> 0, nb |-> [b \in Buffers |-> 0]]

\* SET_CONFIGURATION, or SET_INTERFACE of the data interface: the endpoint is freed
\* and allocated anew, then udi_cdc_data_enable().
Enable ==
  /\ ep # "stuck"
  /\ ep' = "on" /\ running' = TRUE
  /\ rx' = Swapped(Fresh)
  /\ job' = Run(Fresh.sel, "on", NoJob)
  /\ line' = <<>>
  /\ epoch' = 1 - epoch /\ stale' = Midst
  /\ UNCHANGED <<buf, next, main>>

\* SET_FEATURE(ENDPOINT_HALT): udd_ep_abort(), then udd_ep_set_halt().  The
\* aborted transfer stays "on-going".  A packet still in a bank keeps
\* udd_ep_abort() in its loop, unless killing an IN bank empties an OUT one too.
SetHalt ==
  /\ ep \in {"on", "cleared"}
  /\ ep' \in {"halted"} \cup (IF line # <<>> THEN {"stuck"} ELSE {})
  /\ job' = NoJob /\ line' = <<>>
  /\ epoch' = 1 - epoch
  /\ UNCHANGED <<rx, buf, running, next, main, stale>>

ClearHalt ==
  /\ ep = "halted"
  /\ ep' = "cleared"
  /\ UNCHANGED <<rx, buf, running, job, line, next, main, epoch, stale>>

\* Another interface is restarted, with an endpoint of a lower number:
\* udd_ep_alloc() moves this endpoint's memory and runs its job again.
Reallocate ==
  /\ ep \in {"on", "cleared"}
  /\ job' = IF job.busy THEN Run(job.target, ep, NoJob) ELSE job
  /\ line' = <<>>
  /\ epoch' = 1 - epoch
  /\ UNCHANGED <<rx, buf, running, ep, next, main, stale>>

-----------------------------------------------------------------------------
(* The main loop: while (udi_cdc_is_rx_ready()) udi_cdc_getc();            *)

Available(s) == s.pos < s.nb[s.sel]

\* udi_cdc_is_rx_ready(): the count is unsigned, any difference is "ready".
Ready == rx.nb[rx.sel] - rx.pos # 0

\* With 9 data bits two bytes make a character.  A port with a byte to read was on
\* after its last restart, and on a port that is on the host may change the line
\* coding at any time: each getc may find either.
TwoBytes == BOOLEAN

Poll ==
  /\ main.pc = "poll" /\ Ready
  /\ \E more \in TwoBytes : main' = [main EXCEPT !.pc = "check", !.more = more]
  /\ UNCHANGED <<rx, buf, running, ep, job, line, next, epoch, stale>>

\* Mutant of Stopped: a stopped port is not looked for.
StoppedUnseen == FALSE

Stopped == ~running

\* The check loop.  It spins while nothing is there and the port is running,
\* and returns 0 when the port is not.
Check ==
  /\ main.pc = "check"
  /\ \/ /\ Available(rx)
        /\ main' = [main EXCEPT !.pc = "read", !.pos = rx.pos, !.sel = rx.sel]
     \/ /\ ~Available(rx) /\ Stopped
        /\ main' = Idle(main.got)
  /\ UNCHANGED <<rx, buf, running, ep, job, line, next, epoch, stale>>

Read ==
  /\ main.pc = "read"
  /\ main' = [main EXCEPT !.pc = "store", !.val = buf[main.sel][main.pos]]
  /\ UNCHANGED <<rx, buf, running, ep, job, line, next, epoch, stale>>

\* "udi_cdc_rx_pos[port] = pos+1", with interrupts enabled.
Stored == main.pos + 1

Store ==
  /\ main.pc = "store"
  /\ rx' = [rx EXCEPT !.pos = Stored]
  /\ main' = [main EXCEPT !.pc = "start", !.got = main.val, !.pos = 0, !.sel = 0,
                          !.val = 0]
  /\ UNCHANGED <<buf, running, ep, job, line, next, epoch, stale>>

\* Back to the first byte of a character, or out of udi_cdc_getc().
Finished(m) ==
  IF m.more THEN [Idle(m.got) EXCEPT !.pc = "check"] ELSE Idle(m.got)

\* Mutant of Start: the reader leaves the swap to the callback.
StartForgotten ==
  /\ main.pc = "start"
  /\ main' = Finished(main)
  /\ UNCHANGED <<rx, buf, running, ep, job, line, next, epoch, stale>>

\* udi_cdc_rx_start() after a byte, up to the end of its critical section.
Start ==
  /\ main.pc = "start"
  /\ rx' = Swapped(rx)
  /\ main' = IF RxFree(rx) THEN [main EXCEPT !.pc = "arm", !.trans = rx.sel]
             ELSE Finished(main)
  /\ UNCHANGED <<buf, running, ep, job, line, next, epoch, stale>>

\* The rest of it: udd_ep_run() with the buffer chosen before.
Arm ==
  /\ main.pc = "arm"
  /\ job' = Run(main.trans, ep, job)
  /\ main' = Finished(main)
  /\ UNCHANGED <<rx, buf, running, ep, line, next, epoch, stale>>

MainLoop == ep # "stuck" /\ (Poll \/ Check \/ Read \/ Store \/ Start \/ Arm)

-----------------------------------------------------------------------------
Init ==
  /\ rx = Fresh
  /\ buf = [b \in Buffers |-> [i \in Offsets |-> 0]]
  /\ running = FALSE
  /\ ep = "off" /\ job = NoJob /\ line = <<>>
  /\ next = 0
  /\ main = Idle(0)
  /\ epoch = 0 /\ stale = FALSE

Next ==
  \/ \E n \in 0 .. PacketSize : Send(n)
  \/ DmaMove
  \/ DataReceived
  \/ Disable
  \/ Enable
  \/ SetHalt
  \/ ClearHalt
  \/ Reallocate
  \/ MainLoop

Spec == Init /\ [][Next]_vars

\* The interrupt is never masked for long; the main loop goes on between interrupts.
\* Nothing is asked of the host, or of the DMA.
Fairness == WF_vars(DataReceived) /\ WF_vars(MainLoop)

FairSpec == Spec /\ Fairness

-----------------------------------------------------------------------------
(* Properties                                                              *)

TypeOK ==
  /\ rx \in [ongoing : BOOLEAN, sel : Buffers, pos : 0 .. BufSize,
             nb : [Buffers -> 0 .. BufSize]]
  /\ buf \in [Buffers -> [Offsets -> Byte]]
  /\ running \in BOOLEAN
  /\ ep \in {"off", "on", "halted", "cleared", "stuck"}
  /\ job \in [busy : BOOLEAN, target : Buffers, fill : 0 .. BufSize, ended : BOOLEAN]
  /\ line \in Seq(Packets) /\ Len(line) <= Banks
  /\ next \in Byte
  /\ main \in [pc : {"poll", "check", "read", "store", "start", "arm"},
               pos : 0 .. BufSize - 1, sel : Buffers, val : Byte, got : Byte,
               trans : Buffers, more : BOOLEAN]
  /\ epoch \in {0, 1} /\ stale \in BOOLEAN

\* udi_cdc.h:391 of udi_cdc_is_rx_ready(): "1 if a byte is ready to be read".
\* The count it returns is an unsigned difference, right only while the position
\* has not run past the data; a position stored after the port was restarted has.
ReadyMeansByte == Ready => Available(rx)

\* The buffer the DMA fills is not the one selected for reading, and what
\* udi_cdc_getc() keeps in its locals while interrupts come in is still so when
\* it uses it, swaps and all.
Apart ==
  /\ job.busy => rx.ongoing /\ job.target = Other(rx.sel)
  /\ main.pc \in {"read", "store"} =>
       main.sel = rx.sel /\ main.pos = rx.pos /\ Available(rx)

\* So it is unless the port was restarted in the midst of udi_cdc_getc(), and again
\* when it was restarted outside it.
ReaderAndDmaApart == ~stale => Apart

\* Neither side waits for the other for ever: on an endpoint that was not halted
\* a transfer is armed, or data waits to be read that will lead to one, or
\* udi_cdc_getc() is about to start it - even when the port was restarted in the
\* midst of udi_cdc_getc().
ReceptionAlive ==
  ep = "on" => IF rx.ongoing THEN job.busy \/ main.pc = "arm"
               ELSE Available(rx) \/ main.pc = "start"

\* udi_cdc_getc() comes back to the main loop, which also serves the touch
\* panel, unless it waits for a byte on a port that is running.
GetcReturns ==
  main.pc # "poll" ~> \/ main.pc = "poll"
                      \/ main.pc = "check" /\ running
                      \/ ep = "stuck"

\* What is between the host and the application, in order.
Unread(b, from, to) == [i \in 1 .. to - from |-> buf[b][from + i - 1]]

Pipe ==
  IF ep = "stuck" THEN <<>>
  ELSE Unread(rx.sel, rx.pos, rx.nb[rx.sel])
       \o (IF rx.ongoing THEN <<>> ELSE Unread(Other(rx.sel), 0, rx.nb[Other(rx.sel)]))
       \o (IF job.busy THEN Unread(job.target, 0, job.fill) ELSE <<>>)
       \o FlattenSeq(line)

Fifo == INSTANCE CdcFifo WITH ChunkSize <- PacketSize, Lost <- "latest",
                              pipe <- Pipe, taken <- <<main.got>>

\* The two buffers, the DMA and the two contexts that arm it behave as one
\* queue: no byte is lost, repeated or out of order until the host takes the
\* endpoint away, and none at all while udi_cdc_getc() has no stale position.
IsFifo == Fifo!Init /\ [][stale \/ Fifo!Next]_(Fifo!fifoVars)

\* A transfer that ended has brought bytes that udi_cdc_getc() has not taken.
Waiting ==
  \/ Available(rx)
  \/ ~rx.ongoing /\ rx.nb[Other(rx.sel)] > 0
  \/ job.ended /\ job.fill > 0

\* As long as bytes wait on a port that is on udi_cdc_getc() takes one again and
\* again, so that with IsFifo each of them reaches the application, unless the host
\* takes the endpoint away or restarted it in the midst of udi_cdc_getc().  Bytes of
\* a transfer that has not ended, for its packets were full, wait for the host.
BytesMoveOn ==
  <>[](Waiting /\ ep = "on" /\ ~stale) => []<>(main.pc = "start")
=============================================================================
