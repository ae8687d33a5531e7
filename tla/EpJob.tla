------------------------------- MODULE EpJob -------------------------------
(***************************************************************************)
(* A transfer on a bulk or interrupt endpoint (usbb_device.c): the job in  *)
(* udd_ep_job[], the DMA channel that moves packets between the endpoint's *)
(* banks and memory, and the interrupt that cuts long transfers, counts    *)
(* what a short packet left and sends the empty packet the DMA cannot.     *)
(*                                                                         *)
(* The channel and the host go on while the firmware runs.  A handler of   *)
(* the USB interrupt is one step; the main program's udd_ep_run() is cut   *)
(* after its critical section (Claim, Fill, Program), for interrupts come  *)
(* there.  Bytes are told apart by their offset in the job's buffer.       *)
(***************************************************************************)
EXTENDS Integers, Sequences

CONSTANTS
  EpSize,    \* bytes of a full packet
  MaxTrans,  \* UDD_ENDPOINT_MAX_TRANS: the most one DMA transfer moves
  Banks,     \* banks of the endpoint
  InSizes,   \* sizes of the buffers to send
  OutSizes,  \* sizes of the buffers to fill
  Word,      \* 2^32: iram_size_t wraps here
  Crossing,  \* an interrupt handler may run a job on the endpoint while the main
             \* program is between its critical section and the DMA's start
  FreeStops  \* an endpoint that is disabled stops its DMA channel: the driver does
             \* not do it, and the source does not tell whether the controller does

ASSUME EpJobAssumption ==
  /\ {EpSize, Banks, Word} \subseteq Nat \ {0}
  /\ MaxTrans \in Nat \ {0} /\ MaxTrans % EpSize = 0
  /\ InSizes \subseteq Nat /\ OutSizes \subseteq Nat
  /\ \A n \in OutSizes : n > 0 /\ n % EpSize = 0
  /\ \A n \in InSizes \cup OutSizes : n < Word
  /\ Crossing \in BOOLEAN /\ FreeStops \in BOOLEAN

VARIABLES
  dir,   \* the endpoint's direction, "in" or "out"
  ep,    \* off, on or halted
  job,   \* the endpoint's udd_ep_job entry: busy, buf_size, nb_trans and
         \* b_shortpacket
  dma,   \* the channel: CH_EN (st is "on", "closing" or "off"), its offset in the
         \* buffer, CH_BYTE_CNT, DMAEND_EN, EOT_STA, and its interrupt's flag
  irq,   \* interrupts enabled: the channel's, the endpoint's, its TXIN; and the
         \* flag TXINI
  line,  \* lengths of the packets in the banks
  main,  \* the main program's udd_ep_run(): where it is, and its arguments
  wire,  \* ghost: the transfer under way as its caller and the host see it
  last,  \* the last callback: status OK, number of bytes
  lost   \* ghost: what had moved of the transfer and was forgotten when its
         \* endpoint's memory was moved, "bytes" or the "end"

vars == <<dir, ep, job, dma, irq, line, main, wire, last, lost>>

Sizes == InSizes \cup OutSizes

\* What udd_ep_run() is called with; no caller sends nothing.
Asked == {a \in [size : Sizes, short : BOOLEAN] :
            /\ a.size \in (IF dir = "in" THEN InSizes ELSE OutSizes)
            /\ a.size = 0 => a.short}

NewWire(a) == [size |-> a.size, short |-> a.short, n |-> 0, closed |-> FALSE]

-----------------------------------------------------------------------------
(* The driver: operators from the registers and the job before to those    *)
(* after                                                                   *)

Now == [job |-> job, dma |-> dma, irq |-> irq, line |-> line, wire |-> wire,
        last |-> last]

Becomes(s) ==
  /\ job' = s.job /\ dma' = s.dma /\ irq' = s.irq /\ line' = s.line
  /\ wire' = s.wire /\ last' = s.last

\* udd_ep_finish_job().  What the callback runs next is a step of its own.
Finish(s, ok) ==
  IF s.job.busy
  THEN [s EXCEPT !.job.busy = FALSE, !.last = [ok |-> ok, n |-> s.job.size]]
  ELSE s

ChunkLen(j) == IF j.size - j.trans > MaxTrans THEN MaxTrans ELSE j.size - j.trans

\* The last packet of an IN transfer is not full: DMAEND sends it, and no empty
\* packet is needed.
EndsShort(j) == dir = "in" /\ ChunkLen(j) % EpSize # 0

\* Mutant of Programmed: a transfer cut at MaxTrans starts at the buffer's start.
ProgrammedFromStart(s) ==
  LET n == ChunkLen(s.job)
  IN [s EXCEPT !.dma = [st |-> "on", at |-> 0, left |-> n, end |-> EndsShort(s.job),
                        eot |-> FALSE, hit |-> FALSE],
               !.job.trans = @ + n,
               !.job.short = @ /\ ~EndsShort(s.job),
               !.irq.dma = TRUE]

\* The next part of the buffer.  Reading the channel's status clears its flags.
Programmed(s) ==
  LET n == ChunkLen(s.job)
  IN [s EXCEPT !.dma = [st |-> "on", at |-> s.job.trans, left |-> n,
                        end |-> EndsShort(s.job), eot |-> FALSE, hit |-> FALSE],
               !.job.trans = @ + n,
               !.job.short = @ /\ ~EndsShort(s.job),
               !.irq.dma = TRUE]

\* An empty packet came while the channel was off.
EmptySeen(s) == s.dma.eot

\* Mutant of AwaitBank: the flag of a bank that is free already is not raised.
AwaitBankOnly(s) == [s EXCEPT !.irq = [@ EXCEPT !.txin = FALSE, !.send = TRUE, !.ep = TRUE]]

\* Wait for a free bank to send an empty packet.
AwaitBank(s) ==
  [s EXCEPT !.irq = [@ EXCEPT !.txin = Len(s.line) < Banks, !.send = TRUE, !.ep = TRUE]]

\* udd_ep_trans_done()
TransDone(s) ==
  CASE ~s.job.busy -> s
    [] s.job.busy /\ s.job.trans # s.job.size ->
         IF EmptySeen(s)
         THEN Finish([s EXCEPT !.job.size = s.job.trans, !.wire.closed = TRUE,
                               !.dma.eot = FALSE, !.dma.hit = FALSE], TRUE)
         ELSE Programmed(s)
    [] OTHER -> IF dir = "in" /\ s.job.short THEN AwaitBank(s) ELSE Finish(s, TRUE)

Accepts == ep = "on" /\ ~job.busy

\* Mutant of Filled: nb_trans is not reset.
FilledKept(s, a) == [s EXCEPT !.job = [@ EXCEPT !.size = a.size, !.short = a.short]]

\* The fields udd_ep_run() sets once it has the job.
Filled(s, a) ==
  [s EXCEPT !.job = [@ EXCEPT !.size = a.size, !.trans = 0, !.short = a.short]]

\* udd_ep_run() as a whole, with interrupts masked.
RunAll(s, a) ==
  TransDone(Filled([s EXCEPT !.job.busy = TRUE, !.wire = NewWire(a)], a))

-----------------------------------------------------------------------------
(* Callers                                                                 *)

Alone == Crossing \/ main.pc = "idle"

\* A callback, a start-of-frame or an enabled interface.
Run(a) ==
  /\ Alone /\ Accepts
  /\ Becomes(RunAll(Now, a))
  /\ lost' = {}
  /\ UNCHANGED <<dir, ep, main>>

\* The main program: up to the end of the critical section; the fields; the rest.
\* It goes on when no interrupt is due.
Claim(a) ==
  /\ main.pc = "idle" /\ Accepts /\ ~(irq.dma /\ dma.hit)
  /\ main' = [pc |-> "fill", arg |-> a]
  /\ Becomes([Now EXCEPT !.job.busy = TRUE, !.wire = NewWire(a)])
  /\ lost' = {}
  /\ UNCHANGED <<dir, ep>>

Fill ==
  /\ main.pc = "fill"
  /\ main' = [main EXCEPT !.pc = "program"]
  /\ Becomes(Filled(Now, main.arg))
  /\ UNCHANGED <<dir, ep, lost>>

Program ==
  /\ main.pc = "program"
  /\ main' = [main EXCEPT !.pc = "idle"]
  /\ Becomes(TransDone(Now))
  /\ UNCHANGED <<dir, ep, lost>>

-----------------------------------------------------------------------------
(* The channel and the host                                                *)

\* The channel works for the job, not for one that was freed.
Own == job.busy /\ job.trans > 0 /\ main.pc = "idle"

Moved(n) == [wire EXCEPT !.n = @ + n, !.closed = n < EpSize]

\* The channel is off once it has moved all.
AfterMove(n) ==
  [dma EXCEPT !.at = @ + n, !.left = @ - n,
              !.st = IF dma.left = n THEN "off" ELSE @,
              !.hit = @ \/ dma.left = n]

InPacketLen == IF dma.left < EpSize THEN dma.left ELSE EpSize

\* A packet that is not full leaves only with DMAEND; without it the bytes are
\* accepted and nothing is sent.
DmaIn ==
  LET n == InPacketLen
      leaves == n = EpSize \/ dma.end
  IN /\ dir = "in" /\ ep = "on" /\ dma.st = "on" /\ Len(line) < Banks
     /\ dma' = AfterMove(n)
     /\ line' = IF leaves THEN Append(line, n) ELSE line
     /\ wire' = IF Own /\ leaves THEN Moved(n) ELSE wire
     /\ UNCHANGED <<dir, ep, job, irq, main, last, lost>>

\* A short packet raises the interrupt before it closes the channel.
DmaOut ==
  LET n == Head(line)
  IN /\ dir = "out" /\ ep = "on" /\ dma.st = "on" /\ line # <<>>
     /\ dma' = IF n < EpSize
               THEN [dma EXCEPT !.at = @ + n, !.left = @ - n, !.st = "closing",
                                !.eot = TRUE, !.hit = TRUE]
               ELSE AfterMove(n)
     /\ line' = Tail(line)
     /\ wire' = IF Own THEN Moved(n) ELSE wire
     /\ UNCHANGED <<dir, ep, job, irq, main, last, lost>>

DmaClose ==
  /\ dma.st = "closing"
  /\ dma' = [dma EXCEPT !.st = "off", !.hit = TRUE]
  /\ UNCHANGED <<dir, ep, job, irq, line, main, wire, last, lost>>

\* An empty packet that finds the channel off may be noted in its status at once,
\* with no interrupt.
NoteEmpty ==
  /\ dir = "out" /\ ep = "on" /\ dma.st = "off" /\ ~dma.eot
  /\ line # <<>> /\ Head(line) = 0
  /\ dma' = [dma EXCEPT !.eot = TRUE]
  /\ line' = Tail(line)
  /\ wire' = [wire EXCEPT !.closed = @ \/ job.busy]
  /\ UNCHANGED <<dir, ep, job, irq, main, last, lost>>

HostSend(n) ==
  /\ dir = "out" /\ ep = "on" /\ Len(line) < Banks
  /\ line' = Append(line, n)
  /\ UNCHANGED <<dir, ep, job, dma, irq, main, wire, last, lost>>

HostTake ==
  /\ dir = "in" /\ ep = "on" /\ line # <<>>
  /\ line' = Tail(line)
  /\ irq' = [irq EXCEPT !.txin = TRUE]
  /\ UNCHANGED <<dir, ep, job, dma, main, wire, last, lost>>

-----------------------------------------------------------------------------
(* udd_ep_interrupt()                                                      *)

\* Mutant of Counted: the transfer goes on after a short packet.
CountedGoesOn(s) ==
  [s EXCEPT !.job.trans = (@ - s.dma.left) % Word]

\* Bytes that did not come are taken off, and the transfer is complete.
Counted(s) ==
  IF s.dma.left = 0 THEN s
  ELSE LET moved == (s.job.trans - s.dma.left) % Word
       IN [s EXCEPT !.job = [@ EXCEPT !.trans = moved, !.size = moved]]

\* The flag of a short packet whose channel is not closed yet.
Ignored == dma.st # "off"

DmaInterrupt ==
  LET read == [Now EXCEPT !.dma.hit = FALSE, !.dma.eot = FALSE]
  IN /\ irq.dma /\ dma.hit
     /\ IF Ignored THEN Becomes(read)
        ELSE Becomes(TransDone(Counted([read EXCEPT !.irq.dma = FALSE])))
     /\ UNCHANGED <<dir, ep, main, lost>>

\* A bank is free: the empty packet.
SendZlp ==
  /\ ~(irq.dma /\ dma.hit)
  /\ irq.ep /\ irq.send /\ irq.txin
  /\ Becomes(Finish([Now EXCEPT !.irq = [@ EXCEPT !.send = FALSE, !.txin = FALSE],
                                !.line = Append(@, 0),
                                !.wire.closed = @ \/ job.busy], TRUE))
  /\ UNCHANGED <<dir, ep, main, lost>>

-----------------------------------------------------------------------------
(* Control requests and bus reset, in the interrupt                        *)

\* udd_ep_free(), or a bus reset and udd_ep_job_table_kill(): the endpoint's
\* registers are reset.
Disabled(s) ==
  [s EXCEPT !.dma.st = IF FreeStops THEN "off" ELSE @, !.line = <<>>,
            !.irq = [@ EXCEPT !.send = FALSE, !.txin = FALSE]]

Free ==
  /\ ep # "off" /\ ep' = "off"
  /\ Becomes(Finish(Disabled(Now), FALSE))
  /\ UNCHANGED <<dir, main, lost>>

\* udd_ep_alloc() of this endpoint.
Alloc ==
  /\ ep = "off" /\ ep' = "on"
  /\ UNCHANGED <<dir, job, dma, irq, line, main, wire, last, lost>>

\* udd_ep_alloc() of one with a lower number: the banks are moved, and the job is
\* run again with what its fields are now.
Rerun(s) ==
  IF s.job.busy
  THEN TransDone(Filled([s EXCEPT !.wire = NewWire(wire)],
                        [size |-> s.job.size, short |-> s.job.short]))
  ELSE s

Forgotten == (IF wire.n > 0 THEN {"bytes"} ELSE {}) \cup (IF wire.closed THEN {"end"} ELSE {})

Reallocate ==
  /\ ep = "on" /\ Alone
  /\ Becomes(Rerun(Disabled(Now)))
  /\ lost' = IF job.busy THEN lost \cup Forgotten ELSE lost
  /\ UNCHANGED <<dir, ep, main>>

\* SET_FEATURE(ENDPOINT_HALT): udd_ep_abort() stops the channel, kills the banks
\* and aborts the job, then udd_ep_set_halt() finds neither job nor bank.  (An OUT
\* bank that cannot be killed keeps it in its loop: CdcRx and LcdStream.)
SetHalt ==
  /\ ep = "on" /\ ep' = "halted"
  /\ Becomes(Finish([Now EXCEPT !.dma.st = "off", !.line = <<>>,
                                !.irq = [@ EXCEPT !.dma = FALSE, !.ep = FALSE]], FALSE))
  /\ UNCHANGED <<dir, main, lost>>

ClearHalt ==
  /\ ep = "halted" /\ ep' = "on"
  /\ UNCHANGED <<dir, job, dma, irq, line, main, wire, last, lost>>

-----------------------------------------------------------------------------
NoArg == [size |-> 0, short |-> FALSE]

Init ==
  /\ dir \in {"in", "out"}
  /\ ep = "off"
  /\ job = [busy |-> FALSE, size |-> 0, trans |-> 0, short |-> FALSE]
  /\ dma = [st |-> "off", at |-> 0, left |-> 0, end |-> FALSE, eot |-> FALSE,
            hit |-> FALSE]
  /\ irq = [dma |-> FALSE, ep |-> FALSE, send |-> FALSE, txin |-> FALSE]
  /\ line = <<>>
  /\ main = [pc |-> "idle", arg |-> NoArg]
  /\ wire = NewWire(NoArg)
  /\ last = [ok |-> TRUE, n |-> 0]
  /\ lost = {}

Next ==
  \/ \E a \in Asked : Run(a) \/ Claim(a)
  \/ Fill \/ Program
  \/ DmaIn \/ DmaOut \/ DmaClose \/ NoteEmpty
  \/ \E n \in 0 .. EpSize : HostSend(n)
  \/ HostTake
  \/ DmaInterrupt \/ SendZlp
  \/ Free \/ Alloc \/ Reallocate \/ SetHalt \/ ClearHalt

Spec == Init /\ [][Next]_vars

\* The channel moves what it can, the interrupt and the main program are not
\* held up for ever, and the host goes on taking packets and sending some that
\* are not empty.
Fairness ==
  /\ WF_vars(DmaIn) /\ WF_vars(DmaOut) /\ WF_vars(DmaClose)
  /\ WF_vars(DmaInterrupt) /\ WF_vars(SendZlp)
  /\ WF_vars(Fill) /\ WF_vars(Program)
  /\ WF_vars(HostTake) /\ WF_vars(\E n \in 1 .. EpSize : HostSend(n))

FairSpec == Spec /\ Fairness

-----------------------------------------------------------------------------
(* Properties                                                              *)

\* Counters stay in the buffer that was given, packets in the banks.
TypeOK ==
  /\ dir \in {"in", "out"}
  /\ ep \in {"off", "on", "halted"}
  /\ job \in [busy : BOOLEAN, size : Nat, trans : Nat, short : BOOLEAN]
  /\ job.busy /\ main.pc # "fill" => job.trans <= job.size /\ job.size \in Sizes
  /\ dma \in [st : {"off", "on", "closing"}, at : Nat, left : Nat, end : BOOLEAN,
              eot : BOOLEAN, hit : BOOLEAN]
  /\ irq \in [dma : BOOLEAN, ep : BOOLEAN, send : BOOLEAN, txin : BOOLEAN]
  /\ line \in Seq(0 .. EpSize) /\ Len(line) <= Banks
  /\ main \in [pc : {"idle", "fill", "program"}, arg : [size : Sizes \cup {0}, short : BOOLEAN]]
  /\ wire \in [size : Sizes \cup {0}, short : BOOLEAN, n : Nat, closed : BOOLEAN]
  /\ last \in [ok : BOOLEAN, n : Nat]
  /\ lost \subseteq {"bytes", "end"}

\* The channel goes on where the packets so far ended, and what is left of it and
\* nb_trans add up, through every cut of the transfer and every restart.
ChannelFollows ==
  Own /\ dma.st # "off" =>
    /\ dma.at = wire.n
    /\ job.trans = dma.at + dma.left /\ job.trans <= wire.size

\* A job is never left with nothing that would end it: the channel runs, or its
\* interrupt is due, or that of a free bank is, or the main program has yet to
\* start it.
JobIsDriven ==
  job.busy =>
    \/ main.pc # "idle"
    \/ dma.st # "off" /\ irq.dma
    \/ dma.hit /\ irq.dma
    \/ irq.ep /\ irq.send /\ (irq.txin \/ Len(line) = Banks)

Transfer == INSTANCE EpTransfer WITH open <- job.busy, xfer <- wire

\* The driver keeps what udd.h promises of udd_ep_run(), but for a transfer whose
\* endpoint's memory was moved when packets of it had: that one starts over.
IsTransfer == Transfer!Init /\ [][lost' # {} \/ Transfer!Next]_(Transfer!transferVars)

\* udd.h:135 of the callback's n: "number of data transfered".  An OUT transfer that
\* is over has told its caller of all the bytes that came.
AllReported ==
  [][job.busy /\ ~job'.busy /\ last'.ok /\ dir = "out" =>
       last'.n = wire'.n /\ "bytes" \notin lost']_vars

\* A transfer ends, by its last packet or an abort, unless its endpoint is moved
\* over and over.
TransferEnds == []<>~job.busy \/ []<><<Reallocate>>_vars
=============================================================================
