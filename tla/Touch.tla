------------------------------- MODULE Touch -------------------------------
(***************************************************************************)
(* The touch panel, from the pen to the host.  The main loop starts a read *)
(* of the touch controller over SPI while the pen is down, the end of the  *)
(* read raises an interrupt (touch.c), and the main loop reports what was  *)
(* read (main.cpp) through the HID interface (udi_hid_touch.c), which      *)
(* holds one report being sent and one waiting, the latest.                *)
(*                                                                         *)
(* The steps of the main loop are cut where an interrupt can make a        *)
(* difference: at each read of a flag that an interrupt handler writes.    *)
(* A sample is its number: X, Y and pressure are read as one.              *)
(***************************************************************************)
EXTENDS Integers, Sequences

CONSTANTS
  ReportSize,  \* UDI_HID_TOUCH_REPORT_SIZE
  EpSize,      \* UDI_HID_TOUCH_EP_SIZE
  SampleBound  \* BOUND: reads of the touch controller

ASSUME TouchAssumption ==
  /\ EpSize \in Nat \ {0} /\ ReportSize \in Nat \ {0}
  /\ SampleBound \in Nat

VARIABLES
  pen,     \* the pen is down: TOUCH_nPENIRQ is low
  adc,     \* the SPI read: off, run, or done with its interrupt pending
  result,  \* the sample in return_msg
  flags,   \* bTouchBusy and bTouchComplete
  main,    \* where the main loop is, and the sample in touch_x .. touch_z2
  hid,     \* the statics of udi_hid_touch.c: ongoing, valid, report, trans
  ep,      \* the interrupt IN endpoint: off, on or halted
  job,     \* its udd_ep_job: busy, bytes the DMA still has to move, run again
  bank,    \* packets the host has not fetched; the endpoint has one bank
  seen,    \* number of the report the host got last
  epoch    \* ghost: flips at every request that takes the endpoint away

vars == <<pen, adc, result, flags, main, hid, ep, job, bank, seen, epoch>>

NoJob == [busy |-> FALSE, left |-> 0, again |-> FALSE]

-----------------------------------------------------------------------------
(* The touch controller and its interrupt                                  *)

MovePen ==
  /\ pen' = ~pen
  /\ UNCHANGED <<adc, result, flags, main, hid, ep, job, bank, seen, epoch>>

\* The four conversions are read; the PDCA's transfer-complete is pending.
Convert ==
  /\ adc = "run" /\ result < SampleBound \* BOUND
  /\ adc' = "done"
  /\ result' = result + 1
  /\ UNCHANGED <<pen, flags, main, hid, ep, job, bank, seen, epoch>>

\* Mutant of ReadEnded: the handler forgets that the read is over.
ReadEndedBusy(f) == [f EXCEPT !.complete = TRUE]

ReadEnded(f) == [busy |-> FALSE, complete |-> TRUE]

\* touch_trc_interrupt(), which masks its own source.
TouchInterrupt ==
  /\ adc = "done"
  /\ adc' = "off"
  /\ flags' = ReadEnded(flags)
  /\ UNCHANGED <<pen, result, main, hid, ep, job, bank, seen, epoch>>

-----------------------------------------------------------------------------
(* The HID interface: each operator gives the statics and the job          *)

CanRun(j) == ep = "on" /\ ~j.busy

\* Mutant of SendReport: a report under way is not waited for.
SendReportAnyway(h, j) ==
  [hid |-> [h EXCEPT !.trans = h.report, !.valid = FALSE, !.ongoing = TRUE],
   job |-> IF CanRun(j) THEN [busy |-> TRUE, left |-> ReportSize, again |-> FALSE] ELSE j]

\* udi_hid_touch_send_report(): the report waits for the one under way, or is
\* copied and sent; if udd_ep_run() refuses, it is dropped.
SendReport(h, j) ==
  IF h.ongoing THEN [hid |-> h, job |-> j]
  ELSE [hid |-> [h EXCEPT !.trans = h.report, !.valid = FALSE, !.ongoing = CanRun(j)],
        job |-> IF CanRun(j) THEN [busy |-> TRUE, left |-> ReportSize, again |-> FALSE]
                ELSE j]

\* Mutant of ReportSent: the callback leaves the waiting report to the next move.
ReportSentNoNext(h) == [hid |-> [h EXCEPT !.ongoing = FALSE], job |-> NoJob]

\* udi_hid_touch_report_sent(), whatever the status.
ReportSent(h) ==
  LET over == [h EXCEPT !.ongoing = FALSE]
  IN IF h.valid THEN SendReport(over, NoJob) ELSE [hid |-> over, job |-> NoJob]

\* Mutant of Aborted: an aborted transfer does not call back.
AbortedQuietly == [hid |-> hid, job |-> NoJob]

\* udd_ep_abort_job(): the callback comes only if a job was under way.
Aborted == IF job.busy THEN ReportSent(hid) ELSE [hid |-> hid, job |-> job]

-----------------------------------------------------------------------------
(* The USB side                                                            *)

\* Mutant of PacketLen: every packet is full.
PacketLenFull(left) == EpSize

\* The bytes of the next packet: the last one may be short.
PacketLen(left) == IF left < EpSize THEN left ELSE EpSize

\* The DMA fills the free bank with the next packet of the report.
DmaMove ==
  LET n == PacketLen(job.left)
  IN /\ job.busy /\ job.left > 0 /\ bank = <<>>
     /\ bank' = <<[rep |-> hid.trans, n |-> n, first |-> job.left = ReportSize,
                   again |-> job.again]>>
     /\ job' = [job EXCEPT !.left = @ - n]
     /\ UNCHANGED <<pen, adc, result, flags, main, hid, ep, seen, epoch>>

\* The host polls the endpoint.
HostPoll ==
  /\ ep = "on" /\ bank # <<>>
  /\ seen' = IF Head(bank).first THEN Head(bank).rep ELSE seen
  /\ bank' = <<>>
  /\ UNCHANGED <<pen, adc, result, flags, main, hid, ep, job, epoch>>

\* The end of the DMA's transfer.
Sent ==
  /\ job.busy /\ job.left = 0
  /\ hid' = ReportSent(hid).hid
  /\ job' = ReportSent(hid).job
  /\ UNCHANGED <<pen, adc, result, flags, main, ep, bank, seen, epoch>>

\* Bus reset, SET_CONFIGURATION 0: the endpoint is disabled, then its job is
\* aborted; a waiting report finds it off.
Disable ==
  /\ ep' = "off" /\ ep # "off"
  /\ hid' = IF job.busy THEN [hid EXCEPT !.ongoing = FALSE, !.valid = FALSE,
                                         !.trans = IF hid.valid THEN hid.report ELSE @]
            ELSE hid
  /\ job' = NoJob /\ bank' = <<>>
  /\ epoch' = 1 - epoch
  /\ UNCHANGED <<pen, adc, result, flags, main, seen>>

\* SET_CONFIGURATION, SET_INTERFACE: freed and allocated, udi_hid_touch_enable().
Enable ==
  /\ ep' = "on"
  /\ hid' = [ongoing |-> FALSE, valid |-> FALSE, report |-> 0,
             trans |-> IF job.busy /\ hid.valid THEN hid.report ELSE hid.trans]
  /\ job' = NoJob /\ bank' = <<>>
  /\ epoch' = 1 - epoch
  /\ UNCHANGED <<pen, adc, result, flags, main, seen>>

\* SET_FEATURE(ENDPOINT_HALT): udd_ep_abort() empties the bank and aborts the
\* job; a waiting report starts a new one, and then udd_ep_set_halt() refuses.
SetHalt ==
  /\ ep = "on"
  /\ hid' = Aborted.hid
  /\ job' = Aborted.job
  /\ ep' = IF Aborted.job.busy THEN "on" ELSE "halted"
  /\ bank' = <<>>
  /\ epoch' = 1 - epoch
  /\ UNCHANGED <<pen, adc, result, flags, main, seen>>

ClearHalt ==
  /\ ep = "halted"
  /\ ep' = "on"
  /\ UNCHANGED <<pen, adc, result, flags, main, hid, job, bank, seen, epoch>>

\* An interface with an endpoint of a lower number is restarted: udd_ep_alloc()
\* empties this endpoint's bank and runs its job again from the start.
Reallocate ==
  /\ ep = "on"
  /\ job' = IF job.busy THEN [busy |-> TRUE, left |-> ReportSize, again |-> TRUE] ELSE job
  /\ bank' = <<>>
  /\ epoch' = 1 - epoch
  /\ UNCHANGED <<pen, adc, result, flags, main, hid, ep, seen>>

-----------------------------------------------------------------------------
(* The main loop                                                           *)

\* touch_busy()
TestBusy ==
  /\ main.pc = "busy"
  /\ main' = [main EXCEPT !.pc = IF flags.busy THEN "complete" ELSE "pen"]
  /\ UNCHANGED <<pen, adc, result, flags, hid, ep, job, bank, seen, epoch>>

\* The pen's pin, and the flags touch_init_read() sets: nothing else sets them
\* while no read is under way.
TestPen ==
  /\ main.pc = "pen"
  /\ flags' = IF pen THEN [busy |-> TRUE, complete |-> FALSE] ELSE flags
  /\ main' = [main EXCEPT !.pc = IF pen THEN "start" ELSE "busy"]
  /\ UNCHANGED <<pen, adc, result, hid, ep, job, bank, seen, epoch>>

\* The rest of touch_init_read(): the two PDCA channels.
StartRead ==
  /\ main.pc = "start"
  /\ adc' = "run"
  /\ main' = [main EXCEPT !.pc = "busy"]
  /\ UNCHANGED <<pen, result, flags, hid, ep, job, bank, seen, epoch>>

\* touch_complete(): true only if the interrupt came after touch_busy() was
\* read; a read whose interrupt comes at any other point of the loop is not
\* reported.
TestComplete ==
  /\ main.pc = "complete"
  /\ flags' = [flags EXCEPT !.complete = FALSE]
  /\ main' = IF flags.complete THEN [pc |-> "move", xyz |-> result]
             ELSE [main EXCEPT !.pc = "busy"]
  /\ UNCHANGED <<pen, adc, result, hid, ep, job, bank, seen, epoch>>

\* udi_hid_touch_move(), with interrupts disabled.
Move ==
  LET s == SendReport([hid EXCEPT !.report = main.xyz, !.valid = TRUE], job)
  IN /\ main.pc = "move"
     /\ hid' = s.hid /\ job' = s.job
     /\ main' = [main EXCEPT !.pc = "busy"]
     /\ UNCHANGED <<pen, adc, result, flags, ep, bank, seen, epoch>>

MainLoop == TestBusy \/ TestPen \/ StartRead \/ TestComplete \/ Move

-----------------------------------------------------------------------------
\* main() enters its loop after a first read, made whether the pen is down or
\* not; the host may have configured the device already or not.
Init ==
  /\ pen \in BOOLEAN
  /\ adc = "off" /\ result = 0
  /\ flags = [busy |-> TRUE, complete |-> FALSE]
  /\ main = [pc |-> "start", xyz |-> 0]
  /\ hid = [ongoing |-> FALSE, valid |-> FALSE, report |-> 0, trans |-> 0]
  /\ ep \in {"off", "on"}
  /\ job = NoJob /\ bank = <<>>
  /\ seen = 0 /\ epoch = 0

Control == Disable \/ Enable \/ SetHalt \/ ClearHalt \/ Reallocate

Next ==
  \/ MovePen \/ Convert \/ TouchInterrupt
  \/ DmaMove \/ HostPoll \/ Sent
  \/ Control
  \/ MainLoop

Spec == Init /\ [][Next]_vars

\* The host polls the endpoint at its interval while it is on; neither interrupt
\* is masked for long.
Fairness == WF_vars(DmaMove) /\ WF_vars(HostPoll) /\ WF_vars(Sent)

FairSpec == Spec /\ Fairness

-----------------------------------------------------------------------------
(* Properties                                                              *)

TypeOK ==
  /\ pen \in BOOLEAN
  /\ adc \in {"off", "run", "done"}
  /\ result \in 0 .. SampleBound
  /\ flags \in [busy : BOOLEAN, complete : BOOLEAN]
  /\ main \in [pc : {"busy", "pen", "start", "complete", "move"}, xyz : 0 .. SampleBound]
  /\ hid \in [ongoing : BOOLEAN, valid : BOOLEAN, report : 0 .. SampleBound,
              trans : 0 .. SampleBound]
  /\ ep \in {"off", "on", "halted"}
  /\ job \in [busy : BOOLEAN, left : 0 .. ReportSize, again : BOOLEAN]
  /\ bank \in Seq([rep : 0 .. SampleBound, n : 1 .. EpSize, first : BOOLEAN,
                   again : BOOLEAN])
  /\ Len(bank) <= 1
  /\ seen \in 0 .. SampleBound
  /\ epoch \in {0, 1}

\* The main loop never waits for a read that is not under way: bTouchBusy is
\* cleared by the interrupt handler alone, and no new read starts before.
ReadUnderWay == flags.busy = (adc # "off" \/ main.pc = "start")

\* udi_hid_touch.c and the USB driver agree on whether a report is under way,
\* through every abort, restart and refusal - if they did not, either no report
\* would be sent any more or one would be overwritten - and a report waits only
\* while an earlier one is under way, whose callback sends it.
OngoingHasJob ==
  /\ hid.ongoing = job.busy
  /\ hid.valid => hid.ongoing /\ hid.report > hid.trans

\* Unless the driver ran a transfer again, the host gets each report once and none
\* after a later one, and what follows a report's first packet is of the same
\* report: it is not overwritten while it is sent.
EachOnceInOrder ==
  bank # <<>> /\ ~Head(bank).again =>
    IF Head(bank).first THEN Head(bank).rep > seen ELSE Head(bank).rep = seen

\* The latest report reaches the host unless a later one does, or the endpoint
\* is taken away: reports that come too fast are merged, the last is not lost.
LatestIsSeen ==
  \A s \in 1 .. SampleBound, e \in {0, 1} :
    ep = "on" /\ epoch = e /\ hid.ongoing /\ hid.report = s ~> seen >= s \/ epoch # e
=============================================================================
