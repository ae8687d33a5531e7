---------------------------- MODULE TouchProofs ----------------------------
(***************************************************************************)
(* Proofs about Touch, for every size of a report and of a packet.         *)
(***************************************************************************)
EXTENDS Touch, SequenceTheorems, TLAPS

Statics == [ongoing : BOOLEAN, valid : BOOLEAN, report : 0 .. SampleBound,
            trans : 0 .. SampleBound]

Job == [busy : BOOLEAN, left : 0 .. ReportSize, again : BOOLEAN]

Packet == [rep : 0 .. SampleBound, n : 1 .. EpSize, first : BOOLEAN, again : BOOLEAN]

\* The main loop and the interrupt handler: a read is begun only when none is
\* under way, and a report is made only of a read that has ended.
Reads ==
  /\ ReadUnderWay
  /\ flags.complete => ~flags.busy
  /\ main.pc \in {"pen", "start"} => adc = "off"
  /\ main.pc = "pen" => ~flags.busy
  /\ main.pc = "move" => ~flags.busy /\ ~flags.complete

\* No report is later than s, wherever it is.
UpTo(h, sn, b, s) ==
  /\ h.report <= s /\ h.trans <= s /\ sn <= s
  /\ b # <<>> => Head(b).rep <= s

\* A sample that is read, or about to be reported, is later than every report.
Samples ==
  /\ UpTo(hid, seen, bank, result)
  /\ adc = "done" \/ flags.complete => UpTo(hid, seen, bank, result - 1)
  /\ main.pc = "move" => UpTo(hid, seen, bank, main.xyz - 1) /\ main.xyz <= result

\* What the host has and what is on its way to it is no later than the report
\* under way.
Behind ==
  hid.ongoing => /\ hid.trans <= hid.report
                 /\ seen <= hid.trans
                 /\ bank # <<>> => Head(bank).rep <= hid.trans

\* Nothing of the report is sent, or its packets are the last that were.
Progress ==
  job.busy /\ ~job.again =>
    IF job.left = ReportSize
    THEN seen < hid.trans /\ (bank # <<>> => Head(bank).rep < hid.trans)
    ELSE IF bank = <<>> THEN seen = hid.trans
         ELSE Head(bank).rep = hid.trans /\ ~Head(bank).again

Inv == TypeOK /\ Reads /\ Samples /\ OngoingHasJob /\ Behind /\ Progress /\ EachOnceInOrder

-----------------------------------------------------------------------------
(* The operators of the HID interface                                      *)

LEMMA Sizes ==
  /\ ReportSize \in Nat /\ 0 < ReportSize
  /\ EpSize \in Nat /\ 0 < EpSize
  /\ SampleBound \in Nat
BY TouchAssumption

\* The bank holds a packet or nothing.
LEMMA InBank ==
  ASSUME TypeOK
  PROVE  bank = <<>> \/ (bank = <<Head(bank)>> /\ Head(bank) \in Packet)
<1>1. bank \in Seq(Packet) /\ Len(bank) <= 1
  BY DEF TypeOK, Packet
<1>2. CASE bank # <<>>
  <2>1. Len(bank) = 1
    <3>1. Len(bank) \in Nat \ {0}
      BY <1>1, <1>2, EmptySeq
    <3>2. Len(bank) <= 1
      BY <1>1
    <3>3. \A n \in Nat \ {0} : n <= 1 => n = 1
      OBVIOUS
    <3>4. QED
      BY <3>1, <3>2, <3>3
  <2>2. bank[1] \in Packet
    BY <1>1, <2>1, ElementOfSeq
  <2>3. <<bank[1]>> \in Seq(Packet) /\ Len(<<bank[1]>>) = 1 /\ <<bank[1]>>[1] = bank[1]
    BY <2>2
  <2>4. bank = <<bank[1]>>
    BY <1>1, <2>1, <2>3, SeqEqual
  <2>5. QED
    BY <2>2, <2>4
<1>3. QED
  BY <1>2

\* A report is sent only if none is under way, and then it is the latest.
LEMMA SendReportIs ==
  ASSUME NEW h \in Statics, NEW j \in Job, h.ongoing = j.busy
  PROVE  LET s == SendReport(h, j)
         IN /\ s.hid \in Statics /\ s.job \in Job
            /\ s.hid.report = h.report
            /\ s.hid.ongoing = s.job.busy
            /\ h.ongoing => s.hid = h /\ s.job = j
            /\ ~h.ongoing => /\ s.hid.trans = h.report /\ ~s.hid.valid
                             /\ s.job.busy => s.job.left = ReportSize /\ ~s.job.again
<1>1. CASE h.ongoing
  BY <1>1 DEF SendReport
<1>2. CASE ~h.ongoing
  <2>1. CanRun(j) \in BOOLEAN
    BY DEF CanRun
  <2>2. /\ SendReport(h, j).hid =
             [h EXCEPT !.trans = h.report, !.valid = FALSE, !.ongoing = CanRun(j)]
        /\ SendReport(h, j).job =
             IF CanRun(j) THEN [busy |-> TRUE, left |-> ReportSize, again |-> FALSE] ELSE j
    BY <1>2 DEF SendReport
  <2>3. SendReport(h, j).hid = [ongoing |-> CanRun(j), valid |-> FALSE,
                                report |-> h.report, trans |-> h.report]
    BY <2>2 DEF Statics
  <2>4. CASE CanRun(j)
    <3>1. CanRun(j) = TRUE
      BY <2>1, <2>4
    <3>2. /\ SendReport(h, j).hid = [ongoing |-> TRUE, valid |-> FALSE,
                                    report |-> h.report, trans |-> h.report]
          /\ SendReport(h, j).job = [busy |-> TRUE, left |-> ReportSize, again |-> FALSE]
      BY <2>2, <2>3, <2>4, <3>1
    <3>3. QED
      BY <1>2, <3>2, Sizes DEF Statics, Job
  <2>5. CASE ~CanRun(j)
    <3>1. CanRun(j) = FALSE
      BY <2>1, <2>5
    <3>2. /\ SendReport(h, j).hid = [ongoing |-> FALSE, valid |-> FALSE,
                                    report |-> h.report, trans |-> h.report]
          /\ SendReport(h, j).job = j
      BY <2>2, <2>3, <2>5, <3>1
    <3>3. j.busy = FALSE
      BY <1>2 DEF Job
    <3>4. /\ SendReport(h, j).hid \in Statics
          /\ SendReport(h, j).hid.report = h.report
          /\ SendReport(h, j).hid.ongoing = FALSE
          /\ SendReport(h, j).hid.trans = h.report
          /\ SendReport(h, j).hid.valid = FALSE
      BY <3>2 DEF Statics
    <3>5. SendReport(h, j).job \in Job /\ SendReport(h, j).job.busy = FALSE
      BY <3>2, <3>3
    <3>6. QED
      BY <1>2, <3>4, <3>5
  <2>6. QED
    BY <2>4, <2>5
<1>3. QED
  BY <1>1, <1>2

LEMMA NoJobType == NoJob \in Job /\ NoJob.busy = FALSE
BY Sizes DEF NoJob, Job

\* The callback sends the report that waits, if one does.
LEMMA ReportSentIs ==
  ASSUME NEW h \in Statics
  PROVE  LET s == ReportSent(h)
         IN /\ s.hid \in Statics /\ s.job \in Job
            /\ s.hid.report = h.report
            /\ s.hid.ongoing = s.job.busy
            /\ ~s.hid.valid
            /\ s.hid.trans = IF h.valid THEN h.report ELSE h.trans
            /\ s.job.busy => h.valid /\ s.job.left = ReportSize /\ ~s.job.again
<1> DEFINE over == [h EXCEPT !.ongoing = FALSE]
<1>1. /\ over \in Statics /\ over.ongoing = FALSE
      /\ over.report = h.report /\ over.valid = h.valid /\ over.trans = h.trans
  BY DEF Statics
<1>2. over.ongoing = NoJob.busy
  BY <1>1, NoJobType
<1>3. CASE h.valid
  <2>1. ReportSent(h) = SendReport(over, NoJob)
    BY <1>3 DEF ReportSent
  <2>2. LET s == SendReport(over, NoJob)
        IN /\ s.hid \in Statics /\ s.job \in Job
           /\ s.hid.report = over.report
           /\ s.hid.ongoing = s.job.busy
           /\ s.hid.trans = over.report /\ ~s.hid.valid
           /\ s.job.busy => s.job.left = ReportSize /\ ~s.job.again
    <3> HIDE DEF over
    <3>1. QED
      BY <1>1, <1>2, NoJobType, SendReportIs
  <2>3. QED
    BY <1>1, <1>3, <2>1, <2>2
<1>4. CASE ~h.valid
  <2>1. ReportSent(h).hid = over /\ ReportSent(h).job = NoJob
    BY <1>4 DEF ReportSent
  <2>2. QED
    BY <1>1, <1>2, <1>4, <2>1, NoJobType
<1>5. QED
  BY <1>3, <1>4

-----------------------------------------------------------------------------
(* The steps                                                               *)

LEMMA InitInv == Init => Inv
<1> SUFFICES ASSUME Init PROVE Inv
  OBVIOUS
<1>1. TypeOK
  <2>1. <<>> \in Seq([rep : 0 .. SampleBound, n : 1 .. EpSize, first : BOOLEAN,
                     again : BOOLEAN]) /\ Len(<<>>) <= 1
    OBVIOUS
  <2>2. job \in Job
    BY NoJobType DEF Init
  <2>3. QED
    BY <2>1, <2>2, Sizes DEF Init, TypeOK, Job
<1>2. Reads
  <2>1. flags.busy = TRUE /\ flags.complete = FALSE /\ main.pc = "start" /\ adc = "off"
    BY DEF Init
  <2>2. QED
    BY <2>1 DEF Reads, ReadUnderWay
<1>3. Samples
  BY DEF Init, Samples, UpTo
<1>4. OngoingHasJob /\ Behind /\ Progress /\ EachOnceInOrder
  BY DEF Init, NoJob, OngoingHasJob, Behind, Progress, EachOnceInOrder
<1>5. QED
  BY <1>1, <1>2, <1>3, <1>4 DEF Inv

Reports == OngoingHasJob /\ Behind /\ Progress /\ EachOnceInOrder

\* What the main loop and the touch controller do to the reports, except when one
\* is made: nothing.
LEMMA ReportsStay ==
  ASSUME Reports, UNCHANGED <<hid, job, bank, seen>>
  PROVE  Reports'
BY DEF Reports, OngoingHasJob, Behind, Progress, EachOnceInOrder

LEMMA ReadingKeeps ==
  ASSUME Inv, MovePen \/ Convert \/ TouchInterrupt
  PROVE  Inv'
<1>1. TypeOK /\ Reads /\ Samples /\ Reports
  BY DEF Inv, Reports
<1>2. UNCHANGED <<hid, job, bank, seen, main, ep, epoch>>
  BY DEF MovePen, Convert, TouchInterrupt
<1>3. Reports'
  BY <1>1, <1>2, ReportsStay
<1>4. CASE MovePen
  <2>1. TypeOK'
    BY <1>1, <1>4 DEF TypeOK, MovePen
  <2>2. Reads' /\ Samples'
    BY <1>1, <1>4 DEF Reads, ReadUnderWay, Samples, UpTo, MovePen
  <2>3. QED
    BY <1>3, <2>1, <2>2 DEF Inv, Reports
<1>5. CASE Convert
  <2>1. TypeOK'
    BY <1>1, <1>5, Sizes DEF TypeOK, Convert
  <2>2. Reads'
    BY <1>1, <1>5 DEF Reads, ReadUnderWay, Convert
  <2>3. /\ result \in Nat /\ result' = result + 1 /\ result' - 1 = result
        /\ UpTo(hid, seen, bank, result)
    BY <1>1, <1>5, Sizes DEF TypeOK, Convert, Samples
  <2>4. UpTo(hid', seen', bank', result') /\ UpTo(hid', seen', bank', result' - 1)
    <3>1. /\ hid.report \in Nat /\ hid.trans \in Nat /\ seen \in Nat
          /\ bank # <<>> => Head(bank).rep \in Nat
      BY <1>1, InBank, Sizes DEF TypeOK, Packet
    <3>2. UpTo(hid, seen, bank, result + 1) /\ UpTo(hid, seen, bank, result)
      BY <2>3, <3>1 DEF UpTo
    <3>3. QED
      BY <1>2, <2>3, <3>2 DEF UpTo
  <2>5. main.pc # "move"
    BY <1>1, <1>5 DEF Reads, ReadUnderWay, Convert, TypeOK
  <2>6. Samples'
    BY <1>2, <2>4, <2>5 DEF Samples
  <2>7. QED
    BY <1>3, <2>1, <2>2, <2>6 DEF Inv, Reports
<1>6. CASE TouchInterrupt
  <2>1. flags' = [busy |-> FALSE, complete |-> TRUE]
    BY <1>6 DEF TouchInterrupt, ReadEnded
  <2>2. TypeOK'
    BY <1>1, <1>6, <2>1 DEF TypeOK, TouchInterrupt
  <2>3. Reads'
    <3>1. main.pc \notin {"pen", "start"} /\ main' = main /\ adc' = "off"
      BY <1>1, <1>6 DEF Reads, TouchInterrupt
    <3>2. flags'.busy = FALSE /\ flags'.complete = TRUE
      BY <2>1
    <3>3. main.pc # "move"
      BY <1>1, <1>6 DEF Reads, ReadUnderWay, TouchInterrupt
    <3>4. QED
      BY <3>1, <3>2, <3>3 DEF Reads, ReadUnderWay
  <2>4. Samples'
    BY <1>1, <1>2, <1>6 DEF Samples, UpTo, TouchInterrupt
  <2>5. QED
    BY <1>3, <2>2, <2>3, <2>4 DEF Inv, Reports
<1>7. QED
  BY <1>4, <1>5, <1>6

LEMMA LoopKeeps ==
  ASSUME Inv, TestBusy \/ TestPen \/ StartRead \/ TestComplete
  PROVE  Inv'
<1>1. TypeOK /\ Reads /\ Samples /\ Reports
  BY DEF Inv, Reports
<1>2. UNCHANGED <<hid, job, bank, seen, ep, epoch, pen, result>>
  BY DEF TestBusy, TestPen, StartRead, TestComplete
<1>3. Reports'
  BY <1>1, <1>2, ReportsStay
<1>4. CASE TestBusy
  <2>1. TypeOK'
    BY <1>1, <1>4 DEF TypeOK, TestBusy
  <2>2. Reads'
    BY <1>1, <1>4 DEF TypeOK, Reads, ReadUnderWay, TestBusy
  <2>3. Samples'
    BY <1>1, <1>2, <1>4 DEF TypeOK, Samples, UpTo, TestBusy
  <2>4. QED
    BY <1>3, <2>1, <2>2, <2>3 DEF Inv, Reports
<1>5. CASE TestPen
  <2>1. TypeOK'
    BY <1>1, <1>5 DEF TypeOK, TestPen
  <2>2. Reads'
    BY <1>1, <1>5 DEF TypeOK, Reads, ReadUnderWay, TestPen
  <2>3. Samples'
    BY <1>1, <1>2, <1>5 DEF TypeOK, Samples, UpTo, TestPen
  <2>4. QED
    BY <1>3, <2>1, <2>2, <2>3 DEF Inv, Reports
<1>6. CASE StartRead
  <2>1. TypeOK'
    BY <1>1, <1>6 DEF TypeOK, StartRead
  <2>2. Reads'
    BY <1>1, <1>6 DEF TypeOK, Reads, ReadUnderWay, StartRead
  <2>3. Samples'
    BY <1>1, <1>2, <1>6 DEF TypeOK, Samples, UpTo, StartRead
  <2>4. QED
    BY <1>3, <2>1, <2>2, <2>3 DEF Inv, Reports
<1>7. CASE TestComplete
  <2>1. TypeOK'
    BY <1>1, <1>7 DEF TypeOK, TestComplete
  <2>2. Reads'
    BY <1>1, <1>7 DEF TypeOK, Reads, ReadUnderWay, TestComplete
  <2>3. ASSUME flags.complete PROVE Samples'
    <3>1. main' = [pc |-> "move", xyz |-> result] /\ UpTo(hid, seen, bank, result - 1) /\ result \in Nat
      BY <1>1, <1>7, <2>3 DEF TestComplete, Samples, TypeOK
    <3>2. adc = "off"
      BY <1>1, <2>3 DEF Reads, ReadUnderWay, TypeOK
    <3>3. UpTo(hid', seen', bank', result) /\ UpTo(hid', seen', bank', result - 1) /\ result' = result /\ adc' = adc
      BY <1>1, <1>2, <1>7, <3>1 DEF Samples, UpTo, TestComplete
    <3>4. UpTo(hid', seen', bank', result') /\ UpTo(hid', seen', bank', main'.xyz - 1) /\ main'.xyz <= result'
      BY <3>1, <3>3 DEF UpTo
    <3>5. flags'.complete = FALSE
      BY <1>1, <1>7 DEF TestComplete, TypeOK
    <3>6. QED
      BY <3>2, <3>3, <3>4, <3>5 DEF Samples
  <2>4. ASSUME ~flags.complete PROVE Samples'
    <3>1. flags' = [flags EXCEPT !.complete = FALSE] /\ main'.pc = "busy" /\ adc' = adc
      BY <1>1, <1>7, <2>4 DEF TestComplete, TypeOK
    <3>2. flags'.complete = FALSE
      BY <1>1, <3>1 DEF TypeOK
    <3>3. QED
      BY <1>1, <1>2, <3>1, <3>2 DEF Samples, UpTo
  <2>5. Samples'
    BY <2>3, <2>4
  <2>6. QED
    BY <1>3, <2>1, <2>2, <2>5 DEF Inv, Reports
<1>8. QED
  BY <1>4, <1>5, <1>6, <1>7

\* Moving packets: to the bank, and from it to the host.
LEMMA DmaKeeps ==
  ASSUME Inv, DmaMove
  PROVE  Inv'
<1> DEFINE n == PacketLen(job.left)
           p == [rep |-> hid.trans, n |-> n, first |-> job.left = ReportSize,
                 again |-> job.again]
<1>1. TypeOK /\ Reads /\ Samples /\ Reports
  BY DEF Inv, Reports
<1>2. /\ hid \in Statics /\ job \in Job /\ seen \in 0 .. SampleBound
      /\ job.busy /\ job.left > 0 /\ bank = <<>> /\ hid.ongoing
  BY <1>1 DEF TypeOK, Statics, Job, DmaMove, Reports, OngoingHasJob
<1>3. n \in 1 .. EpSize /\ n <= job.left
  BY <1>2, Sizes DEF PacketLen, Job
<1>4. /\ bank' = <<p>> /\ job' = [job EXCEPT !.left = @ - n]
      /\ UNCHANGED <<pen, adc, result, flags, main, hid, ep, seen, epoch>>
  BY DEF DmaMove
<1>5. p \in Packet /\ p.rep = hid.trans /\ p.again = job.again
      /\ p.first = (job.left = ReportSize)
  BY <1>2, <1>3 DEF Packet, Statics, Job
<1>6. /\ job' \in Job /\ job'.busy = job.busy /\ job'.again = job.again
      /\ job'.left < ReportSize
  <2>1. job' = [busy |-> job.busy, left |-> job.left - n, again |-> job.again]
    BY <1>2, <1>4 DEF Job
  <2>2. job.left \in 0 .. ReportSize /\ n \in Nat /\ n > 0
    BY <1>2, <1>3, Sizes DEF Job
  <2>3. job.left - n \in 0 .. ReportSize /\ job.left - n < ReportSize
    BY <1>3, <2>2, Sizes
  <2> HIDE DEF n
  <2>4. QED
    BY <1>2, <2>1, <2>3 DEF Job
<1> HIDE DEF n, p
<1>7. bank' # <<>> /\ Head(bank') = p /\ Len(bank') <= 1 /\ bank' \in Seq(Packet)
  BY <1>4, <1>5
<1>8. TypeOK'
  BY <1>1, <1>4, <1>6, <1>7 DEF TypeOK, Job, Packet
<1>9. Reads'
  BY <1>1, <1>4 DEF Reads, ReadUnderWay
<1>10. Samples'
  BY <1>1, <1>4, <1>5, <1>7 DEF Samples, UpTo
<1>11. hid.trans \in Nat /\ seen \in Nat
  BY <1>2, Sizes DEF Statics
<1>12. OngoingHasJob' /\ Behind'
  BY <1>1, <1>4, <1>5, <1>6, <1>7, <1>11 DEF Reports, OngoingHasJob, Behind
<1>13. Progress'
  BY <1>4, <1>5, <1>6, <1>7, Sizes DEF Progress, Job
<1>14. EachOnceInOrder'
  <2>1. Progress
    BY <1>1 DEF Reports
  <2>2. ~job.again => IF job.left = ReportSize THEN seen < hid.trans ELSE seen = hid.trans
    BY <1>2, <2>1 DEF Progress
  <2>3. QED
    BY <1>4, <1>5, <1>7, <1>11, <2>2 DEF EachOnceInOrder
<1>15. QED
  BY <1>8, <1>9, <1>10, <1>12, <1>13, <1>14 DEF Inv

LEMMA PollKeeps ==
  ASSUME Inv, HostPoll
  PROVE  Inv'
<1>1. TypeOK /\ Reads /\ Samples /\ Reports
  BY DEF Inv, Reports
<1>2. /\ bank # <<>> /\ bank' = <<>>
      /\ seen' = IF Head(bank).first THEN Head(bank).rep ELSE seen
      /\ UNCHANGED <<pen, adc, result, flags, main, hid, ep, job, epoch>>
  BY DEF HostPoll
<1>3. Head(bank) \in Packet
  BY <1>1, <1>2, InBank
<1>4. /\ Head(bank).rep \in 0 .. SampleBound /\ Head(bank).first \in BOOLEAN
      /\ Head(bank).again \in BOOLEAN
      /\ seen \in 0 .. SampleBound /\ hid.trans \in 0 .. SampleBound
  BY <1>1, <1>3 DEF Packet, TypeOK
<1>5. TypeOK'
  <2>1. <<>> \in Seq([rep : 0 .. SampleBound, n : 1 .. EpSize, first : BOOLEAN,
                      again : BOOLEAN]) /\ Len(<<>>) <= 1
    OBVIOUS
  <2>2. QED
    BY <1>1, <1>2, <1>4, <2>1 DEF TypeOK
<1>6. Reads'
  BY <1>1, <1>2 DEF Reads, ReadUnderWay
<1>7. Samples'
  BY <1>1, <1>2 DEF Samples, UpTo
<1>8. OngoingHasJob' /\ EachOnceInOrder'
  BY <1>1, <1>2 DEF Reports, OngoingHasJob, EachOnceInOrder
<1>9. Behind'
  BY <1>1, <1>2 DEF Reports, Behind
<1>10. Progress'
  <2>1. Progress /\ EachOnceInOrder
    BY <1>1 DEF Reports
  <2>2. job.busy /\ ~job.again =>
          IF job.left = ReportSize THEN seen < hid.trans /\ Head(bank).rep < hid.trans
          ELSE Head(bank).rep = hid.trans /\ ~Head(bank).again
    BY <1>2, <2>1 DEF Progress
  <2>3. ~Head(bank).again =>
          IF Head(bank).first THEN Head(bank).rep > seen ELSE Head(bank).rep = seen
    BY <1>2, <2>1 DEF EachOnceInOrder
  <2>4. QED
    BY <1>2, <1>4, <2>2, <2>3 DEF Progress
<1>11. QED
  BY <1>5, <1>6, <1>7, <1>8, <1>9, <1>10 DEF Inv

\* What a step of the USB side keeps of the rest.
LEMMA ReadsStay ==
  ASSUME Reads, UNCHANGED <<adc, flags, main>>
  PROVE  Reads'
BY DEF Reads, ReadUnderWay

LEMMA NothingInBank == <<>> \in Seq(Packet) /\ Len(<<>>) <= 1
OBVIOUS

\* The reports on the USB side get no later: the samples stay later than they.
LEMMA SamplesStay ==
  ASSUME TypeOK, Samples, UNCHANGED <<adc, result, flags, main, seen>>,
         hid'.report <= hid.report \/ hid'.report = 0,
         hid'.trans \in {hid.trans, hid.report, hid'.report},
         hid' \in Statics,
         bank' \in {bank, <<>>},
         main.pc = "move" => main.xyz > 0,
         adc = "done" \/ flags.complete => result > 0
  PROVE  Samples'
<1>1. /\ hid.report \in 0 .. SampleBound /\ hid.trans \in 0 .. SampleBound
      /\ hid'.report \in 0 .. SampleBound /\ hid'.trans \in 0 .. SampleBound
      /\ result \in 0 .. SampleBound /\ main.xyz \in 0 .. SampleBound
      /\ seen \in 0 .. SampleBound
  BY DEF TypeOK, Statics
<1>2. ASSUME NEW s \in 0 .. SampleBound, UpTo(hid, seen, bank, s)
      PROVE  UpTo(hid', seen', bank', s)
  BY <1>1, <1>2, Sizes DEF UpTo
<1>3. ASSUME NEW s \in 1 .. SampleBound, UpTo(hid, seen, bank, s - 1)
      PROVE  UpTo(hid', seen', bank', s - 1)
  BY <1>1, <1>3, Sizes DEF UpTo
<1>4. QED
  BY <1>1, <1>2, <1>3 DEF Samples

\* A sample that is read or reported is not 0, the number of none.
LEMMA SamplesAreReal ==
  ASSUME TypeOK, Samples
  PROVE  /\ main.pc = "move" => main.xyz > 0
         /\ adc = "done" \/ flags.complete => result > 0
BY Sizes DEF TypeOK, Samples, UpTo

LEMMA SentKeeps ==
  ASSUME Inv, Sent
  PROVE  Inv'
<1> DEFINE s == ReportSent(hid)
<1>1. TypeOK /\ Reads /\ Samples /\ Reports
  BY DEF Inv, Reports
<1>2. /\ hid \in Statics /\ job \in Job /\ job.busy /\ hid.ongoing
      /\ seen \in 0 .. SampleBound
  BY <1>1 DEF TypeOK, Statics, Job, Sent, Reports, OngoingHasJob
<1>3. /\ hid' = s.hid /\ job' = s.job
      /\ UNCHANGED <<pen, adc, result, flags, main, ep, bank, seen, epoch>>
  BY DEF Sent
<1>4. /\ hid' \in Statics /\ job' \in Job
      /\ hid'.report = hid.report
      /\ hid'.ongoing = job'.busy
      /\ ~hid'.valid
      /\ hid'.trans = IF hid.valid THEN hid.report ELSE hid.trans
      /\ job'.busy => hid.valid /\ job'.left = ReportSize /\ ~job'.again
  BY <1>2, <1>3, ReportSentIs
<1> HIDE DEF s
<1>5. /\ hid.report \in Nat /\ hid.trans \in Nat /\ seen \in Nat
      /\ hid.trans <= hid.report /\ seen <= hid.trans
      /\ bank # <<>> => Head(bank).rep \in Nat /\ Head(bank).rep <= hid.trans
      /\ hid.valid => hid.trans < hid.report
  BY <1>1, <1>2, InBank, Sizes DEF Reports, Behind, OngoingHasJob, Statics, Packet
<1>6. TypeOK'
  BY <1>1, <1>3, <1>4 DEF TypeOK, Statics, Job
<1>7. Reads'
  BY <1>1, <1>3, ReadsStay
<1>8. Samples'
  BY <1>1, <1>3, <1>4, <1>5, SamplesStay, SamplesAreReal
<1>9. OngoingHasJob' /\ Behind'
  BY <1>3, <1>4, <1>5 DEF OngoingHasJob, Behind
<1>10. Progress'
  BY <1>3, <1>4, <1>5 DEF Progress
<1>11. EachOnceInOrder'
  BY <1>1, <1>3 DEF Reports, EachOnceInOrder
<1>12. QED
  BY <1>6, <1>7, <1>8, <1>9, <1>10, <1>11 DEF Inv

\* A stop or a restart of the endpoint leaves no job and no packet.
LEMMA StopKeeps ==
  ASSUME Inv, Disable \/ Enable
  PROVE  Inv'
<1>1. TypeOK /\ Reads /\ Samples /\ Reports
  BY DEF Inv, Reports
<1>2. /\ hid \in Statics /\ hid.ongoing = job.busy /\ (hid.valid => hid.ongoing)
  BY <1>1 DEF TypeOK, Statics, Reports, OngoingHasJob
<1>3. /\ job' = NoJob /\ bank' = <<>> /\ epoch' = 1 - epoch
      /\ UNCHANGED <<pen, adc, result, flags, main, seen>>
      /\ ep' \in {"off", "on"}
  BY DEF Disable, Enable
<1>4. /\ hid' \in Statics /\ hid'.ongoing = FALSE /\ hid'.valid = FALSE
      /\ hid'.report \in {hid.report, 0} /\ hid'.trans \in {hid.trans, hid.report}
  <2>1. CASE Disable /\ job.busy
    <3>1. hid' = [hid EXCEPT !.ongoing = FALSE, !.valid = FALSE,
                             !.trans = IF hid.valid THEN hid.report ELSE @]
      BY <2>1 DEF Disable
    <3>2. QED
      BY <1>2, <3>1 DEF Statics
  <2>2. CASE Disable /\ ~job.busy
    <3>1. hid' = hid
      BY <2>2 DEF Disable
    <3>2. hid.ongoing = FALSE /\ hid.valid = FALSE
      BY <1>2, <2>2 DEF Statics
    <3>3. QED
      BY <1>2, <3>1, <3>2
  <2>3. CASE Enable
    <3>1. hid' = [ongoing |-> FALSE, valid |-> FALSE, report |-> 0,
                  trans |-> IF job.busy /\ hid.valid THEN hid.report ELSE hid.trans]
      BY <2>3 DEF Enable
    <3>2. QED
      BY <1>2, <3>1, Sizes DEF Statics
  <2>4. QED
    BY <2>1, <2>2, <2>3
<1>5. TypeOK'
  BY <1>1, <1>3, <1>4, NoJobType, NothingInBank DEF TypeOK, Statics, Job, Packet
<1>6. Reads'
  BY <1>1, <1>3, ReadsStay
<1>7. hid'.report <= hid.report \/ hid'.report = 0
  BY <1>2, <1>4, Sizes DEF Statics
<1>8. Samples'
  BY <1>1, <1>3, <1>4, <1>7, SamplesStay, SamplesAreReal
<1>9. OngoingHasJob' /\ Behind' /\ Progress' /\ EachOnceInOrder'
  BY <1>3, <1>4, NoJobType DEF OngoingHasJob, Behind, Progress, EachOnceInOrder
<1>10. QED
  BY <1>5, <1>6, <1>8, <1>9 DEF Inv

LEMMA HaltKeeps ==
  ASSUME Inv, SetHalt
  PROVE  Inv'
<1>1. TypeOK /\ Reads /\ Samples /\ Reports
  BY DEF Inv, Reports
<1>2. /\ hid \in Statics /\ job \in Job /\ hid.ongoing = job.busy
      /\ hid.valid => hid.ongoing
      /\ seen \in 0 .. SampleBound
  BY <1>1 DEF TypeOK, Statics, Job, Reports, OngoingHasJob
<1>3. /\ hid' = Aborted.hid /\ job' = Aborted.job /\ bank' = <<>> /\ epoch' = 1 - epoch
      /\ ep' \in {"on", "halted"}
      /\ UNCHANGED <<pen, adc, result, flags, main, seen>>
  BY DEF SetHalt
<1>4. /\ hid' \in Statics /\ job' \in Job
      /\ hid'.report = hid.report
      /\ hid'.ongoing = job'.busy
      /\ ~hid'.valid
      /\ hid'.trans = IF hid.valid THEN hid.report ELSE hid.trans
      /\ job'.busy => hid.valid /\ hid.ongoing /\ job'.left = ReportSize /\ ~job'.again
  <2>1. CASE job.busy
    <3>1. hid' = ReportSent(hid).hid /\ job' = ReportSent(hid).job
      BY <1>3, <2>1 DEF Aborted
    <3>2. QED
      BY <1>2, <2>1, <3>1, ReportSentIs
  <2>2. CASE ~job.busy
    <3>1. hid' = hid /\ job' = job
      BY <1>3, <2>2 DEF Aborted
    <3>2. hid.valid = FALSE /\ job.busy = FALSE
      BY <1>2, <2>2 DEF Statics, Job
    <3>3. QED
      BY <1>2, <3>1, <3>2
  <2>3. QED
    BY <2>1, <2>2
<1>5. /\ hid.report \in Nat /\ hid.trans \in Nat /\ seen \in Nat
      /\ hid.ongoing => hid.trans <= hid.report /\ seen <= hid.trans
      /\ hid.valid => hid.trans < hid.report
  BY <1>1, <1>2, Sizes DEF Reports, Behind, OngoingHasJob, Statics
<1>6. TypeOK'
  BY <1>1, <1>3, <1>4, NothingInBank DEF TypeOK, Statics, Job, Packet
<1>7. Reads'
  BY <1>1, <1>3, ReadsStay
<1>8. Samples'
  BY <1>1, <1>3, <1>4, <1>5, SamplesStay, SamplesAreReal
<1>9. OngoingHasJob' /\ EachOnceInOrder'
  BY <1>3, <1>4 DEF OngoingHasJob, EachOnceInOrder
<1>10. Behind' /\ Progress'
  BY <1>3, <1>4, <1>5 DEF Behind, Progress
<1>11. QED
  BY <1>6, <1>7, <1>8, <1>9, <1>10 DEF Inv

LEMMA ClearKeeps ==
  ASSUME Inv, ClearHalt
  PROVE  Inv'
<1>1. TypeOK /\ Reads /\ Samples /\ Reports
  BY DEF Inv, Reports
<1>2. ep' = "on" /\ UNCHANGED <<pen, adc, result, flags, main, hid, job, bank, seen, epoch>>
  BY DEF ClearHalt
<1>3. TypeOK'
  BY <1>1, <1>2 DEF TypeOK
<1>4. Reads' /\ Samples'
  BY <1>1, <1>2, ReadsStay DEF Samples
<1>5. Reports'
  BY <1>1, <1>2, ReportsStay
<1>6. QED
  BY <1>3, <1>4, <1>5 DEF Inv, Reports

LEMMA ReallocateKeeps ==
  ASSUME Inv, Reallocate
  PROVE  Inv'
<1>1. TypeOK /\ Reads /\ Samples /\ Reports
  BY DEF Inv, Reports
<1>2. /\ job' = IF job.busy THEN [busy |-> TRUE, left |-> ReportSize, again |-> TRUE] ELSE job
      /\ bank' = <<>> /\ epoch' = 1 - epoch
      /\ UNCHANGED <<pen, adc, result, flags, main, hid, ep, seen>>
  BY DEF Reallocate
<1>3. /\ hid \in Statics /\ job \in Job
  BY <1>1 DEF TypeOK, Statics, Job
<1>4. job' \in Job /\ job'.busy = job.busy /\ (job'.busy => job'.again)
  <2>1. CASE job.busy
    <3>1. job.busy = TRUE
      BY <1>3, <2>1 DEF Job
    <3>2. job' = [busy |-> TRUE, left |-> ReportSize, again |-> TRUE]
      BY <1>2, <2>1
    <3>3. job'.busy = TRUE /\ job'.again = TRUE
      BY <3>2
    <3>4. job' \in Job
      BY <3>2, Sizes DEF Job
    <3>5. QED
      BY <3>1, <3>3, <3>4
  <2>2. CASE ~job.busy
    <3>1. job' = job
      BY <1>2, <2>2
    <3>2. QED
      BY <1>3, <2>2, <3>1
  <2>3. QED
    BY <2>1, <2>2
<1>5. TypeOK'
  BY <1>1, <1>2, <1>4, NothingInBank DEF TypeOK, Job, Packet
<1>6. Reads'
  BY <1>1, <1>2, ReadsStay
<1>7. hid'.report <= hid.report
  BY <1>2, <1>3, Sizes DEF Statics
<1>8. Samples'
  BY <1>1, <1>2, <1>3, <1>7, SamplesStay, SamplesAreReal
<1>9. OngoingHasJob' /\ Behind' /\ Progress' /\ EachOnceInOrder'
  BY <1>1, <1>2, <1>4 DEF Reports, OngoingHasJob, Behind, Progress, EachOnceInOrder
<1>10. QED
  BY <1>5, <1>6, <1>8, <1>9 DEF Inv

\* A new report, later than every other, waits for the one under way or is sent.
LEMMA MoveKeeps ==
  ASSUME Inv, Move
  PROVE  Inv'
<1> DEFINE h == [hid EXCEPT !.report = main.xyz, !.valid = TRUE]
<1>1. TypeOK /\ Reads /\ Samples /\ Reports
  BY DEF Inv, Reports
<1>2. /\ hid \in Statics /\ job \in Job /\ hid.ongoing = job.busy
      /\ main \in [pc : {"busy", "pen", "start", "complete", "move"}, xyz : 0 .. SampleBound]
      /\ main.pc = "move"
      /\ seen \in 0 .. SampleBound /\ result \in 0 .. SampleBound
  BY <1>1 DEF TypeOK, Statics, Job, Reports, OngoingHasJob, Move
<1>3. /\ h \in Statics /\ h.report = main.xyz /\ h.valid = TRUE
      /\ h.ongoing = hid.ongoing /\ h.trans = hid.trans
  BY <1>2 DEF Statics
<1>4. /\ hid' = SendReport(h, job).hid /\ job' = SendReport(h, job).job
      /\ main' = [main EXCEPT !.pc = "busy"]
      /\ UNCHANGED <<pen, adc, result, flags, ep, bank, seen, epoch>>
  BY DEF Move
<1> HIDE DEF h
<1>5. /\ hid' \in Statics /\ job' \in Job
      /\ hid'.report = main.xyz
      /\ hid'.ongoing = job'.busy
      /\ hid.ongoing => hid' = h /\ job' = job
      /\ ~hid.ongoing => /\ hid'.trans = main.xyz /\ ~hid'.valid
                         /\ job'.busy => job'.left = ReportSize /\ ~job'.again
  BY <1>2, <1>3, <1>4, SendReportIs
<1>6. /\ main.xyz \in Nat /\ hid.report < main.xyz /\ hid.trans < main.xyz
      /\ seen < main.xyz /\ seen \in Nat /\ hid.trans \in Nat /\ hid.report \in Nat
      /\ bank # <<>> => Head(bank).rep \in Nat /\ Head(bank).rep < main.xyz
      /\ main.xyz <= result /\ result \in Nat
  <2>1. UpTo(hid, seen, bank, main.xyz - 1) /\ main.xyz <= result
    BY <1>1, <1>2 DEF Samples
  <2>2. bank # <<>> => Head(bank).rep \in Nat
    BY <1>1, InBank, Sizes DEF Packet
  <2>3. QED
    BY <1>2, <2>1, <2>2, Sizes DEF UpTo, Statics
<1>7. TypeOK'
  BY <1>1, <1>2, <1>4, <1>5 DEF TypeOK, Statics, Job
<1>8. main'.pc = "busy"
  BY <1>2, <1>4
<1>9. Reads'
  BY <1>1, <1>2, <1>4, <1>8 DEF Reads, ReadUnderWay
<1>10. hid'.trans \in Nat /\ hid'.trans <= main.xyz
  BY <1>3, <1>5, <1>6
<1>11. Samples'
  <2>1. UpTo(hid', seen', bank', result')
    BY <1>4, <1>5, <1>6, <1>10 DEF UpTo
  <2>2. adc # "done" /\ ~flags.complete
    BY <1>1, <1>2 DEF Reads, ReadUnderWay
  <2>3. QED
    BY <1>4, <1>8, <2>1, <2>2 DEF Samples
<1>12. CASE hid.ongoing
  <2>1. hid' = h /\ job' = job /\ hid.trans <= hid.report
    BY <1>1, <1>5, <1>12 DEF Reports, Behind
  <2>2. OngoingHasJob' /\ Behind'
    <3>1. hid'.ongoing = hid.ongoing /\ hid'.report = main.xyz /\ hid'.trans = hid.trans
      BY <1>3, <2>1
    <3>2. OngoingHasJob'
      BY <1>2, <1>6, <1>12, <2>1, <3>1 DEF OngoingHasJob
    <3>3. seen <= hid.trans /\ (bank # <<>> => Head(bank).rep <= hid.trans)
      BY <1>1, <1>12 DEF Reports, Behind
    <3>4. Behind'
      BY <1>4, <1>6, <3>1, <3>3 DEF Behind
    <3>5. QED
      BY <3>2, <3>4
  <2>3. Progress' /\ EachOnceInOrder'
    BY <1>1, <1>3, <1>4, <2>1 DEF Reports, Progress, EachOnceInOrder
  <2>4. QED
    BY <1>7, <1>9, <1>11, <2>2, <2>3 DEF Inv
<1>13. CASE ~hid.ongoing
  <2>1. OngoingHasJob' /\ Behind' /\ Progress'
    BY <1>4, <1>5, <1>6, <1>13 DEF OngoingHasJob, Behind, Progress
  <2>2. EachOnceInOrder'
    BY <1>1, <1>4 DEF Reports, EachOnceInOrder
  <2>3. QED
    BY <1>7, <1>9, <1>11, <2>1, <2>2 DEF Inv
<1>14. QED
  BY <1>12, <1>13

LEMMA NextKeeps ==
  ASSUME Inv, [Next]_vars
  PROVE  Inv'
<1>1. CASE UNCHANGED vars
  BY <1>1 DEF vars, Inv, TypeOK, Reads, ReadUnderWay, Samples, OngoingHasJob, Behind,
              Progress, EachOnceInOrder
<1>2. CASE Next
  BY <1>2, ReadingKeeps, LoopKeeps, DmaKeeps, PollKeeps, SentKeeps, StopKeeps, HaltKeeps,
     ClearKeeps, ReallocateKeeps, MoveKeeps
     DEF Next, Control, MainLoop
<1>3. QED
  BY <1>1, <1>2

\* The invariant below holds in every state: see Reads, Samples, Behind and Progress.
THEOREM Invariant == Spec => []Inv
<1>1. Inv /\ [Next]_vars => Inv'
  BY NextKeeps
<1>2. QED
  BY InitInv, <1>1, PTL DEF Spec

-----------------------------------------------------------------------------
(* The properties                                                          *)

\* The variables have the types Touch gives them, whatever the sizes.
THEOREM TypeCorrect == Spec => []TypeOK
BY Invariant, PTL DEF Inv

\* The main loop never waits for a read of the touch controller that is not under
\* way (touch.c: bTouchBusy, touch_init_read and touch_trc_interrupt).
THEOREM ReadAlwaysUnderWay == Spec => []ReadUnderWay
<1>1. Inv => ReadUnderWay
  BY DEF Inv, Reads
<1>2. QED
  BY Invariant, <1>1, PTL

\* A report counts as under way exactly while the driver has a job for it, and one
\* waits only then (udi_hid_touch.c: the callback sends it).
THEOREM OngoingAlwaysHasJob == Spec => []OngoingHasJob
BY Invariant, PTL DEF Inv

\* The host gets each report once, none after a later one, and a report's packets
\* are of one report, unless the driver ran the transfer again.
THEOREM AlwaysInOrder == Spec => []EachOnceInOrder
BY Invariant, PTL DEF Inv
=============================================================================
