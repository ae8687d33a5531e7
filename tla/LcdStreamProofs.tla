-------------------------- MODULE LcdStreamProofs ---------------------------
(***************************************************************************)
(* Proofs about LcdStream, for every packet size and number of packets to  *)
(* a transfer (both speeds), header layout, number of banks, set of bitblt *)
(* areas and width of the byte counter.                                    *)
(***************************************************************************)
EXTENDS LcdStream, SequenceTheorems, TLAPS

USE DEF Buffers, Lcd, Ops

-----------------------------------------------------------------------------
(* The pieces of the callback                                              *)

\* The assumption on the constants, as the steps below use it.
LEMMA Sizes ==
  /\ Areas \subseteq Nat
  /\ 0 \in Areas
  /\ PacketSize \in Nat /\ 0 < PacketSize
  /\ XferSize \in Nat /\ PacketSize <= XferSize
  /\ Word \in Nat /\ 0 < Word /\ XferSize < Word
<1>1. 0 < PacketSize /\ PacketSize \in Nat /\ XferSize \in Nat
  BY LcdStreamAssumption
<1>2. PICK k \in 1 .. XferSize : XferSize = k * PacketSize
  BY LcdStreamAssumption
<1>3. PICK c \in Nat : k = 1 + c
  BY <1>1, <1>2
<1>4. k * PacketSize = PacketSize + c * PacketSize /\ c * PacketSize \in Nat
  BY <1>1, <1>3
<1>5. PacketSize <= XferSize
  BY <1>1, <1>2, <1>4
<1>6. QED
  BY <1>1, <1>5, LcdStreamAssumption

\* Full packets fill a transfer exactly.
LEMMA FillFits ==
  ASSUME NEW f \in Nat, f < XferSize, Whole(f)
  PROVE  /\ f + PacketSize <= XferSize
         /\ Whole(f + PacketSize)
<1>1. PICK a \in 0 .. XferSize : f = a * PacketSize
  BY Sizes DEF Whole
<1>2. PICK b \in 1 .. XferSize : XferSize = b * PacketSize
  BY LcdStreamAssumption
<1>3. a < b
  <2>1. SUFFICES ASSUME b <= a PROVE FALSE
    BY <1>1, <1>2, Sizes
  <2>2. PICK c \in Nat : a = b + c
    BY <1>1, <1>2, <2>1, Sizes
  <2>3. a * PacketSize = b * PacketSize + c * PacketSize /\ c * PacketSize \in Nat
    BY <1>2, <2>2, Sizes
  <2>4. QED
    BY <1>1, <1>2, <2>3, Sizes
<1>4. (a + 1) * PacketSize = f + PacketSize /\ a + 1 \in 0 .. XferSize
  BY <1>1, <1>2, <1>3, Sizes
<1>5. PICK c \in Nat : b = (a + 1) + c
  BY <1>1, <1>2, <1>3, Sizes
<1>6. /\ b * PacketSize = (a + 1) * PacketSize + c * PacketSize
      /\ c * PacketSize \in Nat
  BY <1>1, <1>5, Sizes
<1>7. f + PacketSize <= XferSize
  BY <1>2, <1>4, <1>6, Sizes
<1>8. QED
  BY <1>4, <1>7 DEF Whole

LEMMA WholeNoneOrOne == Whole(0) /\ Whole(PacketSize)
<1>1. 0 = 0 * PacketSize /\ PacketSize = 1 * PacketSize
  BY Sizes
<1>2. 0 \in 0 .. XferSize /\ 1 \in 0 .. XferSize
  BY Sizes
<1>3. QED
  BY <1>1, <1>2 DEF Whole

\* The host's count of its open transfer stays in a transfer.
LEMMA LeftOpenType ==
  ASSUME NEW at \in 0 .. XferSize, Whole(at), host = "framed" => at < XferSize,
         NEW n \in 0 .. PacketSize, host \in {"framed", "zlp", "wild"}
  PROVE  /\ LeftOpen(at, n) \in 0 .. XferSize /\ Whole(LeftOpen(at, n))
         /\ host = "framed" => LeftOpen(at, n) < XferSize
<1>1. CASE host = "wild" \/ n < PacketSize
  <2>1. LeftOpen(at, n) = 0
    BY <1>1, Sizes DEF LeftOpen
  <2>2. QED
    BY <2>1, WholeNoneOrOne, Sizes
<1>2. CASE host = "zlp" /\ n = PacketSize
  <2>1. LeftOpen(at, n) = PacketSize
    BY <1>2, Sizes DEF LeftOpen
  <2>2. QED
    BY <1>2, <2>1, WholeNoneOrOne, Sizes
<1>3. CASE host = "framed" /\ n = PacketSize
  <2>1. LeftOpen(at, n) = IF at + PacketSize = XferSize THEN 0 ELSE at + PacketSize
    BY <1>3, Sizes DEF LeftOpen, Ends
  <2>2. at + PacketSize <= XferSize /\ Whole(at + PacketSize) /\ at \in Nat
    BY <1>3, FillFits, Sizes
  <2>3. QED
    BY <2>1, <2>2, WholeNoneOrOne, Sizes
<1>4. QED
  BY <1>1, <1>2, <1>3, Sizes

\* The count of bytes to go stays a value of its unsigned type.
LEMMA LessType ==
  ASSUME NEW togo \in 0 .. Word - 1, NEW n \in 0 .. XferSize
  PROVE  Less(togo, n) \in 0 .. Word - 1
BY LcdStreamAssumption DEF Less

Statics == [ongoing : BOOLEAN, sel : Buffers, pos : {0},
            nb : [Buffers -> {0}], toGo : 0 .. Word - 1]

Job == [busy : BOOLEAN, target : Buffers \cup {Lcd}, fill : 0 .. XferSize,
        ended : BOOLEAN]

LEMMA NoJobType == NoJob \in Job /\ ~NoJob.busy
BY Sizes DEF NoJob, Job

LEMMA ReceivedType ==
  ASSUME NEW s \in Statics, NEW c \in Contents, NEW n \in 0 .. XferSize
  PROVE  /\ Received(s, c, n) \in Statics
         /\ ~Received(s, c, n).ongoing
         /\ Received(s, c, n).sel = s.sel
<1> DEFINE togo == IF StartsBlt(s, c) THEN c.area % Word
                   ELSE IF s.toGo = 0 THEN 0 ELSE Less(s.toGo, n)
<1>0. c.area \in Areas
  BY DEF Contents
<1>a. c.area \in Nat
  BY <1>0, Sizes
<1>1. c.area \in Nat /\ Word \in Nat /\ 0 < Word
  BY <1>a, Sizes
<1>2. c.area % Word \in 0 .. Word - 1
  BY <1>1
<1>3. Less(s.toGo, n) \in 0 .. Word - 1
  BY LessType DEF Statics
<1>4. togo \in 0 .. Word - 1
  BY <1>1, <1>2, <1>3
<1>5. [s.nb EXCEPT ![NextBuffer(s.sel)] = 0] \in [Buffers -> {0}]
  BY DEF Statics, NextBuffer
<1>6. QED
  BY <1>4, <1>5 DEF Received, Statics

\* Arming the endpoint from statics that mark no transfer always succeeds, and
\* aims the transfer where the next callback will look.
LEMMA RxStartArms ==
  ASSUME NEW s \in Statics, ~s.ongoing
  PROVE  /\ RxStart(s) \in Statics
         /\ RxStart(s).ongoing
         /\ RxStart(s).toGo = s.toGo
         /\ RxJob(s, "on") \in Job
         /\ RxJob(s, "on").busy
         /\ RxJob(s, "on").fill = 0 /\ ~RxJob(s, "on").ended
         /\ RxJob(s, "on").target =
              IF s.toGo = 0 THEN NextBuffer(RxStart(s).sel) ELSE Lcd
<1>1. RxFree(s)
  BY DEF RxFree, Statics
<1>2. RxStart(s) = [ongoing |-> TRUE, sel |-> NextBuffer(s.sel), pos |-> 0,
                    nb |-> s.nb, toGo |-> s.toGo]
  BY <1>1 DEF RxStart, Statics
<1>3. NextBuffer(s.sel) \in Buffers /\ NextBuffer(NextBuffer(s.sel)) = s.sel
  BY DEF NextBuffer, Statics
<1>4. RxJob(s, "on") =
        [busy |-> TRUE, target |-> IF s.toGo = 0 THEN s.sel ELSE Lcd,
         fill |-> 0, ended |-> FALSE]
  BY <1>1 DEF RxJob, NoJob
<1>5. RxJob(s, "on") \in Job
  <2> DEFINE t == IF s.toGo = 0 THEN s.sel ELSE Lcd
  <2>1. t \in Buffers \cup {Lcd} /\ 0 \in 0 .. XferSize
    BY Sizes DEF Statics
  <2> HIDE DEF t
  <2>2. [busy |-> TRUE, target |-> t, fill |-> 0, ended |-> FALSE] \in Job
    BY <2>1 DEF Job
  <2>3. QED
    BY <1>4, <2>2 DEF t
<1>6. RxStart(s) \in Statics
  BY <1>2, <1>3 DEF Statics
<1>7. QED
  BY <1>2, <1>3, <1>4, <1>5, <1>6

-----------------------------------------------------------------------------
(* Type correctness                                                        *)

LEMMA PacketType ==
  ASSUME NEW c \in Contents, NEW n \in 0 .. PacketSize, owed \in Nat,
         open \in 0 .. XferSize
  PROVE  Packet(c, n) \in Packets
BY DEF Packet, Packets, Contents

LEMMA BlankType == Blank \in Contents /\ [Blank EXCEPT !.op = "pix"] \in Contents
BY LcdStreamAssumption DEF Blank, Contents

LEMMA OverwrittenType ==
  ASSUME NEW old \in Contents, NEW p \in Packets, NEW fill
  PROVE  Overwritten(old, p, fill) \subseteq Contents
<1>1. CASE p.n = 0 \/ fill > 0
  BY <1>1 DEF Overwritten
<1>2. CASE ~(p.n = 0 \/ fill > 0)
  <2>1. p.op \in Ops \cup {"pix"} /\ p.area \in Areas /\ p.magic \in BOOLEAN
        /\ old.area \in Areas
    BY DEF Packets, Contents
  <2>2. (IF p.n >= BltLen THEN {p.area}
         ELSE IF p.n <= AreaOff THEN {old.area} ELSE Areas) \subseteq Areas
    BY <2>1
  <2>3. QED
    BY <1>2, <2>1, <2>2 DEF Overwritten, Contents
<1>3. QED
  BY <1>1, <1>2

\* The facts about the armed transfer that hold of every host.
ArmedInv == TypeOK /\ ArmedAndOn /\ TargetIsWhatCallbackReads /\ FullPackets

LEMMA InitArmed == Init => ArmedInv
<1> SUFFICES ASSUME Init PROVE ArmedInv
  OBVIOUS
<1>1. Blank \in Contents
  BY BlankType
<1>2. 0 \in 0 .. Word - 1 /\ 0 \in Areas
  BY Sizes
<1>3. rx \in Statics
  BY <1>2 DEF Init, Statics
<1>4. rxBuf \in [Buffers -> Contents] /\ panel \in [size : Areas, drawn : Nat]
  BY <1>1, <1>2 DEF Init
<1>5. line \in Seq(Packets)
  BY EmptySeq DEF Init
<1>6. /\ TypeOK
      /\ job = NoJob /\ open = 0
  BY <1>3, <1>4, <1>5, NoJobType, Sizes DEF Init, TypeOK, Statics, Job
<1>7. FullPackets
  BY <1>6, WholeNoneOrOne, NoJobType, Sizes DEF FullPackets
<1>8. QED
  BY <1>6, <1>7, NoJobType DEF Init, ArmedInv, ArmedAndOn, TargetIsWhatCallbackReads

\* A packet the host sends joins the end of the line and disturbs nothing else.
LEMMA AcceptArmed ==
  ASSUME ArmedInv, NEW p \in Packets, Accept(p), owed' \in Nat
  PROVE  ArmedInv'
<1>1. line' \in Seq(Packets) /\ line' # <<>>
  BY AppendProperties DEF Accept, ArmedInv, TypeOK
<1>2. /\ open' \in 0 .. XferSize /\ Whole(open')
      /\ host = "framed" => open' < XferSize
  BY LeftOpenType, LcdStreamAssumption
     DEF Accept, ArmedInv, TypeOK, FullPackets, Packets
<1>3. TypeOK'
  BY <1>1, <1>2 DEF Accept, ArmedInv, TypeOK
<1>4. FullPackets'
  BY <1>2 DEF Accept, ArmedInv, FullPackets
<1>5. ArmedAndOn' /\ TargetIsWhatCallbackReads'
  BY DEF Accept, ArmedInv, ArmedAndOn, TargetIsWhatCallbackReads, NoJob
<1>6. QED
  BY <1>3, <1>4, <1>5 DEF ArmedInv

\* A transfer that goes on has room for another full packet.
LEMMA DmaMoveFill ==
  ASSUME ArmedInv, DmaMove
  PROVE  /\ Head(line) \in Packets /\ line' \in Seq(Packets)
         /\ job'.fill = job.fill + Head(line).n /\ job'.fill \in 0 .. XferSize
         /\ job'.ended = Ends(job.fill, Head(line).n)
         /\ job'.busy /\ job'.target = job.target /\ job' \in Job
         /\ ~job'.ended => Whole(job'.fill) /\ job'.fill < XferSize
<1> DEFINE p == Head(line)
<1>1. line # <<>> /\ line \in Seq(Packets) /\ line' = Tail(line)
  BY DEF DmaMove, ArmedInv, TypeOK
<1>2. p \in Packets /\ line' \in Seq(Packets)
  BY <1>1, HeadTailProperties
<1>3. p.n \in Nat /\ p.n <= PacketSize
  BY <1>2, Sizes DEF Packets
<1>4. /\ job \in Job /\ job.busy /\ ~job.ended
      /\ job.fill \in Nat /\ job.fill < XferSize /\ Whole(job.fill)
      /\ job' = [job EXCEPT !.fill = @ + p.n, !.ended = Ends(job.fill, p.n)]
  BY Sizes DEF DmaMove, ArmedInv, TypeOK, FullPackets, Job
<1> HIDE DEF p
<1>5. job.fill + PacketSize <= XferSize /\ Whole(job.fill + PacketSize)
  BY <1>4, FillFits
<1>6. /\ job'.fill = job.fill + p.n /\ job'.ended = Ends(job.fill, p.n)
      /\ job'.busy /\ job'.target = job.target
  BY <1>4 DEF Job
<1>7. job'.fill \in 0 .. XferSize
  BY <1>3, <1>4, <1>5, <1>6, Sizes
<1>8. job' \in Job
  BY <1>4, <1>6, <1>7 DEF Job, Ends
<1>9. ASSUME ~job'.ended PROVE Whole(job'.fill) /\ job'.fill < XferSize
  <2>1. ~Ends(job.fill, p.n)
    BY <1>6, <1>9
  <2>2. p.n = PacketSize /\ job.fill + p.n # XferSize
    BY <1>3, <2>1, Sizes DEF Ends
  <2>3. QED
    BY <1>4, <1>5, <1>6, <1>7, <2>2, Sizes
<1>10. QED
  BY <1>2, <1>6, <1>7, <1>8, <1>9 DEF p

LEMMA DmaMoveArmed ==
  ASSUME ArmedInv, DmaMove
  PROVE  ArmedInv'
<1>1. Head(line) \in Packets
  BY DmaMoveFill
<1>2. Head(line).n \in Nat
  BY <1>1, Sizes DEF Packets
<1>3. panel' \in [size : Areas, drawn : Nat]
  <2>1. panel \in [size : Areas, drawn : Nat]
    BY DEF ArmedInv, TypeOK
  <2>2. panel' = panel \/ panel' = [panel EXCEPT !.drawn = @ + Head(line).n]
    BY DEF DmaMove
  <2>3. QED
    BY <1>2, <2>1, <2>2
<1>4. rxBuf' \in [Buffers -> Contents]
  <2>1. CASE job.target = Lcd
    BY <2>1 DEF DmaMove, ArmedInv, TypeOK
  <2>2. CASE job.target # Lcd
    <3>1. job.target \in Buffers
      BY <2>2 DEF ArmedInv, TypeOK
    <3>2. PICK c \in Overwritten(rxBuf[job.target], Head(line), job.fill) :
            rxBuf' = [rxBuf EXCEPT ![job.target] = c]
      BY <2>2 DEF DmaMove
    <3>3. c \in Contents
      BY <1>1, <3>1, <3>2, OverwrittenType DEF ArmedInv, TypeOK
    <3>4. QED
      BY <3>1, <3>2, <3>3 DEF ArmedInv, TypeOK
  <2>3. QED
    BY <2>1, <2>2
<1>5. UNCHANGED <<rx, ep, owed, open, host, cpu>> /\ job.busy
  BY DEF DmaMove
<1>6. TypeOK'
  BY <1>3, <1>4, <1>5, DmaMoveFill DEF ArmedInv, TypeOK, Job
<1>7. FullPackets'
  BY <1>5, DmaMoveFill DEF ArmedInv, FullPackets
<1>8. ArmedAndOn' /\ TargetIsWhatCallbackReads'
  BY <1>5, DmaMoveFill DEF ArmedInv, ArmedAndOn, TargetIsWhatCallbackReads
<1>9. QED
  BY <1>6, <1>7, <1>8 DEF ArmedInv

\* The callback either leaves for the bootloader or re-arms the endpoint.
LEMMA DataReceivedArmed ==
  ASSUME ArmedInv, DataReceived
  PROVE  /\ ArmedInv'
         /\ cpu' = "run" => job'.busy /\ job'.fill = 0 /\ ~job'.ended
<1> DEFINE n == job.fill
           c == rxBuf[NextBuffer(rx.sel)]
           s == Received(rx, c, n)
<1>1. /\ rx \in Statics /\ job \in Job
      /\ ep = "on" /\ job.busy
      /\ NextBuffer(rx.sel) \in Buffers
  BY DEF DataReceived, ArmedInv, ArmedAndOn, TypeOK, Statics, Job, NextBuffer
<1>2. n \in 0 .. XferSize /\ c \in Contents /\ c.area \in Areas
  BY <1>1 DEF Contents, ArmedInv, TypeOK, Job
<1>3. s \in Statics /\ ~s.ongoing
  BY <1>1, <1>2, ReceivedType
<1>4. panel' \in [size : Areas, drawn : Nat]
  BY <1>2 DEF DataReceived, ArmedInv, TypeOK
<1>5. ep' = "on" /\ UNCHANGED <<rxBuf, line, owed, open, host>>
  BY <1>1 DEF DataReceived
<1>6. CASE StartsBoot(rx, c, n)
  <2>1. cpu' = "boot" /\ rx' = rx /\ job' = NoJob
    BY <1>6 DEF DataReceived
  <2>2. TypeOK'
    BY <1>1, <1>4, <1>5, <2>1, NoJobType DEF ArmedInv, TypeOK, Statics, Job
  <2>3. FullPackets'
    BY <1>5, <2>1, NoJobType DEF ArmedInv, FullPackets
  <2>4. QED
    BY <1>5, <2>1, <2>2, <2>3, NoJobType
       DEF ArmedInv, ArmedAndOn, TargetIsWhatCallbackReads
<1>7. CASE ~StartsBoot(rx, c, n)
  <2>1. cpu' = cpu /\ rx' = RxStart(s) /\ job' = RxJob(s, "on")
    BY <1>1, <1>7 DEF DataReceived
  <2> HIDE DEF s
  <2>2. /\ rx' \in Statics /\ rx'.ongoing
        /\ job' \in Job /\ job'.busy /\ job'.fill = 0 /\ ~job'.ended
        /\ job'.target = IF rx'.toGo = 0 THEN NextBuffer(rx'.sel) ELSE Lcd
    BY <1>3, <2>1, RxStartArms
  <2>3. TypeOK'
    BY <1>4, <1>5, <2>1, <2>2 DEF ArmedInv, TypeOK, Statics, Job
  <2>4. FullPackets'
    BY <1>5, <2>2, WholeNoneOrOne, Sizes DEF ArmedInv, FullPackets
  <2>5. QED
    BY <1>5, <2>2, <2>3, <2>4
       DEF ArmedInv, ArmedAndOn, TargetIsWhatCallbackReads
<1>8. QED
  BY <1>6, <1>7

LEMMA EnableArmed ==
  ASSUME ArmedInv, Enable
  PROVE  ArmedInv' /\ job'.busy /\ job'.fill = 0 /\ ~job'.ended
<1> DEFINE s == [ongoing |-> FALSE, sel |-> 0, pos |-> 0,
                 nb |-> [rx.nb EXCEPT ![0] = 0], toGo |-> 0]
<1>1. s \in Statics /\ ~s.ongoing
  <2>1. rx \in Statics
    BY DEF ArmedInv, TypeOK, Statics
  <2>2. [rx.nb EXCEPT ![0] = 0] \in [Buffers -> {0}]
    BY <2>1 DEF Statics
  <2>3. 0 \in 0 .. Word - 1
    BY Sizes
  <2>4. QED
    BY <2>2, <2>3 DEF Statics
<1>2. rx' = RxStart(s) /\ job' = RxJob(s, "on")
  BY DEF Enable
<1> HIDE DEF s
<1>3. /\ rx' \in Statics /\ rx'.ongoing
      /\ job' \in Job /\ job'.busy /\ job'.fill = 0 /\ ~job'.ended
      /\ job'.target = IF rx'.toGo = 0 THEN NextBuffer(rx'.sel) ELSE Lcd
  BY <1>1, <1>2, RxStartArms
<1>4. TypeOK'
  BY <1>3, EmptySeq, Sizes DEF Enable, ArmedInv, TypeOK, Statics, Job
<1>5. FullPackets'
  BY <1>3, WholeNoneOrOne, Sizes DEF Enable, ArmedInv, FullPackets
<1>6. QED
  BY <1>3, <1>4, <1>5
     DEF Enable, ArmedInv, ArmedAndOn, TargetIsWhatCallbackReads

LEMMA ControlArmed ==
  ASSUME ArmedInv, Disable \/ SetHalt \/ ClearHalt
  PROVE  ArmedInv' /\ (ep' # "on" \/ cpu' # "run" \/ job'.busy = job.busy)
<1>1. CASE Disable
  <2>1. job' = NoJob /\ open' = 0 /\ ep' = "off" /\ UNCHANGED <<rx, host>>
    BY <1>1 DEF Disable
  <2>2. TypeOK'
    BY <1>1, <2>1, EmptySeq, NoJobType, Sizes DEF Disable, ArmedInv, TypeOK, Job
  <2>3. FullPackets'
    BY <2>1, NoJobType, WholeNoneOrOne, Sizes DEF FullPackets
  <2>4. QED
    BY <2>1, <2>2, <2>3, NoJobType
       DEF ArmedInv, ArmedAndOn, TargetIsWhatCallbackReads
<1>2. CASE SetHalt
  <2>1. CASE ep' = "halted"
    <3>1. /\ job' = NoJob /\ line' = <<>>
          /\ UNCHANGED <<rx, rxBuf, owed, open, panel, host, cpu>>
      BY <1>2, <2>1 DEF SetHalt, ArmedInv, TypeOK
    <3>2. TypeOK'
      BY <2>1, <3>1, EmptySeq, NoJobType DEF ArmedInv, TypeOK, Job
    <3>3. FullPackets'
      BY <3>1, NoJobType DEF ArmedInv, FullPackets
    <3>4. QED
      BY <2>1, <3>1, <3>2, <3>3, NoJobType
         DEF ArmedInv, ArmedAndOn, TargetIsWhatCallbackReads
  <2>2. CASE ep' # "halted"
    BY <1>2, <2>2
       DEF SetHalt, ArmedInv, TypeOK, ArmedAndOn, TargetIsWhatCallbackReads,
           FullPackets, NoJob
  <2>3. QED
    BY <2>1, <2>2
<1>3. CASE ClearHalt
  BY <1>3
     DEF ClearHalt, ArmedInv, TypeOK, ArmedAndOn, TargetIsWhatCallbackReads,
         FullPackets, NoJob
<1>4. QED
  BY <1>1, <1>2, <1>3

\* What the host sends is a packet, and its debt a number.
LEMMA HostSends ==
  ASSUME ArmedInv, Host
  PROVE  owed' \in Nat /\ \E p \in Packets : Accept(p)
<1>0. owed \in Nat /\ open \in 0 .. XferSize
  BY DEF ArmedInv, TypeOK
<1>1. CASE \E c \in Commands, n \in 0 .. PacketSize : HostCommand(c, n)
  <2> PICK c \in Commands, n \in 0 .. PacketSize : HostCommand(c, n)
    BY <1>1
  <2>1. c \in Contents /\ c.area \in Areas
    BY DEF Commands, Contents
  <2>2. Packet(c, n) \in Packets
    BY <1>0, <2>1, PacketType
  <2>3. c.area \in Nat
    BY <2>1, LcdStreamAssumption
  <2>4. QED
    BY <1>0, <2>2, <2>3 DEF HostCommand
<1>2. CASE \E n \in 0 .. PacketSize : HostPixels(n)
  <2> PICK n \in 0 .. PacketSize : HostPixels(n)
    BY <1>2
  <2>1. QED
    BY <1>0, BlankType, PacketType DEF HostPixels
<1>3. CASE HostZlp
  BY <1>0, <1>3, BlankType, PacketType, LcdStreamAssumption DEF HostZlp
<1>4. QED
  BY <1>1, <1>2, <1>3 DEF Host

LEMMA NextArmed == ArmedInv /\ [Next]_vars => ArmedInv'
<1> SUFFICES ASSUME ArmedInv, [Next]_vars PROVE ArmedInv'
  OBVIOUS
<1>1. CASE Host
  BY <1>1, HostSends, AcceptArmed
<1>2. CASE DmaMove
  BY <1>2, DmaMoveArmed
<1>3. CASE DataReceived
  BY <1>3, DataReceivedArmed
<1>4. CASE Enable
  BY <1>4, EnableArmed
<1>5. CASE Disable \/ SetHalt \/ ClearHalt
  BY <1>5, ControlArmed
<1>6. CASE UNCHANGED vars
  BY <1>6 DEF vars, ArmedInv, TypeOK, ArmedAndOn, TargetIsWhatCallbackReads,
              FullPackets, NoJob
<1>7. QED
  BY <1>1, <1>2, <1>3, <1>4, <1>5, <1>6 DEF Next

\* Whatever the host sends, and wherever control requests and resets fall, the
\* variables keep their types.
THEOREM TypeCorrect == Spec => []TypeOK
<1>1. ArmedInv => TypeOK
  BY DEF ArmedInv
<1>2. QED
  BY <1>1, InitArmed, NextArmed, PTL DEF Spec

\* ... and the transfer in progress goes where its callback will look for it.
THEOREM TargetCorrect == Spec => []TargetIsWhatCallbackReads
<1>1. ArmedInv => TargetIsWhatCallbackReads
  BY DEF ArmedInv
<1>2. QED
  BY <1>1, InitArmed, NextArmed, PTL DEF Spec

\* The endpoint is re-armed by every callback that returns (udi_vendor.c:252-254).
THEOREM ArmedStaysArmed == Spec => StaysArmed
<1> DEFINE A == job.busy /\ ep' = "on" /\ cpu' = "run" => job'.busy
<1>1. ArmedInv /\ [Next]_vars => [A]_vars
  <2> SUFFICES ASSUME ArmedInv, [Next]_vars PROVE [A]_vars
    OBVIOUS
  <2>1. CASE Host
    BY <2>1, HostSends DEF Accept
  <2>2. CASE DmaMove
    BY <2>2 DEF DmaMove
  <2>3. CASE DataReceived
    BY <2>3, DataReceivedArmed
  <2>4. CASE Enable
    BY <2>4, EnableArmed
  <2>5. CASE Disable \/ SetHalt \/ ClearHalt
    BY <2>5, ControlArmed
  <2>6. CASE UNCHANGED vars
    BY <2>6
  <2>7. QED
    BY <2>1, <2>2, <2>3, <2>4, <2>5, <2>6 DEF Next
<1>2. QED
  BY <1>1, InitArmed, NextArmed, PTL DEF Spec, StaysArmed

-----------------------------------------------------------------------------
(* A host that frames its stream                                           *)

StepInv == Chain /\ ReadsWhatWasSent /\ StepsAgree /\ PixelsFit

\* A command comes when no pixels are owed, pixels when some are.
LEMMA PacketFacts ==
  ASSUME NEW p \in Packets, PacketOK(p)
  PROVE  /\ p.n \in Nat /\ p.n <= PacketSize /\ p.before \in Nat
         /\ p.at \in 0 .. XferSize /\ p.area \in Areas /\ p.area \in Nat
         /\ After(p) \in Nat
         /\ p.n > 0 => (p.op = "pix") = (p.before > 0)
         /\ p.n > 0 /\ p.op # "pix" =>
              /\ p.before = 0 /\ p.at = 0 /\ Ends(0, p.n)
              /\ p.n >= ProperLen(p.op) /\ p.area < Word
         /\ p.n = 0 => p.op # "pix" /\ p.at > 0 /\ After(p) = p.before
         /\ p.op = "pix" => p.n <= p.before /\ After(p) = p.before - p.n
<1>1. /\ p.n \in 0 .. PacketSize /\ p.before \in Nat /\ p.at \in 0 .. XferSize
      /\ p.area \in Areas
  BY DEF Packets
<1>2. p.area \in Nat
  BY <1>1, Sizes
<1>3. CASE p.op = "pix"
  BY <1>1, <1>2, <1>3, Sizes DEF PacketOK, After
<1>4. CASE p.op # "pix" /\ p.n = 0
  BY <1>1, <1>2, <1>4, Sizes DEF PacketOK, After
<1>5. CASE p.op # "pix" /\ p.n # 0
  BY <1>1, <1>2, <1>5, Sizes DEF PacketOK, After
<1>6. QED
  BY <1>3, <1>4, <1>5

\* A framed host always sends the packet its own counts of bytes call for.
Follows(p) == /\ PacketOK(p) /\ p.before = owed /\ p.at = open
              /\ owed' = After(p) /\ open' = AfterAt(p)

LEMMA HostFramed ==
  ASSUME ArmedInv, Host, host = "framed"
  PROVE  \E p \in Packets : Accept(p) /\ Follows(p)
<1>0. owed \in Nat /\ open \in 0 .. XferSize
  BY DEF ArmedInv, TypeOK
<1>a. ASSUME NEW p \in Packets, Accept(p), p.at = open
      PROVE  open' = AfterAt(p)
  <2>1. p.n \in 0 .. PacketSize /\ open' = LeftOpen(open, p.n)
    BY <1>a DEF Accept, Packets
  <2>2. LeftOpen(open, p.n) = IF Ends(open, p.n) THEN 0 ELSE open + p.n
    BY <2>1, Sizes DEF LeftOpen, Ends
  <2>3. QED
    BY <1>a, <2>1, <2>2 DEF AfterAt
<1>1. CASE \E c \in Commands, n \in 0 .. PacketSize : HostCommand(c, n)
  <2> PICK c \in Commands, n \in 0 .. PacketSize : HostCommand(c, n)
    BY <1>1
  <2> DEFINE p == Packet(c, n)
  <2>1. c \in Contents /\ c.op # "pix" /\ c.area \in Nat
    BY Sizes DEF Commands, Contents
  <2>2. p \in Packets
    BY <1>0, <2>1, PacketType
  <2>3. /\ owed = 0 /\ n >= ProperLen(c.op) /\ c.area < Word /\ 0 < n
        /\ open = 0 /\ LeftOpen(0, n) = 0 /\ Accept(p)
    BY DEF HostCommand
  <2>4. /\ p.op = c.op /\ p.area = c.area /\ p.n = n
        /\ p.before = owed /\ p.at = open
    BY DEF Packet
  <2>5. owed' = IF c.op # "blt" THEN owed ELSE c.area
    BY DEF HostCommand
  <2> HIDE DEF p
  <2>6. Ends(0, n)
    BY <2>3, Sizes DEF LeftOpen, Ends
  <2>7. PacketOK(p)
    BY <2>1, <2>3, <2>4, <2>6, Sizes DEF PacketOK
  <2>8. owed' = After(p)
    BY <2>1, <2>3, <2>4, <2>5, Sizes DEF After
  <2>9. QED
    BY <1>a, <2>2, <2>3, <2>4, <2>7, <2>8 DEF Follows
<1>2. CASE \E n \in 0 .. PacketSize : HostPixels(n)
  <2> PICK n \in 0 .. PacketSize : HostPixels(n)
    BY <1>2
  <2> DEFINE p == Packet([Blank EXCEPT !.op = "pix"], n)
  <2>1. p \in Packets
    BY <1>0, BlankType, PacketType
  <2>2. p.op = "pix" /\ p.n = n /\ p.before = owed /\ p.at = open
    BY DEF Packet, Blank
  <2>3. Accept(p) /\ 0 < n /\ n <= owed /\ owed' = owed - n
    BY DEF HostPixels
  <2> HIDE DEF p
  <2>4. PacketOK(p) /\ owed' = After(p)
    BY <2>2, <2>3 DEF PacketOK, After
  <2>5. QED
    BY <1>a, <2>1, <2>2, <2>3, <2>4 DEF Follows
<1>3. CASE HostZlp
  <2> DEFINE p == Packet(Blank, 0)
  <2>1. p \in Packets
    BY <1>0, BlankType, PacketType, Sizes
  <2>2. p.op = "other" /\ p.n = 0 /\ p.before = owed /\ p.at = open
    BY DEF Packet, Blank
  <2>3. Accept(p) /\ open > 0 /\ owed' = owed
    BY <1>3 DEF HostZlp
  <2> HIDE DEF p
  <2>4. PacketOK(p) /\ owed' = After(p)
    BY <2>2, <2>3 DEF PacketOK, After
  <2>5. QED
    BY <1>a, <2>1, <2>2, <2>3, <2>4 DEF Follows
<1>4. QED
  BY <1>1, <1>2, <1>3 DEF Host

LEMMA AcceptInStep ==
  ASSUME ArmedInv, StepInv, NEW p \in Packets, Accept(p), Follows(p)
  PROVE  StepInv'
<1> DEFINE L == Len(line)
<1>0. /\ PacketOK(p) /\ p.before = owed /\ p.at = open
      /\ owed' = After(p) /\ open' = AfterAt(p)
      /\ UNCHANGED <<rx, rxBuf, ep, job, panel>>
  BY DEF Follows, Accept
<1>1. /\ line' \in Seq(Packets) /\ Len(line') = L + 1 /\ L \in Nat
      /\ \A i \in 1 .. L : line'[i] = line[i]
      /\ line'[L + 1] = p
  BY AppendProperties, LenProperties DEF Accept, ArmedInv, TypeOK
<1>2. /\ line # <<>> => L > 0 /\ Head(line') = Head(line)
      /\ line = <<>> => L = 0 /\ Head(line') = p
      /\ line' # <<>>
  BY <1>1, EmptySeq DEF ArmedInv, TypeOK
<1>3. Chain'
  <2>1. \A i \in 1 .. Len(line') : PacketOK(line'[i])
    BY <1>0, <1>1 DEF StepInv, Chain
  <2>2. \A i \in 1 .. Len(line') - 1 : /\ line'[i + 1].before = After(line'[i])
                                       /\ line'[i + 1].at = AfterAt(line'[i])
    <3> SUFFICES ASSUME NEW i \in 1 .. L
                 PROVE  /\ line'[i + 1].before = After(line'[i])
                        /\ line'[i + 1].at = AfterAt(line'[i])
      BY <1>1
    <3>1. CASE i = L
      BY <1>0, <1>1, <1>2, <3>1 DEF StepInv, Chain
    <3>2. CASE i < L
      BY <1>1, <3>2 DEF StepInv, Chain
    <3>3. QED
      BY <1>1, <3>1, <3>2
  <2>3. owed' = After(line'[Len(line')]) /\ open' = AfterAt(line'[Len(line')])
    BY <1>0, <1>1
  <2>4. QED
    BY <2>1, <2>2, <2>3
       DEF Chain, PacketOK, After, AfterAt, Ends, ProperLen
<1>4. Due' = Due /\ DueAt' = DueAt
  BY <1>0, <1>2 DEF Due, DueAt
<1>5. ReadsWhatWasSent'
  BY <1>0, <1>4 DEF StepInv, ReadsWhatWasSent, ProperLen
<1>6. ASSUME job.busy, ~job.ended, Head(line').n > 0
      PROVE  (Head(line').op = "pix") = (rx.toGo > 0)
  <2>1. CASE line = <<>>
    <3>1. /\ DueAt = open /\ Due = owed /\ Head(line') = p
      BY <1>2, <2>1 DEF Due, DueAt
    <3>2. /\ job.fill = p.at /\ job.fill \in Nat /\ rx.toGo \in Nat
          /\ rx.toGo > 0 => rx.toGo = job.fill + p.before
          /\ rx.toGo = 0 => p.before = 0
      BY <1>0, <1>6, <3>1, Sizes DEF StepInv, StepsAgree, ArmedInv, TypeOK
    <3>3. QED
      BY <1>0, <1>6, <3>1, <3>2, PacketFacts
  <2>2. CASE line # <<>>
    BY <1>2, <1>6, <2>2 DEF StepInv, StepsAgree
  <2>3. QED
    BY <2>1, <2>2
<1>7. StepsAgree'
  BY <1>0, <1>4, <1>6 DEF StepInv, StepsAgree
<1>8. PixelsFit'
  BY <1>0 DEF StepInv, PixelsFit
<1>9. QED
  BY <1>3, <1>5, <1>7, <1>8 DEF StepInv

\* The packet at the head of the line and what it leaves to come.
LEMMA HeadInStep ==
  ASSUME ArmedInv, StepInv, line # <<>>
  PROVE  /\ Head(line) \in Packets /\ PacketOK(Head(line))
         /\ Tail(line) \in Seq(Packets)
         /\ \A i \in 1 .. Len(Tail(line)) : PacketOK(Tail(line)[i])
         /\ \A i \in 1 .. Len(Tail(line)) - 1 :
              /\ Tail(line)[i + 1].before = After(Tail(line)[i])
              /\ Tail(line)[i + 1].at = AfterAt(Tail(line)[i])
         /\ Tail(line) # <<>> =>
              /\ owed = After(Tail(line)[Len(Tail(line))])
              /\ open = AfterAt(Tail(line)[Len(Tail(line))])
              /\ Head(Tail(line)) \in Packets /\ PacketOK(Head(Tail(line)))
         /\ After(Head(line)) =
              IF Tail(line) = <<>> THEN owed ELSE Head(Tail(line)).before
         /\ AfterAt(Head(line)) =
              IF Tail(line) = <<>> THEN open ELSE Head(Tail(line)).at
<1> DEFINE L == Len(line)
           T == Tail(line)
<1>1. line \in Seq(Packets) /\ L \in Nat /\ L > 0 /\ Head(line) = line[1]
  BY EmptySeq, LenProperties DEF ArmedInv, TypeOK
<1>2. /\ T \in Seq(Packets) /\ Len(T) = L - 1
      /\ \A i \in 1 .. Len(T) : T[i] = line[i + 1]
  BY <1>1, HeadTailProperties
<1>3. \A i \in 1 .. L : line[i] \in Packets /\ PacketOK(line[i])
  BY <1>1, ElementOfSeq DEF StepInv, Chain
<1>4. \A i \in 1 .. L - 1 : /\ line[i + 1].before = After(line[i])
                            /\ line[i + 1].at = AfterAt(line[i])
  BY DEF StepInv, Chain
<1> HIDE DEF T
<1>5. T # <<>> <=> L > 1
  BY <1>1, <1>2, EmptySeq
<1>6. T # <<>> => Head(T) = line[2]
  BY <1>1, <1>2, <1>5
<1>7. owed = After(line[L]) /\ open = AfterAt(line[L])
  BY DEF StepInv, Chain
<1>8. Head(line) \in Packets /\ PacketOK(Head(line))
  BY <1>1, <1>3
<1>9. \A i \in 1 .. Len(T) : PacketOK(T[i])
  BY <1>1, <1>2, <1>3
<1>10. \A i \in 1 .. Len(T) - 1 : /\ T[i + 1].before = After(T[i])
                                  /\ T[i + 1].at = AfterAt(T[i])
  <2> SUFFICES ASSUME NEW i \in 1 .. L - 2
               PROVE  /\ T[i + 1].before = After(T[i])
                      /\ T[i + 1].at = AfterAt(T[i])
    BY <1>1, <1>2
  <2>1. T[i] = line[i + 1] /\ T[i + 1] = line[(i + 1) + 1]
    BY <1>1, <1>2
  <2>2. i + 1 \in 1 .. L - 1
    BY <1>1
  <2>3. QED
    BY <1>4, <2>1, <2>2
<1>11. T # <<>> => /\ owed = After(T[Len(T)]) /\ open = AfterAt(T[Len(T)])
                   /\ Head(T) \in Packets /\ PacketOK(Head(T))
  BY <1>1, <1>2, <1>3, <1>5, <1>6, <1>7
<1>12. /\ After(Head(line)) = IF T = <<>> THEN owed ELSE Head(T).before
       /\ AfterAt(Head(line)) = IF T = <<>> THEN open ELSE Head(T).at
  BY <1>1, <1>4, <1>5, <1>6, <1>7
<1>13. QED
  BY <1>2, <1>8, <1>9, <1>10, <1>11, <1>12 DEF T

\* The DMA takes the packet its transfer is for, and a transfer ends for the DMA
\* where it does for the host.
LEMMA DmaMoveInStep ==
  ASSUME ArmedInv, StepInv, DmaMove
  PROVE  StepInv'
<1> DEFINE p == Head(line)
           T == Tail(line)
<1>1. /\ line # <<>> /\ line' = T /\ job.busy /\ ~job.ended
      /\ job'.fill = job.fill + p.n /\ job'.ended = Ends(job.fill, p.n)
      /\ job'.busy /\ job'.target = job.target
      /\ UNCHANGED <<rx, ep, owed, open>>
  BY DmaMoveFill DEF DmaMove
<1>2. /\ p \in Packets /\ PacketOK(p)
      /\ T # <<>> => Head(T) \in Packets /\ PacketOK(Head(T))
      /\ Due' = After(p) /\ DueAt' = AfterAt(p)
  BY <1>1, HeadInStep DEF Due, DueAt
<1>3. /\ job.fill \in Nat /\ job.fill = p.at /\ Due = p.before
      /\ rx.toGo \in Nat
      /\ rx.toGo > 0 => rx.toGo = job.fill + p.before
      /\ rx.toGo = 0 => job.fill = 0 /\ p.before = 0
      /\ p.n > 0 => (p.op = "pix") = (rx.toGo > 0)
  BY <1>1, Sizes DEF StepInv, StepsAgree, Due, DueAt, ArmedInv, TypeOK
<1>4. Chain'
  BY <1>1, HeadInStep DEF Chain, PacketOK, After, AfterAt, Ends, ProperLen
<1> HIDE DEF p, T
<1>5. /\ p.n \in Nat /\ p.before \in Nat /\ p.at \in Nat
      /\ p.n > 0 /\ p.op # "pix" => p.at = 0 /\ Ends(0, p.n)
                                    /\ p.n >= ProperLen(p.op) /\ p.area < Word
      /\ p.n = 0 => p.op # "pix" /\ p.at > 0 /\ After(p) = p.before
      /\ p.op = "pix" => p.n <= p.before /\ After(p) = p.before - p.n
  BY <1>2, PacketFacts, Sizes
\* No empty packet opens a transfer, and none but pixels goes on.
<1>6. /\ rx.toGo = 0 => p.n > 0 /\ p.op # "pix" /\ job'.ended
      /\ rx.toGo > 0 => p.op = "pix" \/ p.n = 0
      /\ rx.toGo > 0 => After(p) = p.before - p.n
  BY <1>1, <1>3, <1>5
<1>7. ~job'.ended => rx.toGo > 0 /\ p.n > 0
  <2>1. p.n = 0 => Ends(job.fill, p.n)
    BY Sizes DEF Ends
  <2>2. QED
    BY <1>1, <1>3, <1>5, <1>6, <2>1
<1>8. DueAt' = IF job'.ended THEN 0 ELSE job'.fill
  BY <1>1, <1>2, <1>3 DEF AfterAt
<1>9. rx.toGo > 0 => rx.toGo = job'.fill + After(p) /\ job'.fill <= rx.toGo
  BY <1>1, <1>3, <1>5, <1>6
<1>10. ASSUME ~job'.ended, T # <<>>, Head(T).n > 0
       PROVE  Head(T).op = "pix"
  <2>1. Head(T).at > 0
    BY <1>1, <1>2, <1>3, <1>5, <1>7, <1>8, <1>10 DEF DueAt
  <2>2. QED
    BY <1>2, <1>10, <2>1, PacketFacts
<1>11. StepsAgree'
  BY <1>1, <1>2, <1>7, <1>8, <1>9, <1>10 DEF StepsAgree
<1>12. CASE job.target = Lcd
  <2>1. rx.toGo > 0
    BY <1>1, <1>3, <1>12 DEF ArmedInv, TargetIsWhatCallbackReads, NextBuffer
  <2>2. /\ panel \in [size : Areas, drawn : Nat]
        /\ panel.size = panel.drawn + rx.toGo - job.fill
        /\ panel' = [panel EXCEPT !.drawn = @ + p.n]
    BY <1>1, <1>12, <2>1 DEF StepInv, PixelsFit, DmaMove, ArmedInv, TypeOK, p
  <2>3. panel.size \in Nat /\ panel.drawn \in Nat
    BY <2>2, Sizes
  <2>4. panel'.size = panel.size /\ panel'.drawn = panel.drawn + p.n
    BY <2>2
  <2>5. /\ panel'.size = panel'.drawn + rx.toGo - job'.fill
        /\ panel'.drawn <= panel'.size
    BY <1>1, <1>3, <1>5, <1>9, <2>1, <2>2, <2>3, <2>4
  <2>6. PixelsFit'
    BY <1>1, <2>5 DEF PixelsFit
  <2>7. ReadsWhatWasSent'
    BY <1>1, <1>12 DEF ReadsWhatWasSent
  <2>8. QED
    BY <1>4, <1>11, <2>6, <2>7 DEF StepInv
<1>13. CASE job.target # Lcd
  <2>1. job.target \in Buffers /\ rx.toGo = 0
    BY <1>1, <1>3, <1>13 DEF ArmedInv, TypeOK, TargetIsWhatCallbackReads
  <2>2. PICK c \in Overwritten(rxBuf[job.target], p, job.fill) :
          rxBuf' = [rxBuf EXCEPT ![job.target] = c]
    BY <1>13 DEF DmaMove, p
  <2>3. rxBuf'[job.target] = c
    BY <2>1, <2>2 DEF ArmedInv, TypeOK
  <2>4. job.fill = 0 /\ p.n > 0 /\ p.op # "pix" /\ p.n >= ProperLen(p.op)
        /\ p.area < Word /\ job'.fill = p.n
    BY <1>1, <1>3, <1>5, <1>6, <2>1
  <2>5. c.op = p.op /\ (p.op = "blt" => c.area = p.area)
    BY <2>2, <2>4, LcdStreamAssumption DEF Overwritten, ProperLen
  <2>6. After(p) = IF p.op = "blt" THEN p.area ELSE 0
    BY <2>4 DEF After
  <2>7. ReadsWhatWasSent'
    BY <1>1, <1>2, <2>3, <2>4, <2>5, <2>6 DEF ReadsWhatWasSent, ProperLen
  <2>8. PixelsFit'
    BY <1>1, <1>13, <2>1 DEF StepInv, PixelsFit, DmaMove
  <2>9. QED
    BY <1>4, <1>11, <2>7, <2>8 DEF StepInv
<1>14. QED
  BY <1>12, <1>13

\* The callback counts a transfer as the host did, and reads the command it sent.
LEMMA DataReceivedInStep ==
  ASSUME ArmedInv, StepInv, DataReceived
  PROVE  StepInv'
<1> DEFINE n == job.fill
           c == rxBuf[NextBuffer(rx.sel)]
           s == Received(rx, c, n)
<1>1. /\ rx \in Statics /\ job.busy /\ job.ended /\ ep = "on"
      /\ NextBuffer(rx.sel) \in Buffers /\ n \in Nat /\ rx.toGo \in Nat
      /\ job.target = IF rx.toGo = 0 THEN NextBuffer(rx.sel) ELSE Lcd
  BY Sizes DEF DataReceived, ArmedInv, ArmedAndOn, TypeOK, Statics, NextBuffer,
               TargetIsWhatCallbackReads
<1>2. /\ UNCHANGED <<rxBuf, ep, line, owed, open>>
      /\ panel' = IF StartsBlt(rx, c) THEN [size |-> c.area, drawn |-> 0] ELSE panel
  BY DEF DataReceived
<1>3. Due' = Due /\ DueAt' = DueAt /\ Due \in Nat /\ DueAt = 0
  <2>1. line # <<>> => Head(line).before \in Nat
    BY HeadInStep, PacketFacts
  <2>2. QED
    BY <1>1, <1>2, <2>1 DEF Due, DueAt, StepInv, StepsAgree, ArmedInv, TypeOK
<1>4. rx.toGo > 0 => rx.toGo = n + Due
  BY <1>1 DEF StepInv, StepsAgree
<1>5. rx.toGo = 0 => /\ Due = IF c.op = "blt" THEN c.area ELSE 0
                     /\ c.op = "blt" => c.area < Word
  BY <1>1 DEF StepInv, ReadsWhatWasSent
<1>6. s.toGo = Due
  <2>1. CASE rx.toGo > 0
    BY <1>1, <1>3, <1>4, <2>1 DEF Received, StartsBlt, Less
  <2>2. CASE StartsBlt(rx, c)
    <3>1. rx.toGo = 0 /\ c.area = Due /\ c.area < Word
      BY <1>5, <2>2 DEF StartsBlt
    <3>2. c.area % Word = c.area
      BY <1>3, <3>1, Sizes
    <3>3. QED
      BY <2>2, <3>1, <3>2 DEF Received
  <2>3. CASE rx.toGo = 0 /\ ~StartsBlt(rx, c)
    BY <1>5, <2>3 DEF Received, StartsBlt
  <2>4. QED
    BY <1>1, <2>1, <2>2, <2>3
<1> HIDE DEF n, s
<1>7. Chain'
  BY <1>2 DEF StepInv, Chain, PacketOK, After, AfterAt, Ends, ProperLen
<1>8. job'.busy => rx'.toGo = Due /\ job'.fill = 0 /\ ~job'.ended
  <2>1. CASE StartsBoot(rx, c, n)
    BY <2>1, NoJobType DEF DataReceived, n
  <2>2. CASE ~StartsBoot(rx, c, n)
    <3>1. rx' = RxStart(s) /\ job' = RxJob(s, ep)
      BY <2>2 DEF DataReceived, n, s
    <3>2. rx'.toGo = Due
      BY <1>6, <3>1 DEF RxStart, Received, s
    <3>3. job'.fill = 0 /\ ~job'.ended
      BY <3>1 DEF RxJob, NoJob
    <3>4. QED
      BY <3>2, <3>3
  <2>3. QED
    BY <2>1, <2>2
<1>9. ReadsWhatWasSent'
  BY <1>8 DEF ReadsWhatWasSent
<1>10. ASSUME line # <<>>, Head(line).n > 0
       PROVE  (Head(line).op = "pix") = (Due > 0)
  BY <1>10, HeadInStep, PacketFacts DEF Due
<1>11. StepsAgree'
  BY <1>2, <1>3, <1>8, <1>10 DEF StepsAgree
<1>12. /\ panel'.size \in Nat /\ panel'.drawn \in Nat
       /\ panel'.drawn <= panel'.size
  <2>1. panel' \in [size : Areas, drawn : Nat]
    BY DataReceivedArmed DEF ArmedInv, TypeOK
  <2>2. panel'.size \in Nat /\ panel'.drawn \in Nat
    BY <2>1, Sizes
  <2>3. QED
    BY <1>2, <2>2 DEF StepInv, PixelsFit
<1>13. Due > 0 => panel'.size = panel'.drawn + Due
  <2>1. CASE rx.toGo > 0
    <3>1. panel' = panel /\ panel.size = panel.drawn + rx.toGo - n
      BY <1>1, <1>2, <2>1 DEF StartsBlt, StepInv, PixelsFit, n
    <3>2. QED
      BY <1>1, <1>3, <1>4, <1>12, <2>1, <3>1 DEF n
  <2>2. CASE rx.toGo = 0
    BY <1>2, <1>3, <1>5, <2>2 DEF StartsBlt
  <2>3. QED
    BY <1>1, <2>1, <2>2
<1>14. PixelsFit'
  BY <1>3, <1>8, <1>12, <1>13 DEF PixelsFit
<1>15. QED
  BY <1>7, <1>9, <1>11, <1>14 DEF StepInv

LEMMA ControlInStep ==
  ASSUME ArmedInv, StepInv, Disable \/ Enable \/ SetHalt \/ ClearHalt
  PROVE  StepInv'
<1>1. CASE Disable
  <2>1. line' = <<>> /\ ~job'.busy /\ panel' = panel
    BY <1>1, NoJobType DEF Disable
  <2>2. Chain'
    BY <2>1, EmptySeq DEF Chain
  <2>3. QED
    BY <2>1, <2>2 DEF StepInv, ReadsWhatWasSent, StepsAgree, PixelsFit
<1>2. CASE Enable
  <2>1. line' = <<>> /\ owed' = 0 /\ open' = 0 /\ panel' = panel /\ rx'.toGo = 0
    BY <1>2 DEF Enable, RxStart
  <2>2. Due' = 0 /\ DueAt' = 0
    BY <2>1 DEF Due, DueAt
  <2>3. Chain'
    BY <2>1, EmptySeq DEF Chain
  <2>4. job'.busy /\ job'.fill = 0 /\ ~job'.ended
    BY <1>2, EnableArmed
  <2>5. QED
    BY <2>1, <2>2, <2>3, <2>4
       DEF StepInv, ReadsWhatWasSent, StepsAgree, PixelsFit
<1>3. CASE SetHalt
  <2>1. CASE ep' = "halted"
    <3>1. line' = <<>> /\ ~job'.busy /\ panel' = panel
      BY <1>3, <2>1, NoJobType DEF SetHalt, ArmedInv, TypeOK
    <3>2. Chain'
      BY <3>1, EmptySeq DEF Chain
    <3>3. QED
      BY <3>1, <3>2 DEF StepInv, ReadsWhatWasSent, StepsAgree, PixelsFit
  <2>2. CASE ep' # "halted"
    BY <1>3, <2>2
       DEF SetHalt, StepInv, Chain, ReadsWhatWasSent, StepsAgree, PixelsFit, Due,
           DueAt, PacketOK, After, AfterAt, Ends, ProperLen
  <2>3. QED
    BY <2>1, <2>2
<1>4. CASE ClearHalt
  BY <1>4 DEF ClearHalt, StepInv, Chain, ReadsWhatWasSent, StepsAgree, PixelsFit,
              Due, DueAt, PacketOK, After, AfterAt, Ends, ProperLen
<1>5. QED
  BY <1>1, <1>2, <1>3, <1>4

\* The kind of host never changes.
LEMMA HostStays ==
  ASSUME [Next]_vars
  PROVE  host' = host
<1>1. CASE Host
  BY <1>1 DEF Host, HostCommand, HostPixels, HostZlp, Accept
<1>2. CASE DmaMove
  BY <1>2 DEF DmaMove
<1>3. CASE DataReceived
  BY <1>3 DEF DataReceived
<1>4. CASE Disable \/ Enable \/ SetHalt \/ ClearHalt
  BY <1>4 DEF Disable, Enable, SetHalt, ClearHalt
<1>5. CASE UNCHANGED vars
  BY <1>5 DEF vars
<1>6. QED
  BY <1>1, <1>2, <1>3, <1>4, <1>5 DEF Next

\* With a host that sends each command in a transfer of its own, then the pixels it
\* announced, and ends each transfer where the firmware does, FramedInv is
\* inductive, however many packets make up a transfer ...
THEOREM FramedInvariant == Spec => [](host = "framed" => FramedInv)
<1>1. Init => StepInv
  BY EmptySeq, NoJobType
     DEF Init, StepInv, Chain, ReadsWhatWasSent, StepsAgree, PixelsFit
<1>2. ArmedInv /\ (host = "framed" => StepInv) /\ [Next]_vars
        => (host = "framed" => StepInv)'
  <2> SUFFICES ASSUME ArmedInv, host = "framed", StepInv, [Next]_vars PROVE StepInv'
    BY HostStays
  <2>1. CASE Host
    BY <2>1, HostFramed, AcceptInStep
  <2>2. CASE DmaMove
    BY <2>2, DmaMoveInStep
  <2>3. CASE DataReceived
    BY <2>3, DataReceivedInStep
  <2>4. CASE Disable \/ Enable \/ SetHalt \/ ClearHalt
    BY <2>4, ControlInStep
  <2>5. CASE UNCHANGED vars
    BY <2>5 DEF vars, StepInv, Chain, ReadsWhatWasSent, StepsAgree, PixelsFit, Due,
                DueAt, PacketOK, After, AfterAt, Ends, ProperLen
  <2>6. QED
    BY <2>1, <2>2, <2>3, <2>4, <2>5 DEF Next
<1>3. ArmedInv /\ (host = "framed" => StepInv) => (host = "framed" => FramedInv)
  BY DEF ArmedInv, StepInv, FramedInv
<1>4. QED
  BY <1>1, <1>2, <1>3, InitArmed, NextArmed, PTL DEF Spec

\* ... so the firmware and that host never disagree on the pixels to come or on where
\* a transfer ends: no pixel is taken for a command, no command is drawn, and no
\* pixel is written outside the window its bitblt opened.
THEOREM AlwaysInStep == Spec => []InStep
<1>1. (host = "framed" => FramedInv) => InStep
  BY DEF FramedInv, InStep
<1>2. QED
  BY <1>1, FramedInvariant, PTL

\* A host that sends no empty packet where the firmware has ended the transfer never
\* has an old bitblt run again, and what goes to the panel are its pixels.
THEOREM NeverOldCommands ==
  ASSUME "zlp" \notin HostKinds
  PROVE  Spec => [](OnlyNewCommands /\ OnlyPixelsDrawn)
<1>1. ArmedInv /\ (host = "framed" => FramedInv) => OnlyNewCommands /\ OnlyPixelsDrawn
  <2> SUFFICES ASSUME ArmedInv, host = "framed" => FramedInv, host # "wild", job.busy
               PROVE  OnlyNewCommands /\ OnlyPixelsDrawn
    BY DEF OnlyNewCommands, OnlyPixelsDrawn
  <2>1. host = "framed"
    BY LcdStreamAssumption DEF ArmedInv, TypeOK
  <2>2. FramedInv
    BY <2>1
  <2>3. OnlyNewCommands
    <3> DEFINE c == rxBuf[NextBuffer(rx.sel)]
    <3> SUFFICES ASSUME job.ended, StartsBlt(rx, c)
                 PROVE  job.fill >= BltLen /\ c.area = Due
      BY DEF OnlyNewCommands
    <3>1. rx.toGo = 0 /\ c.op = "blt"
      BY DEF StartsBlt
    <3>2. job.target = NextBuffer(rx.sel) /\ job.target # Lcd
      BY <3>1 DEF ArmedInv, TargetIsWhatCallbackReads, NextBuffer
    <3>3. QED
      BY <2>2, <3>1, <3>2 DEF FramedInv, ReadsWhatWasSent, ProperLen
  <2>4. OnlyPixelsDrawn
    <3> SUFFICES ASSUME ~job.ended, job.target = Lcd, line # <<>>, Head(line).n # 0
                 PROVE  Head(line).op = "pix"
      BY DEF OnlyPixelsDrawn
    <3>1. rx.toGo # 0 /\ rx.toGo \in Nat
      BY Sizes DEF ArmedInv, TypeOK, TargetIsWhatCallbackReads, NextBuffer
    <3>2. line \in Seq(Packets)
      BY DEF ArmedInv, TypeOK
    <3>3. Head(line) \in Packets
      BY <3>2, HeadTailProperties
    <3>4. Head(line).n > 0
      BY <3>3, Sizes DEF Packets
    <3>5. QED
      BY <2>2, <3>1, <3>4 DEF FramedInv, StepsAgree
  <2>5. QED
    BY <2>3, <2>4
<1>2. QED
  BY <1>1, FramedInvariant, InitArmed, NextArmed, PTL DEF Spec

=============================================================================
