----------------------------- MODULE CdcRxProofs -----------------------------
(***************************************************************************)
(* Proofs about CdcRx, for every packet and buffer size, number of banks   *)
(* and of byte values.                                                     *)
(***************************************************************************)
EXTENDS CdcRx, SequenceTheorems, WellFoundedInduction, TLAPS

USE DEF Buffers, NoJob

Statics == [ongoing : BOOLEAN, sel : Buffers, pos : 0 .. BufSize,
            nb : [Buffers -> 0 .. BufSize]]

Job == [busy : BOOLEAN, target : Buffers, fill : 0 .. BufSize, ended : BOOLEAN]

-----------------------------------------------------------------------------
(* udi_cdc_rx_start() and the callback                                     *)

LEMMA Sizes ==
  /\ PacketSize \in Nat /\ 0 < PacketSize
  /\ BufSize \in Nat /\ 0 < BufSize
  /\ ByteValues \in Nat /\ 0 < ByteValues
BY CdcRxAssumption

LEMMA OtherBuffer ==
  ASSUME NEW b \in Buffers
  PROVE  Other(b) \in Buffers /\ Other(b) # b /\ Other(Other(b)) = b
BY DEF Other

\* What udi_cdc_rx_start() does to the statics: either the current buffer is read
\* and it swaps, or it does nothing.
LEMMA SwappedType ==
  ASSUME NEW s \in Statics
  PROVE  /\ Swapped(s) \in Statics
         /\ RxFree(s) => /\ Swapped(s).ongoing
                         /\ Swapped(s).sel = Other(s.sel)
                         /\ Swapped(s).pos = 0
         /\ ~RxFree(s) => /\ Swapped(s) = s
                          /\ s.ongoing \/ Available(s)
<1>1. Other(s.sel) \in Buffers
  BY OtherBuffer DEF Statics
<1>2. CASE RxFree(s)
  <2>1. Swapped(s) = [ongoing |-> TRUE, sel |-> Other(s.sel), pos |-> 0, nb |-> s.nb]
    BY <1>2 DEF Swapped, Statics
  <2>2. QED
    BY <1>1, <1>2, <2>1, Sizes DEF Statics
<1>3. CASE ~RxFree(s)
  <2>1. s.pos \in 0 .. BufSize /\ s.nb[s.sel] \in 0 .. BufSize
    BY DEF Statics
  <2>2. s.ongoing \/ Available(s)
    BY <1>3, <2>1, Sizes DEF RxFree, Available
  <2>3. QED
    BY <1>3, <2>2 DEF Swapped
<1>4. QED
  BY <1>2, <1>3

LEMMA ReceivedType ==
  ASSUME NEW s \in Statics, NEW n \in 0 .. BufSize
  PROVE  /\ Received(s, n) \in Statics
         /\ ~Received(s, n).ongoing
         /\ Received(s, n).sel = s.sel
         /\ Received(s, n).pos = s.pos
         /\ Received(s, n).nb[s.sel] = s.nb[s.sel]
<1>1. Other(s.sel) \in Buffers /\ Other(s.sel) # s.sel
  BY OtherBuffer DEF Statics
<1>2. QED
  BY <1>1 DEF Received, Statics

LEMMA FreshType ==
  /\ Fresh \in Statics
  /\ RxFree(Fresh)
BY Sizes DEF Fresh, Statics, RxFree

LEMMA RunType ==
  ASSUME NEW b \in Buffers, NEW e, NEW j \in Job
  PROVE  /\ Run(b, e, j) \in Job
         /\ e \in {"on", "cleared"} => Run(b, e, j).busy
         /\ Run(b, e, j).busy => j.busy \/ Run(b, e, j).target = b
BY Sizes DEF Run, Job

LEMMA NoJobType == NoJob \in Job /\ ~NoJob.busy
BY Sizes DEF Job

Packeted(f) == \E k \in Nat : f = k * PacketSize

\* Full packets fill a buffer exactly.
LEMMA FillFits ==
  ASSUME NEW f \in Nat, f < BufSize, Packeted(f)
  PROVE  /\ f + PacketSize <= BufSize
         /\ Packeted(f + PacketSize)
<1>1. PICK a \in Nat : f = a * PacketSize
  BY DEF Packeted
<1>2. PICK b \in Nat : BufSize = b * PacketSize
  BY CdcRxAssumption
<1>3. a < b
  BY <1>1, <1>2, Sizes
<1>4. (a + 1) * PacketSize = f + PacketSize /\ a + 1 \in Nat
  BY <1>1, Sizes
<1>5. PICK c \in Nat : b = a + 1 + c
  BY <1>3
<1>6. b * PacketSize = (a + 1) * PacketSize + c * PacketSize
  BY <1>5, Sizes
<1>7. c * PacketSize \in Nat
  BY Sizes
<1>8. f + PacketSize <= BufSize
  BY <1>2, <1>4, <1>6, <1>7, Sizes
<1>9. QED
  BY <1>4, <1>8 DEF Packeted

-----------------------------------------------------------------------------
(* The types, and the bounds of the buffers                                *)

Mains == [pc : {"poll", "check", "read", "store", "start", "arm"},
          pos : 0 .. BufSize - 1, sel : Buffers, val : Byte, got : Byte,
          trans : Buffers, more : BOOLEAN]

\* A transfer that goes on got full packets only, and has room for another.
FillOK == job.busy /\ ~job.ended => job.fill < BufSize /\ Packeted(job.fill)

TypeInv == TypeOK /\ FillOK

LEMMA IdleType ==
  ASSUME NEW g \in Byte
  PROVE  Idle(g) \in Mains
BY Sizes DEF Idle, Mains, Byte

LEMMA FinishedType ==
  ASSUME NEW m \in Mains
  PROVE  /\ Finished(m) \in Mains
         /\ Finished(m).pc \in {"poll", "check"}
<1>1. m.got \in Byte /\ m.more \in BOOLEAN
  BY DEF Mains
<1>2. Idle(m.got) \in Mains
  BY <1>1, IdleType
<1>3. QED
  BY <1>1, <1>2 DEF Finished, Idle, Mains

\* A transfer that starts has all the buffer.
LEMMA RunFill ==
  ASSUME NEW b \in Buffers, NEW e, NEW j \in Job,
         j.busy /\ ~j.ended => j.fill < BufSize /\ Packeted(j.fill)
  PROVE  Run(b, e, j).busy /\ ~Run(b, e, j).ended =>
           Run(b, e, j).fill < BufSize /\ Packeted(Run(b, e, j).fill)
<1>1. Packeted(0)
  <2>1. 0 = 0 * PacketSize
    BY Sizes
  <2>2. QED
    BY <2>1 DEF Packeted
<1>2. QED
  BY <1>1, Sizes DEF Run

LEMMA TypeInit == Init => TypeInv
<1> SUFFICES ASSUME Init
             PROVE  TypeInv
  OBVIOUS
<1>1. rx \in Statics
  BY FreshType DEF Init
<1>2. 0 \in Byte
  BY Sizes DEF Byte
<1>3. buf \in [Buffers -> [Offsets -> Byte]]
  BY <1>2 DEF Init
<1>4. main \in Mains
  BY <1>2, IdleType DEF Init
<1>5. job \in Job /\ FillOK
  BY NoJobType DEF Init, FillOK
<1>6. line \in Seq(Packets) /\ Len(line) <= Banks
  BY CdcRxAssumption DEF Init
<1>7. QED
  BY <1>1, <1>2, <1>3, <1>4, <1>5, <1>6 DEF Init, TypeInv, TypeOK, Statics, Job, Mains

LEMMA NumberType ==
  ASSUME next \in Byte, NEW i \in Int
  PROVE  Number(i) \in Byte
BY Sizes DEF Number, Byte

LEMMA TypeStep == TypeInv /\ [Next]_vars => TypeInv'
<1> SUFFICES ASSUME TypeInv, [Next]_vars
             PROVE  TypeInv'
  OBVIOUS
<1>a. /\ rx \in Statics /\ job \in Job /\ main \in Mains
      /\ buf \in [Buffers -> [Offsets -> Byte]]
      /\ running \in BOOLEAN
      /\ ep \in {"off", "on", "halted", "cleared", "stuck"}
      /\ line \in Seq(Packets) /\ Len(line) <= Banks
      /\ next \in Byte /\ epoch \in {0, 1} /\ stale \in BOOLEAN
  BY DEF TypeInv, TypeOK, Statics, Job, Mains
<1>b. SUFFICES /\ rx' \in Statics /\ job' \in Job /\ main' \in Mains
               /\ buf' \in [Buffers -> [Offsets -> Byte]]
               /\ running' \in BOOLEAN
               /\ ep' \in {"off", "on", "halted", "cleared", "stuck"}
               /\ line' \in Seq(Packets) /\ Len(line') <= Banks
               /\ next' \in Byte /\ epoch' \in {0, 1} /\ stale' \in BOOLEAN
               /\ FillOK'
  BY DEF TypeInv, TypeOK, Statics, Job, Mains
<1>c. FillOK
  BY DEF TypeInv
<1>d. <<>> \in Seq(Packets) /\ Len(<<>>) <= Banks
  BY CdcRxAssumption
<1>1. CASE \E n \in 0 .. PacketSize : Send(n)
  <2>1. PICK n \in 0 .. PacketSize : Send(n)
    BY <1>1
  <2>2. \A i \in 1 .. n : Number(i - 1) \in Byte
    BY <1>a, Sizes, NumberType
  <2>3. [i \in 1 .. n |-> Number(i - 1)] \in Packets
    BY <2>2 DEF Packets
  <2>4. Number(n) \in Byte
    BY <1>a, Sizes, NumberType
  <2>5. line' \in Seq(Packets) /\ Len(line') <= Banks
    BY <1>a, <2>1, <2>3, CdcRxAssumption DEF Send
  <2>6. QED
    BY <1>a, <1>c, <2>1, <2>4, <2>5 DEF Send, FillOK
<1>2. CASE DmaMove
  <2> DEFINE p == Head(line)
  <2>1. p \in Packets /\ line' \in Seq(Packets) /\ Len(line') <= Banks
    BY <1>a, <1>2, CdcRxAssumption DEF DmaMove
  <2>2. PICK n \in 0 .. PacketSize : p \in [1 .. n -> Byte]
    BY <2>1 DEF Packets
  <2>3. Len(p) = n
    BY <2>2
  <2>4. job.fill \in Nat /\ job.fill < BufSize /\ Packeted(job.fill)
    BY <1>a, <1>c, <1>2, Sizes DEF DmaMove, FillOK, Job
  <2>5. /\ job.fill + PacketSize <= BufSize
        /\ Packeted(job.fill + PacketSize)
    BY <2>4, FillFits
  <2>6. job' = [busy |-> job.busy, target |-> job.target, fill |-> job.fill + n,
                ended |-> n < PacketSize \/ job.fill + n = BufSize]
    BY <1>a, <1>2, <2>3 DEF DmaMove, Job
  <2>7. job' \in Job
    BY <1>a, <2>4, <2>5, <2>6, Sizes DEF Job
  <2>8. FillOK'
    <3>1. ~job'.ended => n = PacketSize /\ job.fill + n # BufSize
      <4>1. ~job'.ended => ~(n < PacketSize) /\ ~(job.fill + n = BufSize)
        BY <2>6, Zenon
      <4>2. ~(n < PacketSize) => n = PacketSize
        BY Sizes
      <4>3. QED
        BY <4>1, <4>2
    <3>2. ~job'.ended => job'.fill = job.fill + PacketSize /\ job'.fill < BufSize
      BY <2>4, <2>5, <2>6, <3>1, Sizes
    <3>3. QED
      BY <2>5, <3>2 DEF FillOK
  <2>9. buf' \in [Buffers -> [Offsets -> Byte]]
    <3> DEFINE new == [i \in Offsets |-> IF i \in job.fill .. job.fill + Len(p) - 1
                                         THEN p[i - job.fill + 1]
                                         ELSE buf[job.target][i]]
    <3>1. ASSUME NEW i \in Offsets, i \in job.fill .. job.fill + Len(p) - 1
          PROVE  p[i - job.fill + 1] \in Byte
      BY <2>2, <2>3, <2>4, <3>1, Sizes DEF Offsets
    <3>2. buf[job.target] \in [Offsets -> Byte]
      BY <1>a DEF Job
    <3>3. new \in [Offsets -> Byte]
      BY <3>1, <3>2
    <3>4. buf' = [buf EXCEPT ![job.target] = new]
      BY <1>2 DEF DmaMove
    <3>5. QED
      BY <1>a, <3>3, <3>4
  <2>10. QED
    BY <1>a, <1>2, <2>1, <2>7, <2>8, <2>9 DEF DmaMove
<1>3. CASE DataReceived
  <2>1. job.fill \in 0 .. BufSize
    BY <1>a DEF Job
  <2>2. Received(rx, job.fill) \in Statics
    BY <1>a, <2>1, ReceivedType
  <2>3. Swapped(Received(rx, job.fill)) \in Statics
    BY <2>2, SwappedType
  <2>4. Received(rx, job.fill).sel \in Buffers /\ Other(rx.sel) \in Buffers
    BY <1>a, <2>2, OtherBuffer DEF Statics
  <2>5. ~NoJob.busy /\ NoJob \in Job
    BY NoJobType
  <2>6. job' \in Job /\ FillOK'
    BY <1>3, <2>4, <2>5, RunType, RunFill DEF DataReceived, EmptyAgain, FillOK
  <2>7. rx' \in Statics
    BY <1>a, <1>3, <2>3 DEF DataReceived
  <2>8. QED
    BY <1>a, <1>3, <2>6, <2>7 DEF DataReceived
<1>4. CASE Disable
  <2>1. job' \in Job /\ FillOK'
    BY <1>4, NoJobType DEF Disable, FillOK
  <2>2. running' \in BOOLEAN /\ stale' \in BOOLEAN
    BY <1>a, <1>4 DEF Disable, Midst
  <2>3. epoch' \in {0, 1}
    BY <1>a, <1>4 DEF Disable
  <2>4. QED
    BY <1>a, <1>d, <1>4, <2>1, <2>2, <2>3 DEF Disable
<1>5. CASE Enable
  <2>1. Fresh.sel \in Buffers /\ Swapped(Fresh) \in Statics
    BY FreshType, SwappedType DEF Statics
  <2>2. job' \in Job /\ FillOK'
    BY <1>5, <2>1, NoJobType, RunType, RunFill DEF Enable, FillOK
  <2>3. running' \in BOOLEAN /\ stale' \in BOOLEAN
    BY <1>5 DEF Enable, Midst
  <2>4. epoch' \in {0, 1}
    BY <1>a, <1>5 DEF Enable
  <2>5. QED
    BY <1>a, <1>d, <1>5, <2>1, <2>2, <2>3, <2>4 DEF Enable
<1>7. CASE SetHalt
  BY <1>a, <1>d, <1>7, NoJobType DEF SetHalt, FillOK
<1>8. CASE ClearHalt
  BY <1>a, <1>c, <1>8 DEF ClearHalt, FillOK
<1>9. CASE Reallocate
  <2>1. job.target \in Buffers
    BY <1>a DEF Job
  <2>2. job' \in Job /\ FillOK'
    BY <1>a, <1>c, <1>9, <2>1, NoJobType, RunType, RunFill DEF Reallocate, FillOK
  <2>3. QED
    BY <1>a, <1>d, <1>9, <2>2 DEF Reallocate
<1>10. CASE Poll
  BY <1>a, <1>c, <1>10 DEF Poll, TwoBytes, FillOK, Mains
<1>11. CASE Check
  <2>1. Idle(main.got) \in Mains
    BY <1>a, IdleType DEF Mains
  <2>2. Available(rx) => rx.pos \in 0 .. BufSize - 1 /\ rx.sel \in Buffers
    BY <1>a, Sizes DEF Available, Statics
  <2>3. main' \in Mains
    BY <1>a, <1>11, <2>1, <2>2 DEF Check, Mains
  <2>4. QED
    BY <1>a, <1>c, <1>11, <2>3 DEF Check, FillOK
<1>12. CASE Read
  <2>1. buf[main.sel][main.pos] \in Byte
    BY <1>a DEF Mains, Offsets
  <2>2. main' \in Mains
    BY <1>a, <1>12, <2>1 DEF Read, Mains
  <2>3. QED
    BY <1>a, <1>c, <1>12, <2>2 DEF Read, FillOK
<1>13. CASE Store
  <2>1. Stored \in 0 .. BufSize
    BY <1>a, Sizes DEF Stored, Mains
  <2>2. rx' \in Statics
    BY <1>a, <1>13, <2>1 DEF Store, Statics
  <2>3. main' \in Mains
    <3>1. 0 \in Byte /\ 0 \in 0 .. BufSize - 1
      BY Sizes DEF Byte
    <3>2. main' = [pc |-> "start", pos |-> 0, sel |-> 0, val |-> 0, got |-> main.val,
                   trans |-> main.trans, more |-> main.more]
      BY <1>a, <1>13 DEF Store, Mains
    <3>3. QED
      BY <1>a, <3>1, <3>2 DEF Mains
  <2>4. QED
    BY <1>a, <1>c, <1>13, <2>2, <2>3 DEF Store, FillOK
<1>14. CASE Start
  <2>1. rx' \in Statics /\ rx.sel \in Buffers
    BY <1>a, <1>14, SwappedType DEF Start, Statics
  <2>2. main' \in Mains
    BY <1>a, <1>14, <2>1, FinishedType DEF Start, Mains
  <2>3. QED
    BY <1>a, <1>c, <1>14, <2>1, <2>2 DEF Start, FillOK
<1>15. CASE Arm
  <2>1. main.trans \in Buffers
    BY <1>a DEF Mains
  <2>2. job' \in Job /\ FillOK'
    BY <1>a, <1>c, <1>15, <2>1, RunType, RunFill DEF Arm, FillOK
  <2>3. QED
    BY <1>a, <1>15, <2>2, FinishedType DEF Arm
<1>16. CASE UNCHANGED vars
  BY <1>a, <1>c, <1>16 DEF vars, FillOK
<1>17. QED
  BY <1>1, <1>2, <1>3, <1>4, <1>5, <1>7, <1>8, <1>9, <1>10, <1>11, <1>12,
     <1>13, <1>14, <1>15, <1>16 DEF Next, MainLoop

\* Every variable keeps its type: positions and counts stay within the buffers,
\* and the DMA never writes past the end of one, whatever the host sends and
\* whenever it restarts the port.
THEOREM TypeCorrect == Spec => []TypeOK
<1>1. Spec => []TypeInv
  BY TypeInit, TypeStep, PTL DEF Spec
<1>2. TypeInv => TypeOK
  BY DEF TypeInv
<1>3. QED
  BY <1>1, <1>2, PTL

-----------------------------------------------------------------------------
(* Neither context waits for the other                                     *)

LEMMA AliveInit == Init => ReceptionAlive
BY DEF Init, ReceptionAlive

LEMMA AliveStep ==
  TypeInv /\ ReceptionAlive /\ [Next]_vars => ReceptionAlive'
<1> SUFFICES ASSUME TypeInv, ReceptionAlive, [Next]_vars, ep' = "on"
             PROVE  IF rx'.ongoing THEN job'.busy \/ main'.pc = "arm"
                    ELSE Available(rx') \/ main'.pc = "start"
  BY DEF ReceptionAlive, Available
<1>a. rx \in Statics /\ job \in Job /\ main \in Mains
  BY DEF TypeInv, TypeOK, Statics, Job, Mains
<1>b. ep = "on" => IF rx.ongoing THEN job.busy \/ main.pc = "arm"
                   ELSE Available(rx) \/ main.pc = "start"
  BY DEF ReceptionAlive
<1>1. CASE \E n \in 0 .. PacketSize : Send(n)
  BY <1>b, <1>1 DEF Send
<1>2. CASE DmaMove
  <2>1. job'.busy = job.busy
    BY <1>a, <1>2 DEF DmaMove, Job
  <2>2. QED
    BY <1>b, <1>2, <2>1 DEF DmaMove
<1>3. CASE DataReceived
  <2> DEFINE s == Received(rx, job.fill)
  <2>0. ep = "on" /\ main' = main /\ NoJob \in Job /\ ~NoJob.busy
    BY <1>3, NoJobType DEF DataReceived
  <2>1. job.fill \in 0 .. BufSize /\ rx.sel \in Buffers /\ Other(rx.sel) \in Buffers
    BY <1>a, OtherBuffer DEF Job, Statics
  <2>2. s \in Statics /\ ~s.ongoing /\ s.sel \in Buffers
    BY <1>a, <2>1, ReceivedType
  <2>3. CASE job.fill = 0
    <3>1. job'.busy
      BY <1>3, <2>0, <2>1, <2>3, RunType DEF DataReceived, EmptyAgain
    <3>2. rx' = rx
      BY <1>3, <2>3 DEF DataReceived
    <3>3. job.busy
      BY <1>3 DEF DataReceived
    <3>4. QED
      BY <1>b, <2>0, <3>1, <3>2
  <2>4. CASE job.fill # 0 /\ RxFree(s)
    <3>1. job'.busy
      BY <1>3, <2>0, <2>2, <2>4, RunType DEF DataReceived
    <3>2. rx'.ongoing
      BY <1>3, <2>2, <2>4, SwappedType DEF DataReceived
    <3>3. QED
      BY <3>1, <3>2
  <2>5. CASE job.fill # 0 /\ ~RxFree(s)
    <3>1. rx' = s /\ Available(s)
      BY <1>3, <2>2, <2>5, SwappedType DEF DataReceived
    <3>2. QED
      BY <2>2, <3>1
  <2>6. QED
    BY <2>3, <2>4, <2>5
<1>4. CASE Disable
  BY <1>4 DEF Disable
<1>5. CASE Enable
  <2>1. rx'.ongoing
    BY <1>5, FreshType, SwappedType DEF Enable
  <2>2. job'.busy
    BY <1>5, FreshType, NoJobType, RunType DEF Enable, Statics
  <2>3. QED
    BY <2>1, <2>2
<1>7. CASE SetHalt
  BY <1>7 DEF SetHalt
<1>8. CASE ClearHalt
  BY <1>8 DEF ClearHalt
<1>9. CASE Reallocate
  <2>1. job.busy => job'.busy
    BY <1>a, <1>9, NoJobType, RunType DEF Reallocate, Job
  <2>2. QED
    BY <1>b, <1>9, <2>1 DEF Reallocate
<1>10. CASE Poll
  <2>1. main.pc \notin {"arm", "start"} /\ rx' = rx /\ job' = job /\ ep = "on"
    BY <1>10 DEF Poll
  <2>2. QED
    BY <1>b, <2>1
<1>11. CASE Check
  <2>1. main.pc \notin {"arm", "start"} /\ rx' = rx /\ job' = job /\ ep = "on"
    BY <1>11 DEF Check
  <2>2. QED
    BY <1>b, <2>1
<1>12. CASE Read
  <2>1. main.pc \notin {"arm", "start"} /\ rx' = rx /\ job' = job /\ ep = "on"
    BY <1>12 DEF Read
  <2>2. QED
    BY <1>b, <2>1
<1>13. CASE Store
  <2>1. main'.pc = "start"
    BY <1>a, <1>13 DEF Store, Mains
  <2>2. rx'.ongoing = rx.ongoing /\ job' = job /\ ep = "on" /\ main.pc = "store"
    BY <1>a, <1>13 DEF Store, Statics
  <2>3. QED
    BY <1>b, <2>1, <2>2
<1>14. CASE Start
  <2>1. ep = "on" /\ main.pc = "start" /\ job' = job /\ rx' = Swapped(rx)
    BY <1>14 DEF Start
  <2>2. CASE RxFree(rx)
    <3>1. rx'.ongoing
      BY <1>a, <2>1, <2>2, SwappedType
    <3>2. main'.pc = "arm"
      BY <1>a, <1>14, <2>2 DEF Start, Mains
    <3>3. QED
      BY <3>1, <3>2
  <2>3. CASE ~RxFree(rx)
    <3>1. rx' = rx /\ (rx.ongoing \/ Available(rx))
      BY <1>a, <2>1, <2>3, SwappedType
    <3>2. QED
      BY <1>b, <2>1, <3>1
  <2>4. QED
    BY <2>2, <2>3
<1>15. CASE Arm
  <2>1. ep = "on" /\ main.pc = "arm" /\ rx' = rx
    BY <1>15 DEF Arm
  <2>2. job'.busy
    BY <1>a, <1>15, <2>1, RunType DEF Arm, Mains
  <2>3. QED
    BY <1>b, <2>1, <2>2
<1>16. CASE UNCHANGED vars
  BY <1>b, <1>16 DEF vars
<1>17. QED
  BY <1>1, <1>2, <1>3, <1>4, <1>5, <1>7, <1>8, <1>9, <1>10, <1>11, <1>12,
     <1>13, <1>14, <1>15, <1>16 DEF Next, MainLoop

\* On an endpoint that was not halted, reception never stops with both contexts
\* thinking it is the other's turn to arm the endpoint, even when the host
\* restarts the port in the midst of udi_cdc_getc().
THEOREM AlwaysAlive == Spec => []ReceptionAlive
<1>1. Spec => [](TypeInv /\ ReceptionAlive)
  BY TypeInit, TypeStep, AliveInit, AliveStep, PTL DEF Spec
<1>2. QED
  BY <1>1, PTL

-----------------------------------------------------------------------------
(* The reader and the DMA, but for restarts in the midst of udi_cdc_getc()  *)

\* At "arm" the transfer is claimed, with the buffer read to its end.
ArmingApart ==
  main.pc = "arm" => rx.ongoing /\ ~job.busy /\ main.trans = Other(rx.sel)

ApartInv ==
  /\ TypeInv
  /\ Apart
  /\ ArmingApart
  /\ rx.pos <= rx.nb[rx.sel]

LEMMA ApartInit == Init => ApartInv
<1> SUFFICES ASSUME Init
             PROVE  ApartInv
  OBVIOUS
<1>1. TypeInv
  BY TypeInit
<1>2. main.pc = "poll" /\ ~job.busy
  BY DEF Init, Idle
<1>3. rx.pos <= rx.nb[rx.sel]
  BY DEF Init, Fresh
<1>4. QED
  BY <1>1, <1>2, <1>3 DEF ApartInv, Apart, ArmingApart

\* A swap, by either context, puts the transfer on the buffer just read.
LEMMA SwapApart ==
  ASSUME NEW s \in Statics, s.pos <= s.nb[s.sel]
  PROVE  /\ Swapped(s).pos <= Swapped(s).nb[Swapped(s).sel]
         /\ RxFree(s) => s.sel = Other(Swapped(s).sel)
<1>1. CASE RxFree(s)
  <2>1. Swapped(s) \in Statics /\ Swapped(s).pos = 0 /\ Swapped(s).sel = Other(s.sel)
    BY <1>1, SwappedType
  <2>2. Swapped(s).nb[Swapped(s).sel] \in 0 .. BufSize
    BY <2>1 DEF Statics
  <2>3. s.sel = Other(Swapped(s).sel)
    BY <2>1, OtherBuffer DEF Statics
  <2>4. QED
    BY <2>1, <2>2, <2>3, Sizes
<1>2. CASE ~RxFree(s)
  BY <1>2, SwappedType
<1>3. QED
  BY <1>1, <1>2

\* A restart that finds the main loop outside udi_cdc_getc() sets all to rights,
\* whatever was before.
LEMMA EnableApart ==
  ASSUME TypeInv, Enable, ~Midst
  PROVE  ApartInv' /\ main'.pc # "store"
<1>1. TypeInv'
  BY TypeStep DEF Next
<1>2. Fresh \in Statics /\ Fresh.sel \in Buffers /\ Fresh.pos <= Fresh.nb[Fresh.sel]
  BY FreshType DEF Fresh
<1>3. main.pc \in {"poll", "check"} /\ main' = main /\ rx' = Swapped(Fresh)
  BY DEF Enable, Midst
<1>4. rx'.ongoing /\ rx'.pos <= rx'.nb[rx'.sel] /\ Fresh.sel = Other(rx'.sel)
  BY <1>2, <1>3, FreshType, SwappedType, SwapApart
<1>5. job'.busy => job'.target = Fresh.sel
  BY <1>2, NoJobType, RunType DEF Enable
<1>6. QED
  BY <1>1, <1>3, <1>4, <1>5 DEF ApartInv, Apart, ArmingApart

LEMMA ApartStep == ApartInv /\ [Next]_vars /\ ~stale' => ApartInv'
<1> SUFFICES ASSUME ApartInv, [Next]_vars, ~stale'
             PROVE  ApartInv'
  OBVIOUS
<1>a. TypeInv'
  BY TypeStep DEF ApartInv
<1>b. rx \in Statics /\ job \in Job /\ main \in Mains
  BY DEF ApartInv, TypeInv, TypeOK, Statics, Job, Mains
<1>c. /\ job.busy => rx.ongoing /\ job.target = Other(rx.sel)
      /\ main.pc \in {"read", "store"} =>
           main.sel = rx.sel /\ main.pos = rx.pos /\ Available(rx)
      /\ main.pc = "arm" => rx.ongoing /\ ~job.busy /\ main.trans = Other(rx.sel)
      /\ rx.pos <= rx.nb[rx.sel]
  BY DEF ApartInv, Apart, ArmingApart
<1>d. SUFFICES
        /\ job'.busy => rx'.ongoing /\ job'.target = Other(rx'.sel)
        /\ main'.pc \in {"read", "store"} =>
             main'.sel = rx'.sel /\ main'.pos = rx'.pos /\ Available(rx')
        /\ main'.pc = "arm" => rx'.ongoing /\ ~job'.busy /\ main'.trans = Other(rx'.sel)
        /\ rx'.pos <= rx'.nb[rx'.sel]
  BY <1>a DEF ApartInv, Apart, ArmingApart, Available
<1>e. ~NoJob.busy /\ NoJob \in Job
  BY NoJobType
<1>f. rx.sel \in Buffers /\ Other(rx.sel) \in Buffers
  BY <1>b, OtherBuffer DEF Statics
<1>1. CASE \E n \in 0 .. PacketSize : Send(n)
  BY <1>c, <1>1 DEF Send
<1>2. CASE DmaMove
  <2>1. job'.busy = job.busy /\ job'.target = job.target
    BY <1>b, <1>2 DEF DmaMove, Job
  <2>2. QED
    BY <1>c, <1>2, <2>1 DEF DmaMove
<1>3. CASE DataReceived
  <2> DEFINE s == Received(rx, job.fill)
  <2>1. job.busy /\ rx.ongoing /\ main' = main /\ main.pc # "arm"
    BY <1>c, <1>3 DEF DataReceived
  <2>2. /\ s \in Statics /\ ~s.ongoing /\ s.sel = rx.sel /\ s.pos = rx.pos
        /\ s.nb[s.sel] = rx.nb[rx.sel]
    BY <1>b, ReceivedType DEF Job
  <2>3. CASE job.fill = 0
    <3>1. rx' = rx /\ (job'.busy => job'.target = Other(rx.sel))
      BY <1>3, <1>e, <1>f, <2>3, RunType DEF DataReceived, EmptyAgain
    <3>2. QED
      BY <1>c, <2>1, <3>1
  <2>4. CASE job.fill # 0 /\ RxFree(s)
    <3>1. rx' = Swapped(s) /\ (job'.busy => job'.target = s.sel)
      BY <1>3, <1>e, <1>f, <2>2, <2>4, RunType DEF DataReceived
    <3>2. rx'.ongoing /\ s.sel = Other(rx'.sel) /\ rx'.pos <= rx'.nb[rx'.sel]
      BY <1>c, <2>2, <2>4, <3>1, SwappedType, SwapApart
    <3>3. ~Available(rx)
      <4>1. s.pos \in 0 .. BufSize /\ s.nb[s.sel] \in 0 .. BufSize
        BY <2>2 DEF Statics
      <4>2. QED
        BY <2>2, <2>4, <4>1, Sizes DEF RxFree, Available
    <3>4. QED
      BY <1>c, <2>1, <3>1, <3>2, <3>3
  <2>5. CASE job.fill # 0 /\ ~RxFree(s)
    <3>1. rx' = s /\ ~job'.busy
      BY <1>3, <1>e, <2>2, <2>5, SwappedType DEF DataReceived
    <3>2. QED
      BY <1>c, <2>1, <2>2, <3>1 DEF Available
  <2>6. QED
    BY <2>3, <2>4, <2>5
<1>4. CASE Disable
  <2>1. main.pc \in {"poll", "check"} /\ main' = main /\ rx' = rx /\ ~job'.busy
    BY <1>4, <1>e DEF Disable, Midst
  <2>2. QED
    BY <1>c, <2>1
<1>5. CASE Enable
  <2>1. ~Midst /\ TypeInv
    BY <1>5 DEF Enable, ApartInv
  <2>2. ApartInv'
    BY <1>5, <2>1, EnableApart
  <2>3. QED
    BY <2>2 DEF ApartInv, Apart, ArmingApart, Available
<1>7. CASE SetHalt
  <2>1. main' = main /\ rx' = rx /\ ~job'.busy
    BY <1>7, <1>e DEF SetHalt
  <2>2. QED
    BY <1>c, <2>1
<1>8. CASE ClearHalt
  BY <1>c, <1>8 DEF ClearHalt
<1>9. CASE Reallocate
  <2>1. main' = main /\ rx' = rx
    BY <1>9 DEF Reallocate
  <2>2. CASE job.busy
    <3>1. main.pc # "arm" /\ rx.ongoing /\ job.target = Other(rx.sel)
      BY <1>c, <2>2
    <3>2. job' = [busy |-> TRUE, target |-> job.target, fill |-> 0, ended |-> FALSE]
      BY <1>9, <2>2 DEF Reallocate, Run
    <3>3. job'.target = job.target
      BY <3>2
    <3>4. QED
      BY <1>c, <2>1, <3>1, <3>3
  <2>3. CASE ~job.busy
    <3>1. job' = job
      BY <1>9, <2>3 DEF Reallocate
    <3>2. QED
      BY <1>c, <2>1, <3>1
  <2>4. QED
    BY <2>2, <2>3
<1>10. CASE Poll
  <2>1. rx' = rx /\ job' = job /\ main'.pc = "check"
    BY <1>b, <1>10 DEF Poll, Mains
  <2>2. QED
    BY <1>c, <2>1
<1>11. CASE Check
  <2>1. rx' = rx /\ job' = job
    BY <1>11 DEF Check
  <2>2. CASE Available(rx) /\ main' = [main EXCEPT !.pc = "read", !.pos = rx.pos,
                                                  !.sel = rx.sel]
    <3>1. main'.pc = "read" /\ main'.pos = rx.pos /\ main'.sel = rx.sel
      BY <1>b, <2>2 DEF Mains
    <3>2. QED
      BY <1>c, <2>1, <2>2, <3>1
  <2>3. CASE main' = Idle(main.got)
    <3>1. main'.pc = "poll"
      BY <2>3 DEF Idle
    <3>2. QED
      BY <1>c, <2>1, <3>1
  <2>4. QED
    BY <1>11, <2>2, <2>3 DEF Check
<1>12. CASE Read
  <2>1. rx' = rx /\ job' = job /\ main.pc = "read"
    BY <1>12 DEF Read
  <2>2. main'.pc = "store" /\ main'.sel = main.sel /\ main'.pos = main.pos
    BY <1>b, <1>12 DEF Read, Mains
  <2>3. QED
    BY <1>c, <2>1, <2>2
<1>13. CASE Store
  <2>1. job' = job /\ main'.pc = "start"
    BY <1>b, <1>13 DEF Store, Mains
  <2>2. rx' = [ongoing |-> rx.ongoing, sel |-> rx.sel, pos |-> main.pos + 1, nb |-> rx.nb]
    BY <1>b, <1>13 DEF Store, Stored, Statics
  <2>3. main.pos = rx.pos /\ rx.pos < rx.nb[rx.sel]
    BY <1>c, <1>13 DEF Store, Available
  <2>4. rx.pos + 1 <= rx.nb[rx.sel]
    BY <1>b, <2>3, Sizes DEF Statics
  <2>5. QED
    BY <1>c, <2>1, <2>2, <2>3, <2>4
<1>14. CASE Start
  <2>1. job' = job /\ rx' = Swapped(rx) /\ main.pc = "start"
    BY <1>14 DEF Start
  <2>2. rx'.pos <= rx'.nb[rx'.sel]
    BY <1>b, <1>c, <2>1, SwapApart
  <2>3. CASE RxFree(rx)
    <3>1. main'.pc = "arm" /\ main'.trans = rx.sel /\ ~rx.ongoing
      BY <1>b, <1>14, <2>3 DEF Start, Mains, RxFree
    <3>2. rx'.ongoing /\ rx.sel = Other(rx'.sel)
      BY <1>b, <1>c, <2>1, <2>3, SwappedType, SwapApart
    <3>3. QED
      BY <1>c, <2>1, <2>2, <3>1, <3>2
  <2>4. CASE ~RxFree(rx)
    <3>1. rx' = rx
      BY <1>b, <2>1, <2>4, SwappedType
    <3>2. main'.pc \in {"poll", "check"}
      BY <1>b, <1>14, <2>4, FinishedType DEF Start
    <3>3. QED
      BY <1>c, <2>1, <3>1, <3>2
  <2>5. QED
    BY <2>3, <2>4
<1>15. CASE Arm
  <2>1. rx' = rx /\ main.pc = "arm" /\ main.trans \in Buffers
    BY <1>b, <1>15 DEF Arm, Mains
  <2>2. job'.busy => job'.target = main.trans
    BY <1>b, <1>c, <1>15, <2>1, RunType DEF Arm
  <2>3. main'.pc \in {"poll", "check"}
    BY <1>b, <1>15, FinishedType DEF Arm
  <2>4. QED
    BY <1>c, <2>1, <2>2, <2>3
<1>16. CASE UNCHANGED vars
  BY <1>c, <1>16 DEF vars
<1>17. QED
  BY <1>1, <1>2, <1>3, <1>4, <1>5, <1>7, <1>8, <1>9, <1>10, <1>11, <1>12,
     <1>13, <1>14, <1>15, <1>16 DEF Next, MainLoop

\* Out of a stale state there is one way, a restart outside udi_cdc_getc().
LEMMA StaleStep ==
  ASSUME TypeInv, [Next]_vars, ~stale'
  PROVE  ~stale \/ (Enable /\ ~Midst)
<1>1. stale \in BOOLEAN
  BY DEF TypeInv, TypeOK
<1>2. CASE Enable
  BY <1>2 DEF Enable
<1>3. CASE ~Enable
  BY <1>1, <1>3 DEF Next, MainLoop, Send, DmaMove, DataReceived, Disable, SetHalt, ClearHalt,
                    Reallocate, Poll, Check, Read, Store, Start, Arm, vars
<1>4. QED
  BY <1>2, <1>3

LEMMA QuietApart ==
  TypeInv /\ (~stale => ApartInv) /\ [Next]_vars => TypeInv' /\ (~stale' => ApartInv')
<1> SUFFICES ASSUME TypeInv, ~stale => ApartInv, [Next]_vars
             PROVE  TypeInv' /\ (~stale' => ApartInv')
  OBVIOUS
<1>1. TypeInv'
  BY TypeStep
<1>2. ASSUME ~stale' PROVE ApartInv'
  <2>1. CASE ~stale
    BY <1>2, <2>1, ApartStep
  <2>2. CASE Enable /\ ~Midst
    BY <2>2, EnableApart
  <2>3. QED
    BY <1>2, <2>1, <2>2, StaleStep
<1>3. QED
  BY <1>1, <1>2

LEMMA QuietInv == Spec => [](~stale => ApartInv)
<1>1. Init => TypeInv /\ (~stale => ApartInv)
  BY TypeInit, ApartInit
<1>2. QED
  BY <1>1, QuietApart, PTL DEF Spec

\* But for a restart in the midst of udi_cdc_getc(), until the next one outside it,
\* the DMA never writes the buffer being read, and no interrupt invalidates the
\* position udi_cdc_getc() holds between its check and its store.
THEOREM AlwaysApart == Spec => []ReaderAndDmaApart
<1>1. (~stale => ApartInv) => ReaderAndDmaApart
  BY DEF ApartInv, ReaderAndDmaApart
<1>2. QED
  BY <1>1, QuietInv, PTL

\* But for the same restarts the count of received bytes never wraps, and
\* udi_cdc_is_rx_ready() says "ready" only when a byte is.
THEOREM ReadyIsTrue == Spec => [](~stale => ReadyMeansByte)
<1>1. ApartInv => ReadyMeansByte
  <2>1. SUFFICES ASSUME ApartInv, Ready
                 PROVE  Available(rx)
    BY DEF ReadyMeansByte
  <2>2. rx \in Statics
    BY <2>1 DEF ApartInv, TypeInv, TypeOK, Statics
  <2>3. rx.pos \in Nat /\ rx.nb[rx.sel] \in Nat
    BY <2>2, Sizes DEF Statics
  <2>4. QED
    BY <2>1, <2>3 DEF ApartInv, Ready, Available
<1>2. (~stale => ApartInv) => (~stale => ReadyMeansByte)
  BY <1>1
<1>3. QED
  BY <1>2, QuietInv, PTL

-----------------------------------------------------------------------------
(* Packets laid end to end                                                 *)

\* Induction on the natural numbers: 0 is in T, and with n also n + 1.
LEMMA Induction ==
  ASSUME NEW T, 0 \in T, \A n \in Nat : n \in T => n + 1 \in T
  PROVE  Nat \subseteq T
<1> DEFINE U == Nat \ T
           R == OpToRel(<, Nat)
<1>1. SUFFICES ASSUME U # {} PROVE FALSE
  OBVIOUS
<1>2. IsWellFoundedOn(R, Nat)
  BY NatLessThanWellFounded
<1>3. U \subseteq Nat
  OBVIOUS
<1>4. PICK x \in U : \A y \in U : ~ (<<y, x>> \in R)
  <2> HIDE DEF U, R
  <2> QED
    BY <1>1, <1>2, <1>3, WFMin
<1>5. \A y \in Nat : y < x => <<y, x>> \in R
  BY DEF OpToRel
<1> HIDE DEF R
<1>6. x # 0 /\ x - 1 \in Nat /\ x - 1 < x
  OBVIOUS
<1>7. x - 1 \in T
  BY <1>4, <1>5, <1>6
<1> QED
  BY <1>6, <1>7

\* f joins the first i packets of s, for every i up to n.
Joins(f, s, n) ==
  f = [i \in 1 .. n |-> IF i = 1 THEN s[i] ELSE f[i - 1] \o s[i]]

LEMMA JoinsExist ==
  ASSUME NEW s, NEW n \in Nat
  PROVE  \E f : Joins(f, s, n)
<1> DEFINE T == {k \in Nat : \E f : Joins(f, s, k)}
<1>1. 0 \in T
  <2>1. Joins([i \in 1 .. 0 |-> s], s, 0)
    BY DEF Joins
  <2> QED
    BY <2>1
<1>2. ASSUME NEW k \in Nat, k \in T
      PROVE  k + 1 \in T
  <2>1. PICK f : Joins(f, s, k)
    BY <1>2
  <2> DEFINE g == [i \in 1 .. k + 1 |->
                     IF i = 1 THEN s[i]
                     ELSE (IF i = k + 1 THEN f[k] ELSE f[i - 1]) \o s[i]]
  <2>2. \A i \in 1 .. k + 1 : g[i] = IF i = 1 THEN s[i] ELSE f[i - 1] \o s[i]
    OBVIOUS
  <2>3. \A i \in 1 .. k : f[i] = IF i = 1 THEN s[i] ELSE f[i - 1] \o s[i]
    BY <2>1 DEF Joins
  <2>4. \A i \in 1 .. k : g[i] = f[i]
    <3> HIDE DEF g
    <3> QED
      BY <2>2, <2>3
  <2>5. \A i \in 1 .. k + 1 : g[i] = IF i = 1 THEN s[i] ELSE g[i - 1] \o s[i]
    <3> HIDE DEF g
    <3> QED
      BY <2>2, <2>4
  <2>6. g = [i \in 1 .. k + 1 |-> g[i]]
    OBVIOUS
  <2>7. Joins(g, s, k + 1)
    <3> HIDE DEF g
    <3> QED
      BY <2>5, <2>6 DEF Joins
  <2> QED
    BY <2>7
<1> HIDE DEF T
<1>3. Nat \subseteq T
  BY <1>1, <1>2, Induction
<1> QED
  BY <1>3 DEF T

\* A packet more leaves what was joined before.
LEMMA JoinsAgree ==
  ASSUME NEW s, NEW t, NEW f, NEW g, NEW n \in Nat, NEW m, m = n + 1,
         Joins(f, s, n), Joins(g, t, m), \A i \in 1 .. n : t[i] = s[i]
  PROVE  \A i \in 1 .. n : f[i] = g[i]
<1> DEFINE T == {i \in Nat : i \in 1 .. n => f[i] = g[i]}
<1>1. /\ \A i \in 1 .. n : f[i] = IF i = 1 THEN s[i] ELSE f[i - 1] \o s[i]
      /\ \A i \in 1 .. n + 1 : g[i] = IF i = 1 THEN t[i] ELSE g[i - 1] \o t[i]
  BY DEF Joins
<1>2. 0 \in T
  OBVIOUS
<1>3. ASSUME NEW i \in Nat, i \in T
      PROVE  i + 1 \in T
  <2> SUFFICES ASSUME i + 1 \in 1 .. n
               PROVE  f[i + 1] = g[i + 1]
    OBVIOUS
  <2>1. /\ f[i + 1] = IF i + 1 = 1 THEN s[i + 1] ELSE f[i] \o s[i + 1]
        /\ g[i + 1] = IF i + 1 = 1 THEN t[i + 1] ELSE g[i] \o t[i + 1]
    BY <1>1
  <2>2. i + 1 # 1 => f[i] = g[i]
    BY <1>3
  <2> QED
    BY <2>1, <2>2
<1> HIDE DEF T
<1>4. Nat \subseteq T
  BY <1>2, <1>3, Induction
<1> QED
  BY <1>4 DEF T

LEMMA FlattenIs ==
  ASSUME NEW s, NEW n \in Nat \ {0}, Len(s) = n
  PROVE  \E f : Joins(f, s, n) /\ FlattenSeq(s) = f[n]
<1> DEFINE f == CHOOSE f : Joins(f, s, Len(s))
<1>1. Joins(f, s, Len(s))
  BY JoinsExist
<1>2. FlattenSeq(s) = f[Len(s)]
  BY Zenon DEF FlattenSeq, Joins
<1> QED
  BY <1>1, <1>2

LEMMA FlattenEmpty == FlattenSeq(<<>>) = <<>>
  BY DEF FlattenSeq

LEMMA Associative ==
  ASSUME NEW a \in Seq(Byte), NEW b \in Seq(Byte), NEW c \in Seq(Byte)
  PROVE  (a \o b) \o c = a \o (b \o c)
  BY ConcatAssociative

LEMMA FlattenAppend ==
  ASSUME NEW s \in Seq(Seq(Byte)), NEW p \in Seq(Byte)
  PROVE  FlattenSeq(Append(s, p)) = FlattenSeq(s) \o p
<1> DEFINE t == Append(s, p)
           n == Len(s)
<1>1. /\ n \in Nat /\ Len(t) = n + 1 /\ t[n + 1] = p
      /\ \A i \in 1 .. n : t[i] = s[i]
  BY AppendProperties, LenProperties
<1> HIDE DEF t
<1>2. PICK g : Joins(g, t, n + 1) /\ FlattenSeq(t) = g[n + 1]
  BY <1>1, FlattenIs
<1>3. g[n + 1] = IF n + 1 = 1 THEN t[n + 1] ELSE g[n] \o t[n + 1]
  <2>1. \A i \in 1 .. n + 1 : g[i] = IF i = 1 THEN t[i] ELSE g[i - 1] \o t[i]
    BY <1>2 DEF Joins
  <2>2. n + 1 \in 1 .. n + 1 /\ (n + 1) - 1 = n
    BY <1>1
  <2> HIDE DEF n
  <2> QED
    BY <1>1, <2>1, <2>2
<1>4. CASE n = 0
  <2>1. FlattenSeq(s) = <<>>
    BY <1>4, FlattenEmpty, EmptySeq
  <2>2. g[n + 1] = p /\ <<>> \o p = p
    BY <1>1, <1>3, <1>4, ConcatEmptySeq
  <2> QED
    BY <1>2, <2>1, <2>2 DEF t
<1>5. CASE n # 0
  <2>1. PICK f : Joins(f, s, n) /\ FlattenSeq(s) = f[n]
    BY <1>1, <1>5, FlattenIs
  <2>2. f[n] = g[n]
    <3> HIDE DEF n
    <3>1. /\ n \in Nat /\ Joins(f, s, n) /\ Joins(g, t, n + 1)
          /\ \A i \in 1 .. n : t[i] = s[i]
      BY <1>1, <1>2, <2>1
    <3>2. \A i \in 1 .. n : f[i] = g[i]
      BY <3>1, JoinsAgree
    <3> QED
      BY <1>1, <1>5, <3>2
  <2>3. g[n + 1] = g[n] \o p
    BY <1>1, <1>3, <1>5
  <2> QED
    BY <1>2, <2>1, <2>2, <2>3 DEF t
<1> QED
  BY <1>4, <1>5

LEMMA LastApart ==
  ASSUME NEW u \in Seq(Seq(Byte)), NEW n \in Nat, Len(u) = n + 1
  PROVE  \E v \in Seq(Seq(Byte)), p \in Seq(Byte) : u = Append(v, p)
<1> DEFINE S == Seq(Byte)
<1> HIDE DEF S
<1>1. u \in Seq(S) /\ u # <<>>
  BY EmptySeq DEF S
<1>2. \E v \in Seq(S), p \in S : u = Append(v, p)
  BY <1>1, SequenceEmptyOrAppend
<1> QED
  BY <1>2 DEF S

LEMMA FlattenType ==
  ASSUME NEW s \in Seq(Seq(Byte))
  PROVE  FlattenSeq(s) \in Seq(Byte)
<1> DEFINE T == {n \in Nat : \A u \in Seq(Seq(Byte)) :
                               Len(u) = n => FlattenSeq(u) \in Seq(Byte)}
<1>1. 0 \in T
  BY FlattenEmpty, EmptySeq
<1>2. ASSUME NEW n \in Nat, n \in T
      PROVE  n + 1 \in T
  <2> SUFFICES ASSUME NEW u \in Seq(Seq(Byte)), Len(u) = n + 1
               PROVE  FlattenSeq(u) \in Seq(Byte)
    OBVIOUS
  <2>1. PICK v \in Seq(Seq(Byte)), p \in Seq(Byte) : u = Append(v, p)
    BY LastApart
  <2>2. Len(v) \in Nat /\ Len(u) = Len(v) + 1
    BY <2>1, AppendProperties, LenProperties
  <2>3. FlattenSeq(v) \in Seq(Byte)
    BY <1>2, <2>2
  <2> QED
    BY <2>1, <2>3, FlattenAppend, ConcatProperties
<1> HIDE DEF T
<1>3. Nat \subseteq T
  BY <1>1, <1>2, Induction
<1> QED
  BY <1>3, LenProperties DEF T

LEMMA FlattenHead ==
  ASSUME NEW s \in Seq(Seq(Byte)), s # <<>>
  PROVE  FlattenSeq(s) = Head(s) \o FlattenSeq(Tail(s))
<1> DEFINE T == {n \in Nat : \A u \in Seq(Seq(Byte)) :
                   Len(u) = n /\ u # <<>> =>
                     FlattenSeq(u) = Head(u) \o FlattenSeq(Tail(u))}
<1>1. 0 \in T
  BY EmptySeq
<1>2. ASSUME NEW n \in Nat, n \in T
      PROVE  n + 1 \in T
  <2> SUFFICES ASSUME NEW u \in Seq(Seq(Byte)), Len(u) = n + 1
               PROVE  FlattenSeq(u) = Head(u) \o FlattenSeq(Tail(u))
    OBVIOUS
  <2>1. PICK v \in Seq(Seq(Byte)), p \in Seq(Byte) : u = Append(v, p)
    BY LastApart
  <2>2. Len(v) \in Nat /\ Len(u) = Len(v) + 1
    BY <2>1, AppendProperties, LenProperties
  <2>3. /\ Head(u) = IF v = <<>> THEN p ELSE Head(v)
        /\ Tail(u) = IF v = <<>> THEN <<>> ELSE Append(Tail(v), p)
    BY <2>1, HeadTailAppend
  <2>4. FlattenSeq(u) = FlattenSeq(v) \o p
    BY <2>1, FlattenAppend
  <2>5. CASE v = <<>>
    BY <2>3, <2>4, <2>5, FlattenEmpty, ConcatEmptySeq
  <2>6. CASE v # <<>>
    <3>1. FlattenSeq(v) = Head(v) \o FlattenSeq(Tail(v))
      BY <1>2, <2>2, <2>6
    <3>2. Head(v) \in Seq(Byte) /\ Tail(v) \in Seq(Seq(Byte))
      BY <2>6, HeadTailProperties
    <3>3. FlattenSeq(Tail(v)) \in Seq(Byte)
      BY <3>2, FlattenType
    <3>4. FlattenSeq(Tail(u)) = FlattenSeq(Tail(v)) \o p
      BY <2>3, <2>6, <3>2, FlattenAppend
    <3> DEFINE h == Head(v)
               r == FlattenSeq(Tail(v))
    <3> HIDE DEF h, r
    <3>5. h \in Seq(Byte) /\ r \in Seq(Byte)
      BY <3>2, <3>3 DEF h, r
    <3>6. (h \o r) \o p = h \o (r \o p)
      BY <3>5, Associative
    <3> QED
      BY <2>3, <2>4, <2>6, <3>1, <3>4, <3>6 DEF h, r
  <2> QED
    BY <2>5, <2>6
<1> HIDE DEF T
<1>3. Nat \subseteq T
  BY <1>1, <1>2, Induction
<1> QED
  BY <1>3, LenProperties DEF T

-----------------------------------------------------------------------------
(* The port as a queue                                                     *)

\* Bytes from .. to - 1 of the contents of a buffer.
Bytes(c, from, to) == [i \in 1 .. to - from |-> c[from + i - 1]]

\* What the statics s hold of buffers b for the application.
Held(s, b) ==
  Bytes(b[s.sel], s.pos, s.nb[s.sel])
  \o (IF s.ongoing THEN <<>> ELSE Bytes(b[Other(s.sel)], 0, s.nb[Other(s.sel)]))

\* What a transfer has brought.
Moved(j, b) == IF j.busy THEN Bytes(b[j.target], 0, j.fill) ELSE <<>>

Contents == [Offsets -> Byte]

LEMMA PipeIs ==
  /\ Pipe = IF ep = "stuck" THEN <<>>
            ELSE Held(rx, buf) \o Moved(job, buf) \o FlattenSeq(line)
  /\ Pipe' = IF ep' = "stuck" THEN <<>>
             ELSE Held(rx', buf') \o Moved(job', buf') \o FlattenSeq(line')
BY DEF Pipe, Held, Moved, Bytes, Unread

LEMMA BytesType ==
  ASSUME NEW c \in Contents, NEW from \in Nat, NEW to \in Nat, to <= BufSize
  PROVE  /\ Bytes(c, from, to) \in Seq(Byte)
         /\ from <= to => Len(Bytes(c, from, to)) = to - from
         /\ to <= from => Bytes(c, from, to) = <<>>
<1>1. \A i \in 1 .. to - from : c[from + i - 1] \in Byte
  BY Sizes DEF Contents, Offsets
<1>2. CASE from <= to
  <2>1. to - from \in Nat
    BY <1>2
  <2>2. Bytes(c, from, to) \in Seq(Byte) /\ Len(Bytes(c, from, to)) = to - from
    BY <1>1, <2>1 DEF Bytes
  <2>3. to <= from => Bytes(c, from, to) = <<>>
    BY <2>1, <2>2, EmptySeq
  <2>4. QED
    BY <2>2, <2>3
<1>3. CASE to < from
  <2>1. 1 .. to - from = {}
    BY <1>3
  <2>2. Bytes(c, from, to) = <<>>
    BY <2>1 DEF Bytes
  <2>3. QED
    BY <1>3, <2>2, EmptySeq
<1>4. QED
  BY <1>2, <1>3

LEMMA BytesFirst ==
  ASSUME NEW c \in Contents, NEW from \in Nat, NEW to \in Nat, from < to, to <= BufSize
  PROVE  Bytes(c, from, to) = <<c[from]>> \o Bytes(c, from + 1, to)
<1> DEFINE l == Bytes(c, from, to)
           r == Bytes(c, from + 1, to)
<1>1. /\ l \in Seq(Byte) /\ Len(l) = to - from
      /\ r \in Seq(Byte) /\ Len(r) = to - (from + 1)
  <2>1. from + 1 \in Nat /\ from <= to /\ from + 1 <= to
    OBVIOUS
  <2>2. QED
    BY <2>1, BytesType, Zenon
<1>2. c[from] \in Byte /\ <<c[from]>> \in Seq(Byte) /\ Len(<<c[from]>>) = 1
  BY Sizes DEF Contents, Offsets
<1>3. \A i \in 1 .. to - from : l[i] = c[from + i - 1]
  BY DEF Bytes
<1>4. \A i \in 1 .. to - from - 1 : r[i] = c[from + i]
  BY DEF Bytes
<1> HIDE DEF l, r
<1> DEFINE m == <<c[from]>> \o r
<1>5. /\ m \in Seq(Byte) /\ Len(m) = to - from
      /\ \A i \in 1 .. to - from : m[i] = IF i <= 1 THEN c[from] ELSE r[i - 1]
  BY <1>1, <1>2, ConcatProperties
<1>6. \A i \in 1 .. to - from : l[i] = m[i]
  <2> HIDE DEF m
  <2>1. QED
    BY <1>3, <1>4, <1>5
<1> HIDE DEF m
<1>7. l = m
  BY <1>1, <1>5, <1>6, SeqEqual
<1>8. QED
  BY <1>7 DEF l, m, r

\* A packet p that goes behind the first f bytes.
LEMMA BytesMore ==
  ASSUME NEW c \in Contents, NEW d \in Contents, NEW f \in Nat, NEW p \in Seq(Byte),
         f + Len(p) <= BufSize,
         \A i \in Offsets : d[i] = IF i \in f .. f + Len(p) - 1 THEN p[i - f + 1] ELSE c[i]
  PROVE  Bytes(d, 0, f + Len(p)) = Bytes(c, 0, f) \o p
<1> DEFINE n == Len(p)
           l == Bytes(d, 0, f + n)
           r == Bytes(c, 0, f)
           m == r \o p
<1>1. n \in Nat
  BY LenProperties
<1>2. /\ l \in Seq(Byte) /\ Len(l) = f + n
      /\ r \in Seq(Byte) /\ Len(r) = f
  <2> HIDE DEF n
  <2>1. f + n \in Nat /\ f <= BufSize /\ f + n <= BufSize
    BY <1>1, Sizes DEF n
  <2>2. 0 \in Nat /\ 0 <= f /\ 0 <= f + n /\ f - 0 = f /\ (f + n) - 0 = f + n
    BY <2>1
  <2>3. /\ l \in Seq(Byte) /\ Len(l) = (f + n) - 0
        /\ r \in Seq(Byte) /\ Len(r) = f - 0
    BY <2>1, <2>2, BytesType, Zenon
  <2>4. QED
    BY <2>2, <2>3, Zenon
<1>3. \A i \in 1 .. f + n : l[i] = d[i - 1]
  BY DEF Bytes
<1>4. \A i \in 1 .. f : r[i] = c[i - 1]
  BY DEF Bytes
<1>5. \A i \in 1 .. f + n : i - 1 \in Offsets
  BY <1>1, Sizes DEF Offsets
<1> HIDE DEF l, r
<1>6. /\ m \in Seq(Byte) /\ Len(m) = f + n
      /\ \A i \in 1 .. f + n : m[i] = IF i <= f THEN r[i] ELSE p[i - f]
  BY <1>2, ConcatProperties
<1> HIDE DEF m
<1>7. ASSUME NEW i \in 1 .. f + n
      PROVE  l[i] = m[i]
  <2>1. l[i] = IF i - 1 \in f .. f + n - 1 THEN p[i - 1 - f + 1] ELSE c[i - 1]
    BY <1>3, <1>5
  <2>2. i - 1 \in f .. f + n - 1 <=> ~(i <= f)
    BY <1>1
  <2>3. i - 1 - f + 1 = i - f
    OBVIOUS
  <2>4. QED
    BY <1>4, <1>6, <2>1, <2>2, <2>3
<1>8. l = m
  BY <1>2, <1>6, <1>7, SeqEqual
<1>9. QED
  BY <1>8 DEF l, m, r

LEMMA HeldType ==
  ASSUME NEW s \in Statics, NEW b \in [Buffers -> Contents]
  PROVE  Held(s, b) \in Seq(Byte)
<1>1. s.sel \in Buffers /\ Other(s.sel) \in Buffers
  BY OtherBuffer DEF Statics
<1>2. /\ b[s.sel] \in Contents /\ b[Other(s.sel)] \in Contents
      /\ s.pos \in Nat /\ 0 \in Nat
      /\ s.nb[s.sel] \in Nat /\ s.nb[s.sel] <= BufSize
      /\ s.nb[Other(s.sel)] \in Nat /\ s.nb[Other(s.sel)] <= BufSize
  BY <1>1, Sizes DEF Statics
<1>3. /\ Bytes(b[s.sel], s.pos, s.nb[s.sel]) \in Seq(Byte)
      /\ Bytes(b[Other(s.sel)], 0, s.nb[Other(s.sel)]) \in Seq(Byte)
  BY <1>2, BytesType, Zenon
<1>4. QED
  BY <1>3, ConcatProperties, EmptySeq DEF Held

LEMMA MovedType ==
  ASSUME NEW j \in Job, NEW b \in [Buffers -> Contents]
  PROVE  Moved(j, b) \in Seq(Byte) /\ (j.busy /\ j.fill = 0 => Moved(j, b) = <<>>)
<1>1. 0 \in Nat /\ b[j.target] \in Contents /\ j.fill \in Nat /\ j.fill <= BufSize
  BY Sizes DEF Job
<1>2. /\ Bytes(b[j.target], 0, j.fill) \in Seq(Byte)
      /\ j.fill <= 0 => Bytes(b[j.target], 0, j.fill) = <<>>
  BY <1>1, BytesType, Zenon
<1>3. QED
  BY <1>2, EmptySeq DEF Moved

\* A transfer that starts has brought nothing.
LEMMA RunMoved ==
  ASSUME NEW t, NEW e, NEW j \in Job, ~j.busy, NEW b \in [Buffers -> Contents], t \in Buffers
  PROVE  Moved(Run(t, e, j), b) = <<>>
<1>1. Run(t, e, j) \in Job /\ (Run(t, e, j).busy => Run(t, e, j).fill = 0)
  BY RunType DEF Run
<1>2. QED
  BY <1>1, MovedType DEF Moved

\* A swap changes nothing of what is held.
LEMMA SwapHolds ==
  ASSUME NEW s \in Statics, NEW b \in [Buffers -> Contents]
  PROVE  Held(Swapped(s), b) = Held(s, b)
<1>1. CASE ~RxFree(s)
  BY <1>1, SwappedType
<1>2. CASE RxFree(s)
  <2> DEFINE o == Other(s.sel)
             t == Swapped(s)
             x == Bytes(b[o], 0, s.nb[o])
  <2>1. /\ s.sel \in Buffers /\ o \in Buffers /\ s.pos \in Nat
        /\ s.nb[s.sel] \in 0 .. BufSize /\ s.nb[o] \in 0 .. BufSize
    BY OtherBuffer, Sizes DEF Statics
  <2>2. t.sel = o /\ t.pos = 0 /\ t.nb = s.nb /\ t.ongoing = TRUE /\ s.ongoing = FALSE
    BY <1>2 DEF Swapped, RxFree, Statics
  <2>3. Bytes(b[s.sel], s.pos, s.nb[s.sel]) = <<>> /\ x \in Seq(Byte)
    <3>1. /\ b[s.sel] \in Contents /\ s.nb[s.sel] <= s.pos
          /\ s.nb[s.sel] \in Nat /\ s.nb[s.sel] <= BufSize
          /\ b[o] \in Contents /\ 0 \in Nat /\ s.nb[o] \in Nat /\ s.nb[o] <= BufSize
      BY <1>2, <2>1, Sizes DEF RxFree
    <3>2. QED
      BY <2>1, <3>1, BytesType, Zenon
  <2> HIDE DEF t, o
  <2>4. Held(s, b) = <<>> \o x /\ Held(t, b) = x \o <<>>
    BY <2>2, <2>3 DEF Held, o
  <2> HIDE DEF x
  <2>5. Held(s, b) = Held(t, b)
    BY <2>3, <2>4, ConcatEmptySeq
  <2>6. QED
    BY <2>5 DEF t
<1>3. QED
  BY <1>1, <1>2

\* The end of a transfer hands over what it brought.
LEMMA ReceivedHolds ==
  ASSUME NEW s \in Statics, s.ongoing, NEW n \in 0 .. BufSize, NEW b \in [Buffers -> Contents]
  PROVE  Held(Received(s, n), b) = Held(s, b) \o Bytes(b[Other(s.sel)], 0, n)
<1> DEFINE o == Other(s.sel)
           t == Received(s, n)
           y == Bytes(b[s.sel], s.pos, s.nb[s.sel])
<1>1. /\ s.sel \in Buffers /\ o \in Buffers /\ o # s.sel
      /\ b[s.sel] \in Contents /\ s.pos \in Nat /\ s.nb[s.sel] \in 0 .. BufSize
  BY OtherBuffer, Sizes DEF Statics
<1>2. /\ t.sel = s.sel /\ t.pos = s.pos /\ t.ongoing = FALSE
      /\ t.nb[s.sel] = s.nb[s.sel] /\ t.nb[o] = n
  BY <1>1, ReceivedType DEF Received, Statics
<1>3. y \in Seq(Byte)
  <2>1. s.nb[s.sel] \in Nat /\ s.nb[s.sel] <= BufSize
    BY <1>1, Sizes
  <2>2. QED
    BY <1>1, <2>1, BytesType, Zenon
<1> HIDE DEF t, o
<1>4. /\ Held(t, b) = y \o Bytes(b[o], 0, n)
      /\ Held(s, b) = y \o <<>>
  BY <1>2 DEF Held, o
<1> HIDE DEF y
<1>5. Held(s, b) = y
  BY <1>3, <1>4, ConcatEmptySeq
<1>6. QED
  BY <1>4, <1>5 DEF t, o

-----------------------------------------------------------------------------
(* Every step of the port is a step of the queue, or none                  *)

Moves == Fifo!Next \/ UNCHANGED Fifo!fifoVars

LEMMA Splits ==
  ASSUME NEW h \in Seq(Byte), NEW r \in Seq(Byte)
  PROVE  /\ h \o r \in Seq(Byte) /\ Len(h \o r) = Len(h) + Len(r)
         /\ Len(h) \in 0 .. Len(h \o r)
         /\ SubSeq(h \o r, 1, Len(h)) = h
         /\ SubSeq(h \o r, Len(h) + 1, Len(h \o r)) = r
<1> DEFINE s == h \o r
           n == Len(h)
           m == Len(r)
           a == SubSeq(s, 1, n)
           b == SubSeq(s, n + 1, n + m)
<1>1. /\ n \in Nat /\ m \in Nat /\ s \in Seq(Byte) /\ Len(s) = n + m
      /\ \A i \in 1 .. n + m : s[i] = IF i <= n THEN h[i] ELSE r[i - n]
  BY ConcatProperties, LenProperties
<1>2. \A i \in 1 .. n + m : s[i] \in Byte
  BY <1>1, ElementOfSeq
<1> HIDE DEF s
<1>3. a \in Seq(Byte) /\ Len(a) = n /\ \A i \in 1 .. n : a[i] = s[i]
  <2> HIDE DEF n, m
  <2>1. \A i \in 1 .. n : s[i] \in Byte
    BY <1>1, <1>2
  <2>2. /\ a \in Seq(Byte) /\ Len(a) = IF 1 <= n THEN n - 1 + 1 ELSE 0
        /\ \A i \in 1 .. n - 1 + 1 : a[i] = s[1 + i - 1]
    BY <1>1, <2>1, SubSeqProperties
  <2> HIDE DEF a
  <2>3. QED
    BY <1>1, <2>2
<1>4. b \in Seq(Byte) /\ Len(b) = m /\ \A i \in 1 .. m : b[i] = s[n + i]
  <2> HIDE DEF n, m
  <2>1. \A i \in n + 1 .. n + m : s[i] \in Byte
    BY <1>1, <1>2
  <2> DEFINE i == n + 1
             j == n + m
  <2>2. i \in Int /\ j \in Int /\ j - i + 1 = m /\ (i <= j <=> 1 <= m)
    BY <1>1
  <2> HIDE DEF i, j
  <2>3. /\ b \in Seq(Byte) /\ Len(b) = IF i <= j THEN j - i + 1 ELSE 0
        /\ \A k \in 1 .. j - i + 1 : b[k] = s[i + k - 1]
    BY <2>1, <2>2, SubSeqProperties DEF i, j
  <2> HIDE DEF b
  <2>4. Len(b) = m
    <3>1. CASE m = 0
      BY <1>1, <2>2, <2>3, <3>1
    <3>2. CASE 1 <= m
      BY <1>1, <2>2, <2>3, <3>2
    <3>3. QED
      BY <1>1, <3>1, <3>2
  <2>5. ASSUME NEW k \in 1 .. m
        PROVE  b[k] = s[n + k]
    <3>1. b[k] = s[i + k - 1]
      BY <1>1, <2>2, <2>3
    <3>2. i + k - 1 = n + k
      BY <1>1 DEF i
    <3>3. QED
      BY <3>1, <3>2
  <2>6. QED
    BY <2>3, <2>4, <2>5
<1> HIDE DEF a, b
<1>5. a = h
  BY <1>1, <1>3, SeqEqual
<1>6. b = r
  <2>1. ASSUME NEW i \in 1 .. m
        PROVE  b[i] = r[i]
    <3> HIDE DEF n, m
    <3>1. n + i \in 1 .. n + m /\ ~(n + i <= n) /\ (n + i) - n = i
      BY <1>1
    <3>2. s[n + i] = r[i]
      BY <1>1, <3>1
    <3>3. QED
      BY <1>4, <3>2
  <2>2. QED
    BY <1>4, <2>1, SeqEqual
<1>7. QED
  BY <1>1, <1>5, <1>6 DEF a, b, s

LEMMA MoveNone ==
  ASSUME Pipe' = Pipe, main'.got = main.got, epoch' = epoch
  PROVE  Moves
BY DEF Moves, Fifo!fifoVars

LEMMA MoveCut ==
  ASSUME NEW h \in Seq(Byte), NEW r \in Seq(Byte), Pipe = h \o r, Pipe' = h,
         main'.got = main.got, epoch' = 1 - epoch
  PROVE  Moves
<1>1. \E k \in 0 .. Len(Pipe) : Pipe' = SubSeq(Pipe, 1, k)
  <2>1. Len(h) \in 0 .. Len(Pipe) /\ Pipe' = SubSeq(Pipe, 1, Len(h))
    BY Splits
  <2>2. QED
    BY <2>1
<1>2. QED
  BY <1>1 DEF Moves, Fifo!Next, Fifo!Cut

LEMMA MoveTake ==
  ASSUME NEW v \in Byte, NEW r \in Seq(Byte), Pipe = <<v>> \o r, Pipe' = r,
         main'.got = v, epoch' = epoch
  PROVE  Moves
<1>1. <<v>> \in Seq(Byte) /\ Len(<<v>>) = 1 /\ Len(r) \in Nat
  BY LenProperties
<1>2. /\ Len(Pipe) = 1 + Len(r)
      /\ SubSeq(Pipe, 1, 1) = <<v>>
      /\ SubSeq(Pipe, 1 + 1, Len(Pipe)) = r
  BY <1>1, Splits
<1>3. 1 \in 1 .. Len(Pipe)
  BY <1>1, <1>2
<1>4. Fifo!Take
  BY <1>2, <1>3 DEF Fifo!Take
<1>5. QED
  BY <1>4 DEF Moves, Fifo!Next

LEMMA MoveAccept ==
  ASSUME NEW n \in 1 .. PacketSize, NEW c \in [1 .. n -> Byte], Pipe' = Pipe \o c,
         main'.got = main.got, epoch' = epoch
  PROVE  Moves
<1>1. c \in Fifo!Chunk
  BY DEF Fifo!Chunk
<1>2. Fifo!Accept
  BY <1>1 DEF Fifo!Accept
<1>3. QED
  BY <1>2 DEF Moves, Fifo!Next

\* At "store" the byte read is still where it was read.
ReadAhead == main.pc = "store" => main.val = buf[main.sel][main.pos]

QueueInv == ApartInv /\ ReadAhead

LEMMA ReadAheadStep ==
  QueueInv /\ [Next]_vars => ReadAhead'
<1> SUFFICES ASSUME QueueInv, [Next]_vars, main'.pc = "store"
             PROVE  main'.val = buf'[main'.sel][main'.pos]
  BY DEF ReadAhead
<1>a. /\ rx \in Statics /\ job \in Job /\ main \in Mains
      /\ buf \in [Buffers -> Contents]
  BY DEF QueueInv, ApartInv, TypeInv, TypeOK, Statics, Job, Mains, Contents
<1>b. /\ job.busy => job.target = Other(rx.sel)
      /\ main.pc = "store" => main.sel = rx.sel /\ main.val = buf[main.sel][main.pos]
  BY DEF QueueInv, ApartInv, Apart, ReadAhead
<1>c. rx.sel \in Buffers /\ Other(rx.sel) # rx.sel
  BY <1>a, OtherBuffer DEF Statics
<1>1. CASE DmaMove
  <2>1. job.busy /\ main' = main
    BY <1>1 DEF DmaMove
  <2>2. buf'[rx.sel] = buf[rx.sel]
    BY <1>a, <1>b, <1>c, <1>1, <2>1 DEF DmaMove
  <2>3. QED
    BY <1>b, <2>1, <2>2
<1>2. CASE Read
  <2>1. /\ main'.val = buf[main.sel][main.pos]
        /\ main'.sel = main.sel /\ main'.pos = main.pos /\ buf' = buf
    BY <1>a, <1>2 DEF Read, Mains
  <2>2. QED
    BY <2>1
<1>3. CASE Poll \/ Check \/ Store \/ Start \/ Arm
  <2>1. main'.pc # "store"
    <3>1. CASE Poll
      BY <1>a, <3>1 DEF Poll, Mains
    <3>2. CASE Check
      <4>1. Idle(main.got).pc = "poll"
        BY DEF Idle
      <4>2. CASE main' = [main EXCEPT !.pc = "read", !.pos = rx.pos, !.sel = rx.sel]
        BY <1>a, <4>2 DEF Mains
      <4>3. QED
        BY <3>2, <4>1, <4>2 DEF Check
    <3>3. CASE Store
      BY <1>a, <3>3 DEF Store, Mains
    <3>4. CASE Start
      <4>1. Finished(main).pc \in {"poll", "check"}
        BY <1>a, FinishedType
      <4>2. RxFree(rx) => main'.pc = "arm"
        BY <1>a, <3>4 DEF Start, Mains
      <4>3. QED
        BY <3>4, <4>1, <4>2 DEF Start
    <3>5. CASE Arm
      <4>1. Finished(main).pc \in {"poll", "check"}
        BY <1>a, FinishedType
      <4>2. QED
        BY <3>5, <4>1 DEF Arm
    <3>6. QED
      BY <1>3, <3>1, <3>2, <3>3, <3>4, <3>5
  <2>2. QED
    BY <2>1
<1>4. CASE main' = main /\ buf' = buf
  BY <1>b, <1>4
<1>5. QED
  BY <1>1, <1>2, <1>3, <1>4
     DEF Next, MainLoop, Send, DataReceived, Disable, Enable, SetHalt,
         ClearHalt, Reallocate, vars

LEMMA PipeParts ==
  ASSUME TypeInv
  PROVE  /\ rx \in Statics /\ job \in Job /\ buf \in [Buffers -> Contents]
         /\ main \in Mains
         /\ line \in Seq(Seq(Byte)) /\ FlattenSeq(line) \in Seq(Byte)
         /\ Held(rx, buf) \in Seq(Byte) /\ Moved(job, buf) \in Seq(Byte)
<1>1. /\ rx \in Statics /\ job \in Job /\ buf \in [Buffers -> Contents]
      /\ main \in Mains /\ line \in Seq(Packets)
  BY DEF TypeInv, TypeOK, Statics, Job, Contents, Mains
<1>2. Packets \subseteq Seq(Byte)
  BY Sizes DEF Packets
<1>3. line \in Seq(Seq(Byte))
  <2>1. Len(line) \in Nat /\ line \in [1 .. Len(line) -> Packets]
    BY <1>1, LenProperties
  <2>2. line \in [1 .. Len(line) -> Seq(Byte)]
    BY <1>2, <2>1
  <2>3. QED
    BY <2>1, <2>2, SeqDef
<1>4. QED
  BY <1>1, <1>3, FlattenType, HeldType, MovedType

\* The host takes the endpoint: what its banks and the transfer hold is gone.
LEMMA CutMoves ==
  ASSUME TypeInv, ep # "stuck", main' = main, epoch' = 1 - epoch,
         ep' # "stuck" => Held(rx', buf') \in {<<>>, Held(rx, buf)}
                          /\ Moved(job', buf') = <<>> /\ line' = <<>>
  PROVE  Moves
<1> DEFINE h == Held(rx, buf)
           m == Moved(job, buf)
           f == FlattenSeq(line)
<1>1. h \in Seq(Byte) /\ m \in Seq(Byte) /\ f \in Seq(Byte) /\ <<>> \in Seq(Byte)
  BY PipeParts, EmptySeq
<1>2. Pipe = h \o m \o f
  BY PipeIs
<1> HIDE DEF h, m, f
<1>3. m \o f \in Seq(Byte) /\ Pipe = h \o (m \o f)
  BY <1>1, <1>2, Associative, ConcatProperties
<1>4. Pipe \in Seq(Byte) /\ Pipe = <<>> \o Pipe
  BY <1>1, <1>3, ConcatProperties, ConcatEmptySeq
<1>5. Pipe' \in {<<>>, h}
  <2>1. CASE ep' = "stuck"
    BY <2>1, PipeIs
  <2>2. CASE ep' # "stuck"
    <3>1. Pipe' = Held(rx', buf') \o <<>> \o <<>>
      BY <2>2, PipeIs, FlattenEmpty
    <3>2. Held(rx', buf') \in {<<>>, h}
      BY <2>2 DEF h
    <3>3. QED
      BY <1>1, <3>1, <3>2, ConcatEmptySeq
  <2>3. QED
    BY <2>1, <2>2
<1>6. main'.got = main.got
  OBVIOUS
<1>7. CASE Pipe' = <<>>
  BY <1>1, <1>4, <1>6, <1>7, MoveCut
<1>8. CASE Pipe' = h
  BY <1>1, <1>3, <1>6, <1>8, MoveCut
<1>9. QED
  BY <1>5, <1>7, <1>8

-----------------------------------------------------------------------------
(* The steps                                                               *)

LEMMA SendMoves ==
  ASSUME TypeInv, NEW n \in 0 .. PacketSize, Send(n)
  PROVE  Moves
<1> DEFINE p == [i \in 1 .. n |-> Number(i - 1)]
           h == Held(rx, buf) \o Moved(job, buf)
           f == FlattenSeq(line)
<1>1. h \in Seq(Byte) /\ f \in Seq(Byte) /\ line \in Seq(Seq(Byte))
  BY PipeParts, ConcatProperties
<1>2. p \in [1 .. n -> Byte] /\ p \in Seq(Byte)
  <2>1. next \in Byte
    BY DEF TypeInv, TypeOK
  <2>2. \A i \in 1 .. n : i - 1 \in Int
    OBVIOUS
  <2>3. \A i \in 1 .. n : p[i] \in Byte
    BY <2>1, <2>2, NumberType
  <2>4. p \in [1 .. n -> Byte]
    BY <2>3
  <2> HIDE DEF p
  <2>5. n \in Nat
    BY Sizes
  <2>6. QED
    BY <2>4, <2>5
<1>3. FlattenSeq(line') = f \o p
  BY <1>1, <1>2, FlattenAppend DEF Send
<1>4. ep # "stuck" /\ ep' = ep /\ rx' = rx /\ buf' = buf /\ job' = job
      /\ main' = main /\ epoch' = epoch
  BY DEF Send
<1>5. Pipe = h \o f /\ Pipe' = h \o (f \o p)
  BY <1>3, <1>4, PipeIs
<1> HIDE DEF h, f, p
<1>6. Pipe' = Pipe \o p
  BY <1>1, <1>2, <1>5, Associative
<1>7. CASE n = 0
  <2>1. p = <<>>
    BY <1>2, <1>7, EmptySeq
  <2>2. Pipe' = Pipe
    BY <1>1, <1>5, <1>6, <2>1, ConcatProperties, ConcatEmptySeq
  <2>3. QED
    BY <1>4, <2>2, MoveNone
<1>8. CASE n # 0
  <2>1. n \in 1 .. PacketSize
    BY <1>8, Sizes
  <2>2. QED
    BY <1>2, <1>4, <1>6, <2>1, MoveAccept
<1>9. QED
  BY <1>7, <1>8

LEMMA DmaMoves ==
  ASSUME ApartInv, ep # "stuck", DmaMove
  PROVE  Moves
<1> DEFINE p == Head(line)
           t == job.target
           d == buf'[t]
           h == Held(rx, buf)
           m == Bytes(buf[t], 0, job.fill)
           f == FlattenSeq(Tail(line))
<1>1. TypeInv /\ FillOK
  BY DEF ApartInv, TypeInv
<1>2. /\ rx \in Statics /\ job \in Job /\ buf \in [Buffers -> Contents]
      /\ line \in Seq(Seq(Byte)) /\ h \in Seq(Byte)
      /\ line \in Seq(Packets)
  BY <1>1, PipeParts DEF TypeInv, TypeOK
<1>3. /\ job.busy /\ ~job.ended /\ line # <<>> /\ rx' = rx /\ ep' = ep
      /\ main' = main /\ epoch' = epoch /\ line' = Tail(line)
  BY DEF DmaMove
<1>4. rx.ongoing /\ t = Other(rx.sel) /\ t # rx.sel /\ t \in Buffers /\ rx.sel \in Buffers
  BY <1>2, <1>3, OtherBuffer DEF ApartInv, Apart, Statics
<1>5. p \in Seq(Byte) /\ Len(p) \in Nat /\ Len(p) <= PacketSize
  <2>1. p \in Packets /\ p \in Seq(Byte)
    BY <1>2, <1>3, HeadTailProperties
  <2>2. PICK n \in 0 .. PacketSize : p \in [1 .. n -> Byte]
    BY <2>1 DEF Packets
  <2> HIDE DEF p
  <2>3. Len(p) = n
    BY <2>1, <2>2, Sizes
  <2>4. QED
    BY <2>1, <2>3, Sizes
<1>6. job.fill \in Nat /\ job.fill + Len(p) <= BufSize
  <2>1. job.fill \in Nat /\ job.fill < BufSize /\ Packeted(job.fill)
    BY <1>1, <1>2, <1>3, Sizes DEF FillOK, Job
  <2>2. job.fill + PacketSize <= BufSize
    BY <2>1, FillFits
  <2>3. QED
    BY <1>5, <2>1, <2>2, Sizes
<1>7. /\ job'.busy /\ job'.target = t /\ job'.fill = job.fill + Len(p)
  BY <1>2, <1>3 DEF DmaMove, Job
<1>8. /\ d = [i \in Offsets |-> IF i \in job.fill .. job.fill + Len(p) - 1
                                THEN p[i - job.fill + 1] ELSE buf[t][i]]
      /\ buf'[rx.sel] = buf[rx.sel]
  BY <1>2, <1>4 DEF DmaMove
<1>9. d \in Contents
  <2>1. TypeInv'
    BY <1>1, TypeStep DEF Next
  <2>2. buf' \in [Buffers -> Contents]
    BY <2>1 DEF TypeInv, TypeOK, Contents
  <2>3. QED
    BY <1>4, <2>2
<1>10. Bytes(d, 0, job.fill + Len(p)) = m \o p
  <2>1. buf[t] \in Contents
    BY <1>2, <1>4
  <2>2. \A i \in Offsets : d[i] = IF i \in job.fill .. job.fill + Len(p) - 1
                                  THEN p[i - job.fill + 1] ELSE buf[t][i]
    BY <1>8
  <2> HIDE DEF d, p, t
  <2>3. QED
    BY <1>5, <1>6, <1>9, <2>1, <2>2, BytesMore
<1>11. Moved(job, buf) = m /\ Moved(job', buf') = m \o p
  BY <1>3, <1>7, <1>10 DEF Moved
<1>12. Held(rx', buf') = h
  BY <1>3, <1>4, <1>8 DEF Held
<1>13. FlattenSeq(line) = p \o f
  BY <1>2, <1>3, FlattenHead
<1>14. m \in Seq(Byte) /\ f \in Seq(Byte)
  <2>1. m \in Seq(Byte)
    BY <1>2, <1>11, MovedType
  <2>2. Tail(line) \in Seq(Seq(Byte))
    BY <1>2, <1>3, HeadTailProperties
  <2>3. QED
    BY <2>1, <2>2, FlattenType
<1>15. Pipe = (h \o m) \o (p \o f) /\ Pipe' = (h \o (m \o p)) \o f
  BY <1>3, <1>11, <1>12, <1>13, PipeIs
<1> HIDE DEF h, m, p, f
<1>16. (h \o m) \o (p \o f) = (h \o (m \o p)) \o f
  <2>1. h \o m \in Seq(Byte) /\ m \o p \in Seq(Byte)
    BY <1>2, <1>5, <1>14, ConcatProperties
  <2>2. ((h \o m) \o p) \o f = (h \o m) \o (p \o f)
    BY <1>5, <1>14, <2>1, Associative
  <2>3. (h \o m) \o p = h \o (m \o p)
    BY <1>2, <1>5, <1>14, Associative
  <2>4. QED
    BY <2>2, <2>3
<1>17. QED
  BY <1>3, <1>15, <1>16, MoveNone

LEMMA ReceivedMoves ==
  ASSUME ApartInv, ep # "stuck", DataReceived
  PROVE  Moves
<1> DEFINE s == Received(rx, job.fill)
<1>1. TypeInv
  BY DEF ApartInv
<1>2. /\ rx \in Statics /\ job \in Job /\ buf \in [Buffers -> Contents]
      /\ Held(rx, buf) \in Seq(Byte) /\ Moved(job, buf) \in Seq(Byte)
  BY <1>1, PipeParts
<1>3. /\ job.busy /\ buf' = buf /\ ep' = ep /\ line' = line /\ main' = main
      /\ epoch' = epoch
  BY DEF DataReceived
<1>4. rx.ongoing /\ job.target = Other(rx.sel) /\ rx.sel \in Buffers
      /\ Other(rx.sel) \in Buffers /\ job.fill \in 0 .. BufSize
  BY <1>2, <1>3, OtherBuffer DEF ApartInv, Apart, Statics, Job
<1>5. NoJob \in Job /\ ~NoJob.busy
  BY NoJobType
<1>6. Held(rx', buf') \o Moved(job', buf') = Held(rx, buf) \o Moved(job, buf)
  <2>1. CASE job.fill = 0
    <3>1. rx' = rx /\ job' = Run(Other(rx.sel), ep, NoJob)
      BY <2>1 DEF DataReceived, EmptyAgain
    <3>2. Moved(job', buf') = <<>>
      BY <1>2, <1>3, <1>4, <1>5, <3>1, RunMoved
    <3>3. Moved(job, buf) = <<>>
      BY <1>2, <1>3, <2>1, MovedType
    <3>4. QED
      BY <1>3, <3>1, <3>2, <3>3
  <2>2. CASE job.fill # 0
    <3>1. s \in Statics /\ s.sel = rx.sel
      BY <1>2, <1>4, ReceivedType
    <3>2. rx' = Swapped(s) /\ job' \in {Run(s.sel, ep, NoJob), NoJob}
      BY <2>2 DEF DataReceived
    <3>3. Moved(job', buf') = <<>>
      <4>1. Moved(Run(s.sel, ep, NoJob), buf) = <<>>
        BY <1>2, <1>4, <1>5, <3>1, RunMoved
      <4>2. Moved(NoJob, buf) = <<>>
        BY <1>5 DEF Moved
      <4>3. QED
        BY <1>3, <3>2, <4>1, <4>2
    <3>4. Held(rx', buf') = Held(rx, buf) \o Bytes(buf[Other(rx.sel)], 0, job.fill)
      BY <1>2, <1>3, <1>4, <3>1, <3>2, SwapHolds, ReceivedHolds
    <3>5. Moved(job, buf) = Bytes(buf[Other(rx.sel)], 0, job.fill)
      BY <1>3, <1>4 DEF Moved
    <3>6. Held(rx', buf') \in Seq(Byte)
      BY <1>2, <3>4, <3>5, ConcatProperties
    <3>7. QED
      BY <3>3, <3>4, <3>5, <3>6, ConcatEmptySeq
  <2>3. QED
    BY <2>1, <2>2
<1>7. Pipe' = Pipe
  BY <1>3, <1>6, PipeIs
<1>8. QED
  BY <1>3, <1>7, MoveNone

LEMMA HostMoves ==
  ASSUME ApartInv, Disable \/ Enable
                   \/ SetHalt \/ Reallocate
  PROVE  Moves
<1>1. TypeInv
  BY DEF ApartInv
<1>2. job \in Job /\ buf \in [Buffers -> Contents]
  BY <1>1, PipeParts
<1>3. NoJob \in Job /\ ~NoJob.busy /\ Moved(NoJob, buf) = <<>>
  BY NoJobType DEF Moved
<1>4. CASE Disable
  <2>1. rx' = rx /\ buf' = buf /\ job' = NoJob /\ line' = <<>>
    BY <1>4 DEF Disable
  <2>2. ep # "stuck" /\ main' = main /\ epoch' = 1 - epoch
    BY <1>4 DEF Disable
  <2>3. QED
    BY <1>1, <1>3, <2>1, <2>2, CutMoves
<1>5. CASE Enable
  <2>1. /\ rx' = Swapped(Fresh) /\ buf' = buf /\ line' = <<>>
        /\ job' = Run(Fresh.sel, "on", NoJob)
    BY <1>5 DEF Enable
  <2>2. ep # "stuck" /\ main' = main /\ epoch' = 1 - epoch
    BY <1>5 DEF Enable
  <2>3. Fresh \in Statics /\ Fresh.sel \in Buffers
    BY FreshType DEF Fresh
  <2>4. Moved(job', buf') = <<>>
    BY <1>2, <1>3, <2>1, <2>3, RunMoved
  <2>5. Held(rx', buf') = Held(Fresh, buf)
    BY <1>2, <2>1, <2>3, SwapHolds
  <2>6. Held(Fresh, buf) = Bytes(buf[0], 0, 0) \o Bytes(buf[1], 0, 0)
    BY DEF Held, Fresh, Other
  <2>7. Bytes(buf[0], 0, 0) = <<>> /\ Bytes(buf[1], 0, 0) = <<>>
    BY <1>2, BytesType, Sizes
  <2>8. Held(rx', buf') = <<>>
    BY <2>5, <2>6, <2>7, EmptySeq, ConcatEmptySeq
  <2>9. QED
    BY <1>1, <2>1, <2>2, <2>4, <2>8, CutMoves
<1>6. CASE SetHalt
  <2>1. rx' = rx /\ buf' = buf /\ job' = NoJob /\ line' = <<>>
    BY <1>6 DEF SetHalt
  <2>2. ep # "stuck" /\ main' = main /\ epoch' = 1 - epoch
    BY <1>6 DEF SetHalt
  <2>3. QED
    BY <1>1, <1>3, <2>1, <2>2, CutMoves
<1>7. CASE Reallocate
  <2>1. rx' = rx /\ buf' = buf /\ line' = <<>>
    BY <1>7 DEF Reallocate
  <2>2. ep # "stuck" /\ main' = main /\ epoch' = 1 - epoch
    BY <1>7 DEF Reallocate
  <2>3. Moved(job', buf') = <<>>
    <3>1. CASE job.busy
      <4>1. job' = Run(job.target, ep, NoJob) /\ job.target \in Buffers
        BY <1>2, <1>7, <3>1 DEF Reallocate, Job
      <4>2. QED
        BY <1>2, <1>3, <2>1, <4>1, RunMoved
    <3>2. CASE ~job.busy
      BY <1>7, <3>2 DEF Reallocate, Moved
    <3>3. QED
      BY <3>1, <3>2
  <2>4. QED
    BY <1>1, <2>1, <2>2, <2>3, CutMoves
<1>8. QED
  BY <1>4, <1>5, <1>6, <1>7

\* udi_cdc_getc() takes the oldest byte.
LEMMA StoreMoves ==
  ASSUME QueueInv, ep # "stuck", Store
  PROVE  Moves
<1> DEFINE c == buf[rx.sel]
           n == rx.nb[rx.sel]
           v == c[rx.pos]
           r == Bytes(c, rx.pos + 1, n)
           o == IF rx.ongoing THEN <<>>
                ELSE Bytes(buf[Other(rx.sel)], 0, rx.nb[Other(rx.sel)])
           m == Moved(job, buf)
           f == FlattenSeq(line)
<1>1. TypeInv
  BY DEF QueueInv, ApartInv
<1>2. /\ rx \in Statics /\ job \in Job /\ buf \in [Buffers -> Contents] /\ main \in Mains
      /\ m \in Seq(Byte) /\ f \in Seq(Byte) /\ Held(rx, buf) \in Seq(Byte)
  BY <1>1, PipeParts
<1>3. /\ main.sel = rx.sel /\ main.pos = rx.pos /\ rx.pos < n /\ main.val = v
  BY DEF QueueInv, ApartInv, Apart, ReadAhead, Store, Available
<1>4. /\ rx' = [ongoing |-> rx.ongoing, sel |-> rx.sel, pos |-> rx.pos + 1, nb |-> rx.nb]
      /\ buf' = buf /\ job' = job /\ line' = line /\ ep' = ep /\ epoch' = epoch
      /\ main'.got = v
  BY <1>2, <1>3 DEF Store, Stored, Statics, Mains
<1>5. /\ rx.sel \in Buffers /\ c \in Contents /\ rx.pos \in Nat /\ n \in Nat /\ n <= BufSize
  BY <1>2, Sizes DEF Statics
<1>6. /\ Bytes(c, rx.pos, n) = <<v>> \o r
      /\ r \in Seq(Byte)
  <2>1. rx.pos + 1 \in Nat
    BY <1>5
  <2>2. Bytes(c, rx.pos, n) = <<v>> \o r
    <3> HIDE DEF c, n
    <3>1. QED
      BY <1>3, <1>5, BytesFirst
  <2>3. r \in Seq(Byte)
    <3> HIDE DEF c, n
    <3>1. QED
      BY <1>5, <2>1, BytesType, Zenon
  <2>4. QED
    BY <2>2, <2>3
<1>7. o \in Seq(Byte)
  <2>1. Other(rx.sel) \in Buffers
    BY <1>5, OtherBuffer
  <2>2. /\ buf[Other(rx.sel)] \in Contents /\ 0 \in Nat
        /\ rx.nb[Other(rx.sel)] \in Nat /\ rx.nb[Other(rx.sel)] <= BufSize
    BY <1>2, <2>1, Sizes DEF Statics
  <2>3. Bytes(buf[Other(rx.sel)], 0, rx.nb[Other(rx.sel)]) \in Seq(Byte)
    BY <2>2, BytesType, Zenon
  <2>4. QED
    BY <2>3, EmptySeq
<1>8. v \in Byte /\ <<v>> \in Seq(Byte)
  <2>1. rx.pos \in Offsets
    BY <1>3, <1>5, Sizes DEF Offsets
  <2>2. QED
    BY <1>5, <2>1 DEF Contents
<1>9. Held(rx, buf) = (<<v>> \o r) \o o /\ Held(rx', buf') = r \o o
  <2>1. Held(rx, buf) = (<<v>> \o r) \o o
    BY <1>6 DEF Held
  <2>2. /\ rx'.sel = rx.sel /\ rx'.pos = rx.pos + 1 /\ rx'.nb = rx.nb
        /\ rx'.ongoing = rx.ongoing
    BY <1>4
  <2>3. Held(rx', buf') = r \o o
    BY <1>4, <2>2 DEF Held
  <2>4. QED
    BY <2>1, <2>3
<1>10. Moved(job', buf') = m /\ FlattenSeq(line') = f
  BY <1>4
<1>11. Pipe = (((<<v>> \o r) \o o) \o m) \o f /\ Pipe' = ((r \o o) \o m) \o f
  BY <1>4, <1>9, <1>10, PipeIs
<1> HIDE DEF r, o, m, f, v
<1> DEFINE x == r \o o
           y == x \o m
<1>12. x \in Seq(Byte) /\ y \in Seq(Byte) /\ y \o f \in Seq(Byte)
  BY <1>2, <1>6, <1>7, ConcatProperties
<1>13. (<<v>> \o r) \o o = <<v>> \o x
  BY <1>6, <1>7, <1>8, Associative
<1>14. (<<v>> \o x) \o m = <<v>> \o y
  <2> HIDE DEF x
  <2>1. QED
    BY <1>2, <1>8, <1>12, Associative DEF y
<1>15. (<<v>> \o y) \o f = <<v>> \o (y \o f)
  <2> HIDE DEF y
  <2>1. QED
    BY <1>2, <1>8, <1>12, Associative
<1>16. Pipe = <<v>> \o (y \o f) /\ Pipe' = y \o f
  BY <1>11, <1>13, <1>14, <1>15
<1> HIDE DEF x, y
<1>17. QED
  BY <1>4, <1>8, <1>12, <1>16, MoveTake

LEMMA LoopMoves ==
  ASSUME ApartInv, ep # "stuck", Poll \/ Check \/ Read \/ Start \/ Arm
  PROVE  Moves
<1>1. TypeInv
  BY DEF ApartInv
<1>2. /\ rx \in Statics /\ job \in Job /\ buf \in [Buffers -> Contents] /\ main \in Mains
  BY <1>1, PipeParts
<1>3. buf' = buf /\ line' = line /\ ep' = ep /\ epoch' = epoch
  BY DEF Poll, Check, Read, Start, Arm
<1>4. Finished(main).got = main.got
  BY <1>2 DEF Finished, Idle, Mains
<1>5. main'.got = main.got
  <2>1. CASE Poll
    BY <1>2, <2>1 DEF Poll, Mains
  <2>2. CASE Check
    <3>1. Idle(main.got).got = main.got
      BY DEF Idle
    <3>2. CASE main' = [main EXCEPT !.pc = "read", !.pos = rx.pos, !.sel = rx.sel]
      BY <1>2, <3>2 DEF Mains
    <3>3. QED
      BY <2>2, <3>1, <3>2 DEF Check
  <2>3. CASE Read
    BY <1>2, <2>3 DEF Read, Mains
  <2>4. CASE Start
    <3>1. RxFree(rx) => main'.got = main.got
      BY <1>2, <2>4 DEF Start, Mains
    <3>2. QED
      BY <1>4, <2>4, <3>1 DEF Start
  <2>5. CASE Arm
    BY <1>4, <2>5 DEF Arm
  <2>6. QED
    BY <2>1, <2>2, <2>3, <2>4, <2>5
<1>6. Held(rx', buf') = Held(rx, buf)
  <2>1. CASE Start
    BY <1>2, <1>3, <2>1, SwapHolds DEF Start
  <2>2. CASE rx' = rx
    BY <1>3, <2>2
  <2>3. QED
    BY <2>1, <2>2 DEF Poll, Check, Read, Arm
<1>7. Moved(job', buf') = Moved(job, buf)
  <2>1. CASE Arm
    <3>1. ~job.busy /\ main.trans \in Buffers
      BY <1>2, <2>1 DEF ApartInv, ArmingApart, Arm, Mains
    <3>2. Moved(job', buf') = <<>>
      BY <1>2, <1>3, <2>1, <3>1, RunMoved DEF Arm
    <3>3. QED
      BY <3>1, <3>2 DEF Moved
  <2>2. CASE job' = job
    BY <1>3, <2>2
  <2>3. QED
    BY <2>1, <2>2 DEF Poll, Check, Read, Start
<1>8. Pipe' = Pipe
  BY <1>3, <1>6, <1>7, PipeIs
<1>9. QED
  BY <1>3, <1>5, <1>8, MoveNone

LEMMA QueueStep ==
  ASSUME QueueInv, [Next]_vars
  PROVE  Moves
<1>1. ApartInv /\ TypeInv
  BY DEF QueueInv, ApartInv
<1>2. CASE ep = "stuck"
  <2>1. /\ ep' = "stuck" /\ main' = main /\ epoch' = epoch
    BY <1>2 DEF Next, MainLoop, Send, DmaMove, DataReceived, Disable, Enable,
                SetHalt, ClearHalt, Reallocate, vars
  <2>2. QED
    BY <1>2, <2>1, PipeIs, MoveNone
<1>3. CASE ep # "stuck"
  <2>1. CASE \E n \in 0 .. PacketSize : Send(n)
    BY <1>1, <2>1, SendMoves
  <2>2. CASE DmaMove
    BY <1>1, <1>3, <2>2, DmaMoves
  <2>3. CASE DataReceived
    BY <1>1, <1>3, <2>3, ReceivedMoves
  <2>4. CASE Disable \/ Enable
             \/ SetHalt \/ Reallocate
    BY <1>1, <2>4, HostMoves
  <2>5. CASE ClearHalt \/ UNCHANGED vars
    <3>1. /\ rx' = rx /\ buf' = buf /\ job' = job /\ line' = line /\ main' = main
          /\ epoch' = epoch /\ ep' # "stuck"
      BY <1>3, <2>5 DEF ClearHalt, vars
    <3>2. QED
      BY <1>3, <3>1, PipeIs, MoveNone
  <2>6. CASE Store
    BY <1>3, <2>6, StoreMoves
  <2>7. CASE Poll \/ Check \/ Read \/ Start \/ Arm
    BY <1>1, <1>3, <2>7, LoopMoves
  <2>8. QED
    BY <2>1, <2>2, <2>3, <2>4, <2>5, <2>6, <2>7 DEF Next, MainLoop
<1>4. QED
  BY <1>2, <1>3

LEMMA QueueInit == Init => QueueInv /\ Fifo!Init
<1> SUFFICES ASSUME Init
             PROVE  QueueInv /\ Fifo!Init
  OBVIOUS
<1>1. QueueInv
  BY ApartInit DEF QueueInv, ReadAhead, Init, Idle
<1>2. TypeInv /\ buf \in [Buffers -> Contents]
  BY <1>1, PipeParts DEF QueueInv, ApartInv
<1>3. Held(rx, buf) = Bytes(buf[0], 0, 0) \o Bytes(buf[1], 0, 0)
  BY DEF Held, Init, Fresh, Other
<1>4. Bytes(buf[0], 0, 0) = <<>> /\ Bytes(buf[1], 0, 0) = <<>>
  BY <1>2, BytesType, Sizes
<1>5. Moved(job, buf) = <<>> /\ FlattenSeq(line) = <<>> /\ ep # "stuck"
  BY FlattenEmpty DEF Init, Moved
<1>6. Pipe = <<>>
  BY <1>3, <1>4, <1>5, PipeIs, EmptySeq, ConcatEmptySeq
<1>7. main.got \in Byte /\ epoch = 0
  BY Sizes DEF Init, Idle, Byte
<1>8. QED
  BY <1>1, <1>6, <1>7 DEF Fifo!Init

\* The two buffers, the DMA and the two contexts that arm it are one queue: bytes
\* come out of udi_cdc_getc() once each, in the order the device acknowledged
\* them, and only the host's own halting, stopping or restarting the endpoint
\* takes bytes away - those that came last.  A restart in the midst of
\* udi_cdc_getc() suspends this until the next one outside it.
THEOREM PortIsFifo == Spec => IsFifo
<1> DEFINE Q == TypeInv /\ (~stale => QueueInv)
<1>1. Q /\ [Next]_vars => Q'
  <2> SUFFICES ASSUME Q, [Next]_vars
               PROVE  Q'
    OBVIOUS
  <2>1. TypeInv'
    BY TypeStep
  <2>2. ASSUME ~stale' PROVE QueueInv'
    <3>1. CASE ~stale
      BY <2>2, <3>1, ApartStep, ReadAheadStep DEF QueueInv
    <3>2. CASE Enable /\ ~Midst
      BY <3>2, EnableApart DEF QueueInv, ReadAhead
    <3>3. QED
      BY <2>2, <3>1, <3>2, StaleStep
  <2>3. QED
    BY <2>1, <2>2
<1>2. Q /\ [Next]_vars => [stale \/ Fifo!Next]_(Fifo!fifoVars)
  BY QueueStep DEF Moves
<1>3. Init => Q /\ Fifo!Init
  BY TypeInit, QueueInit
<1>4. QED
  BY <1>1, <1>2, <1>3, PTL DEF Spec, IsFifo
=============================================================================
