---------------------------- MODULE CdcTxProofs ----------------------------
(***************************************************************************)
(* Proofs about CdcTx, for every packet and buffer size, number of banks,  *)
(* of frames and of byte values.                                           *)
(***************************************************************************)
EXTENDS CdcTx, SequenceTheorems, WellFoundedInduction, TLAPS

Statics == [ongoing : BOOLEAN, both : BOOLEAN, sel : Buffers, sof : 0 .. Frames - 1,
            idle : 0 .. ZlpWait - 1, buf : [Buffers -> Strings(BufSize)]]

Job == [busy : BOOLEAN, src : Buffers, size : 0 .. BufSize, at : 0 .. BufSize,
        zlp : BOOLEAN]

\* SenderAndWriterApart for given statics and job.
Apart(s, j) ==
  /\ j.busy => /\ s.ongoing /\ j.src = Other(s.sel)
               /\ j.size = Len(s.buf[j.src])
  /\ s.buf[Other(s.sel)] # <<>> =>
       \/ s.ongoing
       \/ s.both /\ Len(s.buf[Other(s.sel)]) = BufSize

\* The DMA is within the transfer.
Within(j) == j.busy => j.at <= j.size

\* The application found room, and still has it whatever came between.
HasRoom(s, m) == m.pc = "store" => Len(s.buf[s.sel]) < BufSize /\ m.left > 0

Working == main.pc # "idle" => main.left > 0

Inv == /\ TypeOK /\ Apart(tx, job) /\ Within(job)
       /\ HasRoom(tx, main) /\ Working

-----------------------------------------------------------------------------
(* Constants and strings                                                   *)

LEMMA Sizes ==
  /\ PacketSize \in Nat /\ 0 < PacketSize
  /\ BufSize \in Nat /\ 0 < BufSize
  /\ Banks \in Nat /\ ZlpWait \in Nat /\ 0 < ZlpWait
  /\ Frames \in Nat /\ 0 < Frames
  /\ ByteValues \in Nat /\ 0 < ByteValues
  /\ MaxWrite \in Nat
BY CdcTxAssumption

LEMMA OtherBuffer ==
  ASSUME NEW b \in Buffers
  PROVE  Other(b) \in Buffers /\ Other(b) # b /\ Other(Other(b)) = b
BY DEF Other, Buffers

LEMMA StringIs ==
  ASSUME NEW n \in Nat, NEW s
  PROVE  s \in Strings(n) <=> s \in Seq(Byte) /\ Len(s) <= n
<1>1. ASSUME s \in Strings(n) PROVE s \in Seq(Byte) /\ Len(s) <= n
  <2>1. PICK k \in 0 .. n : s \in [1 .. k -> Byte]
    BY <1>1 DEF Strings
  <2>2. s \in Seq(Byte) /\ Len(s) = k
    BY <2>1
  <2>3. QED
    BY <2>2
<1>2. ASSUME s \in Seq(Byte), Len(s) <= n PROVE s \in Strings(n)
  <2>1. Len(s) \in Nat /\ s \in [1 .. Len(s) -> Byte]
    BY <1>2, LenProperties
  <2>2. Len(s) \in 0 .. n
    BY <1>2, <2>1
  <2>3. QED
    BY <2>1, <2>2 DEF Strings
<1>3. QED
  BY <1>1, <1>2

LEMMA EmptyString ==
  ASSUME NEW n \in Nat
  PROVE  <<>> \in Strings(n)
<1>1. <<>> \in Seq(Byte) /\ Len(<<>>) = 0
  BY EmptySeq
<1>2. Len(<<>>) <= n
  BY <1>1
<1>3. QED
  BY <1>1, <1>2, StringIs

LEMMA StringLen ==
  ASSUME NEW n \in Nat, NEW s \in Strings(n)
  PROVE  Len(s) \in 0 .. n
<1>1. s \in Seq(Byte) /\ Len(s) <= n
  BY StringIs
<1>2. Len(s) \in Nat
  BY <1>1, LenProperties
<1>3. QED
  BY <1>1, <1>2

LEMMA Substring ==
  ASSUME NEW n \in Nat, NEW s \in Strings(n), NEW a \in Nat, NEW b \in Nat,
         a <= b, b <= Len(s)
  PROVE  SubSeq(s, a + 1, b) \in Strings(b - a)
<1>1. s \in Seq(Byte)
  BY StringIs
<1>2. \A i \in a + 1 .. b : s[i] \in Byte
  <2> TAKE i \in a + 1 .. b
  <2>1. Len(s) \in Nat
    BY <1>1, LenProperties
  <2>2. i \in 1 .. Len(s)
    BY <2>1
  <2>3. QED
    BY <1>1, <2>2, ElementOfSeq
<1>3. /\ SubSeq(s, a + 1, b) \in Seq(Byte)
      /\ Len(SubSeq(s, a + 1, b)) = IF a + 1 <= b THEN b - (a + 1) + 1 ELSE 0
  BY <1>2, SubSeqProperties
<1>4. Len(SubSeq(s, a + 1, b)) <= b - a
  BY <1>3
<1>5. b - a \in Nat
  OBVIOUS
<1>6. QED
  BY <1>3, <1>4, <1>5, StringIs

LEMMA LongerString ==
  ASSUME NEW n \in Nat, NEW m \in Nat, m <= n, NEW s \in Strings(m)
  PROVE  s \in Strings(n)
<1>1. s \in Seq(Byte) /\ Len(s) \in 0 .. m
  BY StringIs, StringLen
<1>2. Len(s) <= n
  BY <1>1
<1>3. QED
  BY <1>1, <1>2, StringIs

LEMMA RunIs ==
  ASSUME NEW n \in Nat, next \in Byte
  PROVE  Run(n) \in Seq(Byte) /\ Len(Run(n)) = n
<1>1. \A i \in 1 .. n : (next + i - 1) % ByteValues \in Byte
  BY Sizes DEF Byte
<1>2. QED
  BY <1>1 DEF Run

-----------------------------------------------------------------------------
(* udi_cdc_tx_send()                                                       *)

LEMMA NoJobType == NoJob \in Job /\ NoJob.busy = FALSE
BY Sizes DEF NoJob, Job, Buffers

LEMMA ArmedIs ==
  ASSUME NEW e, NEW j \in Job, NEW src \in Buffers, NEW bytes \in Strings(BufSize)
  PROVE  /\ Armed(e, j, src, bytes) \in Job
         /\ \/ Armed(e, j, src, bytes) = j
            \/ /\ Armed(e, j, src, bytes).busy = TRUE
               /\ Armed(e, j, src, bytes).src = src
               /\ Armed(e, j, src, bytes).size = Len(bytes)
               /\ Armed(e, j, src, bytes).at = 0
<1>1. Len(bytes) \in 0 .. BufSize
  BY Sizes, StringLen
<1>2. CASE e = "on" /\ ~j.busy
  <2> DEFINE z == Len(bytes) # BufSize /\ Len(bytes) % PacketSize = 0
  <2>1. z \in BOOLEAN
    OBVIOUS
  <2>2. Armed(e, j, src, bytes) =
          [busy |-> TRUE, src |-> src, size |-> Len(bytes), at |-> 0, zlp |-> z]
    BY <1>2 DEF Armed
  <2> HIDE DEF z
  <2>3. QED
    BY <1>1, <2>1, <2>2, Sizes DEF Job
<1>3. CASE ~(e = "on" /\ ~j.busy)
  BY <1>3 DEF Armed
<1>4. QED
  BY <1>2, <1>3

LEMMA ChosenIs ==
  ASSUME NEW s \in Statics
  PROVE  /\ Chosen(s).sel \in Buffers
         /\ Chosen(s).src = Other(Chosen(s).sel)
         /\ s.both => Chosen(s).sel = s.sel
         /\ ~s.both => Chosen(s).sel = Other(s.sel)
<1>1. s.sel \in Buffers
  BY DEF Statics
<1>2. QED
  BY <1>1, OtherBuffer DEF Chosen

Sending(s, b, d) == [s EXCEPT !.idle = 0, !.sel = b, !.ongoing = TRUE, !.sof = d]

LEMMA SendingIs ==
  ASSUME NEW s \in Statics, NEW b \in Buffers, NEW d \in 0 .. Frames - 1
  PROVE  /\ Sending(s, b, d) \in Statics
         /\ Sending(s, b, d).ongoing = TRUE /\ Sending(s, b, d).sel = b
         /\ Sending(s, b, d).buf = s.buf
<1> DEFINE u == [s EXCEPT !.idle = 0, !.sel = b]
           v == [u EXCEPT !.ongoing = TRUE, !.sof = d]
<1>1. 0 \in 0 .. ZlpWait - 1
  BY Sizes
<1>2. u \in Statics /\ u.sel = b /\ u.buf = s.buf
  BY <1>1 DEF Statics
<1>3. v \in Statics /\ v.ongoing = TRUE /\ v.sel = u.sel /\ v.buf = u.buf
  <2> HIDE DEF u
  <2>1. QED
    BY <1>2 DEF Statics
<1>4. Sending(s, b, d) = v
  BY DEF Sending
<1> HIDE DEF u, v
<1>5. QED
  BY <1>2, <1>3, <1>4

LEMMA TxSendIs ==
  ASSUME NEW s \in Statics, NEW e, NEW j \in Job, NEW m,
         sof.frame \in 0 .. Frames - 1,
         Apart(s, j), Within(j), HasRoom(s, m)
  PROVE  LET r == TxSend(s, e, j)
         IN /\ r.tx \in Statics /\ r.job \in Job
            /\ Apart(r.tx, r.job) /\ Within(r.job) /\ HasRoom(r.tx, m)
<1> DEFINE c == Chosen(s)
           bytes == s.buf[c.src]
<1>1. /\ c.sel \in Buffers /\ c.src = Other(c.sel) /\ c.src \in Buffers
      /\ s.both => c.sel = s.sel
      /\ ~s.both => c.sel = Other(s.sel)
      /\ s.sel \in Buffers
  BY ChosenIs, OtherBuffer DEF Statics
<1>2. bytes \in Strings(BufSize) /\ s.buf \in [Buffers -> Strings(BufSize)]
  BY <1>1 DEF Statics
<1>3. CASE Waits(s)
  <2>1. TxSend(s, e, j).tx = s /\ TxSend(s, e, j).job = j
    BY <1>3 DEF TxSend
  <2>2. QED
    BY <2>1
<1>4. CASE ~Waits(s) /\ Rests(s)
  <2>1. TxSend(s, e, j).tx = [s EXCEPT !.idle = Counted(@)] /\ TxSend(s, e, j).job = j
    BY <1>4 DEF TxSend
  <2>2. Counted(s.idle) \in 0 .. ZlpWait - 1
    BY <1>4, Sizes DEF Rests, Counted, Statics
  <2> DEFINE t == [s EXCEPT !.idle = Counted(@)]
  <2>3. /\ t \in Statics
        /\ t.ongoing = s.ongoing /\ t.both = s.both /\ t.sel = s.sel /\ t.buf = s.buf
    BY <2>2 DEF Statics
  <2> HIDE DEF t
  <2>4. Apart(t, j) /\ HasRoom(t, m)
    BY <2>3 DEF Apart, HasRoom
  <2>5. QED
    BY <2>1, <2>3, <2>4 DEF t
<1>5. CASE ~Waits(s) /\ ~Rests(s)
  <2> DEFINE t == [s EXCEPT !.idle = 0, !.sel = c.sel, !.ongoing = TRUE,
                            !.sof = Stamp(bytes)]
             a == Armed(e, j, c.src, bytes)
  <2>1. TxSend(s, e, j).tx = t /\ TxSend(s, e, j).job = a
    BY <1>5 DEF TxSend
  <2>2. Stamp(bytes) \in 0 .. Frames - 1
    BY Sizes DEF Stamp
  <2>3. ~s.ongoing /\ j.busy = FALSE
    BY <1>5 DEF Waits, Apart, Job
  <2>4. /\ t \in Statics /\ t.ongoing = TRUE /\ t.sel = c.sel /\ t.buf = s.buf
    <3>1. t = Sending(s, c.sel, Stamp(bytes))
      BY DEF Sending
    <3> HIDE DEF t, c, bytes
    <3>2. QED
      BY <1>1, <2>2, <3>1, SendingIs
  <2>5. /\ a \in Job
        /\ \/ a = j
           \/ /\ a.busy = TRUE /\ a.src = c.src
              /\ a.size = Len(bytes) /\ a.at = 0
    <3> HIDE DEF c, bytes
    <3>1. QED
      BY <1>1, <1>2, ArmedIs
  <2>6. Len(bytes) \in 0 .. BufSize
    BY <1>2, Sizes, StringLen
  <2> HIDE DEF t, a
  <2>7. Apart(t, a)
    BY <1>1, <2>3, <2>4, <2>5 DEF Apart
  <2>8. Within(a)
    BY <2>3, <2>5, <2>6 DEF Within
  <2>9. HasRoom(t, m)
    <3>1. CASE s.both
      BY <1>1, <2>4, <3>1 DEF HasRoom
    <3>2. CASE ~s.both
      <4>1. t.sel = Other(s.sel)
        BY <1>1, <2>4, <3>2
      <4>2. s.buf[Other(s.sel)] = <<>>
        BY <2>3, <3>2 DEF Apart
      <4>3. Len(t.buf[t.sel]) = 0
        BY <2>4, <4>1, <4>2, EmptySeq
      <4>4. QED
        BY <4>3, Sizes DEF HasRoom
    <3>3. QED
      BY <3>1, <3>2
  <2>10. QED
    BY <2>1, <2>4, <2>5, <2>7, <2>8, <2>9
<1>6. QED
  BY <1>3, <1>4, <1>5

\* The buffer a transfer leaves is empty, and no transfer is on-going.
LEMMA SentIs ==
  ASSUME NEW s \in Statics, NEW m, HasRoom(s, m)
  PROVE  /\ Sent(s) \in Statics
         /\ Apart(Sent(s), NoJob) /\ Within(NoJob) /\ HasRoom(Sent(s), m)
<1> DEFINE o == Other(s.sel)
           b == [s.buf EXCEPT ![o] = <<>>]
           u == [s EXCEPT !.buf = b]
           v == [u EXCEPT !.both = FALSE, !.ongoing = FALSE]
<1>1. o \in Buffers /\ o # s.sel /\ s.sel \in Buffers
  BY OtherBuffer DEF Statics
<1>2. /\ b \in [Buffers -> Strings(BufSize)] /\ b[o] = <<>> /\ b[s.sel] = s.buf[s.sel]
  <2>1. <<>> \in Strings(BufSize)
    BY Sizes, EmptyString
  <2>2. s.buf \in [Buffers -> Strings(BufSize)]
    BY DEF Statics
  <2> HIDE DEF o
  <2>3. QED
    BY <1>1, <2>1, <2>2
<1>3. u \in Statics /\ u.sel = s.sel /\ u.buf = b
  <2> HIDE DEF b
  <2>1. QED
    BY <1>2 DEF Statics
<1>4. /\ v \in Statics /\ v.sel = u.sel /\ v.buf = u.buf
      /\ v.both = FALSE /\ v.ongoing = FALSE
  <2> HIDE DEF u
  <2>1. QED
    BY <1>3 DEF Statics
<1>5. Sent(s) = v
  BY DEF Sent
<1> HIDE DEF b, u, v
<1>6. /\ Sent(s) \in Statics /\ Sent(s).sel = s.sel /\ Sent(s).buf = b
  BY <1>3, <1>4, <1>5
<1>7. Apart(Sent(s), NoJob) /\ Within(NoJob)
  BY <1>2, <1>6, NoJobType DEF Apart, Within
<1>8. HasRoom(Sent(s), m)
  BY <1>2, <1>6 DEF HasRoom
<1>9. QED
  BY <1>6, <1>7, <1>8

LEMMA FreshIs ==
  ASSUME TypeOK, NEW m, HasRoom(tx, m)
  PROVE  /\ Fresh \in Statics
         /\ Apart(Fresh, NoJob) /\ Within(NoJob) /\ HasRoom(Fresh, m)
<1>1. <<>> \in Strings(BufSize) /\ Len(<<>>) = 0
  BY Sizes, EmptyString
<1>2. tx.idle \in 0 .. ZlpWait - 1
  BY DEF TypeOK
<1>3. [b \in Buffers |-> <<>>] \in [Buffers -> Strings(BufSize)]
  BY <1>1
<1>4. /\ Fresh \in Statics /\ Fresh.sel \in Buffers
      /\ \A b \in Buffers : Fresh.buf[b] = <<>>
  BY <1>1, <1>2, <1>3, Sizes DEF Fresh, Statics, Buffers
<1>5. Other(Fresh.sel) \in Buffers
  BY <1>4, OtherBuffer
<1>6. Apart(Fresh, NoJob) /\ Within(NoJob)
  BY <1>4, <1>5, NoJobType DEF Apart, Within
<1>7. HasRoom(Fresh, m)
  BY <1>1, <1>4, Sizes DEF HasRoom
<1>8. QED
  BY <1>4, <1>6, <1>7

-----------------------------------------------------------------------------
(* The steps                                                               *)

\* The parts of TypeOK.
Rest ==
  /\ ep \in {"off", "on", "halted"}
  /\ line \in Seq(Strings(PacketSize)) /\ Len(line) <= Banks
  /\ sof \in [frame : 0 .. Frames - 1, due : BOOLEAN]
  /\ main \in [pc : {"idle", "check", "store"}, call : Calls, left : 0 .. MaxWrite]
  /\ next \in Byte
  /\ host \in [got : Strings(PacketSize), open : BOOLEAN]
  /\ epoch \in {0, 1}

LEMMA TypeParts == TypeOK <=> tx \in Statics /\ job \in Job /\ Rest
BY DEF TypeOK, Statics, Job, Rest

Core(s, j, m) == s \in Statics /\ j \in Job /\ Apart(s, j) /\ Within(j) /\ HasRoom(s, m)

LEMMA Parts == Inv <=> Core(tx, job, main) /\ Rest /\ Working
BY TypeParts DEF Inv, Core

LEMMA PartsPrimed ==
  ASSUME Core(tx', job', main'), Rest', Working'
  PROVE  Inv'
BY DEF Core, Rest, Working, Inv, TypeOK, Statics, Job, Apart, Within, HasRoom

LEMMA InitInv == Init => Inv
<1> SUFFICES ASSUME Init PROVE Inv
  OBVIOUS
<1>1. <<>> \in Strings(BufSize) /\ <<>> \in Strings(PacketSize) /\ Len(<<>>) = 0
      /\ <<>> \in Seq(Strings(PacketSize))
  BY Sizes, EmptyString
<1>2. [b \in Buffers |-> <<>>] \in [Buffers -> Strings(BufSize)]
  BY <1>1
<1>3. tx \in Statics
  BY <1>2, Sizes DEF Init, Statics, Buffers
<1>4. main = Idle /\ job = NoJob
  BY DEF Init
<1>5. Rest /\ Working
  <2>1. Len(line) <= Banks /\ line \in Seq(Strings(PacketSize))
    BY <1>1, Sizes DEF Init
  <2>2. sof \in [frame : 0 .. Frames - 1, due : BOOLEAN] /\ next \in Byte
    BY Sizes DEF Init, Byte
  <2>3. main \in [pc : {"idle", "check", "store"}, call : Calls, left : 0 .. MaxWrite]
    BY <1>4, Sizes DEF Idle, Calls
  <2>4. host \in [got : Strings(PacketSize), open : BOOLEAN]
    BY <1>1 DEF Init
  <2>5. QED
    BY <1>4, <2>1, <2>2, <2>3, <2>4 DEF Init, Rest, Working, Idle
<1>6. HasRoom(tx, main)
  BY <1>4 DEF HasRoom, Idle
<1>7. \A b \in Buffers : tx.buf[b] = <<>>
  BY DEF Init
<1>8. Other(tx.sel) \in Buffers
  BY <1>3, OtherBuffer DEF Statics
<1>9. Apart(tx, job) /\ Within(job)
  BY <1>4, <1>7, <1>8, NoJobType DEF Apart, Within
<1>10. QED
  BY <1>3, <1>4, <1>5, <1>6, <1>9, NoJobType, Parts DEF Core

\* A step of the interrupt handler ends with udi_cdc_tx_send() or leaves its
\* statics alone.
LEMMA SofKeeps ==
  ASSUME Inv, SofNotify
  PROVE  Inv'
<1> DEFINE s == TxSend(tx, ep, job)
<1>1. Core(tx, job, main) /\ Rest /\ Working
  BY Parts
<1>2. sof.frame \in 0 .. Frames - 1
  BY <1>1 DEF Rest
<1>3. Core(s.tx, s.job, main)
  <2>1. /\ s.tx \in Statics /\ s.job \in Job
        /\ Apart(s.tx, s.job) /\ Within(s.job) /\ HasRoom(s.tx, main)
    BY <1>1, <1>2, TxSendIs DEF Core
  <2>2. QED
    BY <2>1 DEF Core
<1>4. /\ sof' = [sof EXCEPT !.due = FALSE]
      /\ UNCHANGED <<ep, line, main, next, host>>
      /\ epoch' \in {epoch, 1 - epoch}
      /\ (tx' = tx /\ job' = job) \/ (tx' = s.tx /\ job' = s.job)
  BY DEF SofNotify
<1> HIDE DEF s
<1>5. Core(tx', job', main')
  BY <1>1, <1>3, <1>4
<1>6. sof' \in [frame : 0 .. Frames - 1, due : BOOLEAN] /\ epoch' \in {0, 1}
  <2>1. sof \in [frame : 0 .. Frames - 1, due : BOOLEAN] /\ epoch \in {0, 1}
    BY <1>1 DEF Rest
  <2>2. sof' \in [frame : 0 .. Frames - 1, due : BOOLEAN]
    BY <1>4, <2>1
  <2>3. QED
    BY <1>4, <2>1, <2>2
<1>7. Rest' /\ Working'
  BY <1>1, <1>4, <1>6 DEF Rest, Working
<1>8. QED
  BY <1>5, <1>7, PartsPrimed

LEMMA EndKeeps ==
  ASSUME Inv, TransferEnds
  PROVE  Inv'
<1> DEFINE s == TxSend(Sent(tx), ep, NoJob)
<1>1. Core(tx, job, main) /\ Rest /\ Working
  BY Parts
<1>2. sof.frame \in 0 .. Frames - 1
  BY <1>1 DEF Rest
<1>3. /\ Sent(tx) \in Statics /\ Apart(Sent(tx), NoJob) /\ Within(NoJob)
      /\ HasRoom(Sent(tx), main)
  BY <1>1, SentIs DEF Core
<1>4. Core(s.tx, s.job, main)
  <2>1. /\ s.tx \in Statics /\ s.job \in Job
        /\ Apart(s.tx, s.job) /\ Within(s.job) /\ HasRoom(s.tx, main)
    BY <1>2, <1>3, NoJobType, TxSendIs
  <2>2. QED
    BY <2>1 DEF Core
<1>5. /\ job.zlp => Len(line) < Banks
      /\ line' = IF job.zlp THEN Append(line, <<>>) ELSE line
      /\ tx' = s.tx /\ job' = s.job
      /\ UNCHANGED <<ep, sof, main, next, host, epoch>>
  BY DEF TransferEnds
<1> HIDE DEF s
<1>6. line' \in Seq(Strings(PacketSize)) /\ Len(line') <= Banks
  <2>1. line \in Seq(Strings(PacketSize)) /\ Len(line) <= Banks
    BY <1>1 DEF Rest
  <2>2. CASE job.zlp
    <3>1. <<>> \in Strings(PacketSize)
      BY Sizes, EmptyString
    <3>2. /\ Append(line, <<>>) \in Seq(Strings(PacketSize))
          /\ Len(Append(line, <<>>)) = Len(line) + 1
      BY <2>1, <3>1, AppendProperties
    <3>3. Len(line) \in Nat
      BY <2>1, LenProperties
    <3>4. QED
      BY <1>5, <2>2, <3>2, <3>3, Sizes
  <2>3. CASE ~job.zlp
    BY <1>5, <2>1, <2>3
  <2>4. QED
    BY <2>2, <2>3
<1>7. Rest' /\ Working'
  BY <1>1, <1>5, <1>6 DEF Rest, Working
<1>8. QED
  BY <1>4, <1>5, <1>7, PartsPrimed

LEMMA PacketIs ==
  ASSUME NEW j \in Job, j.at < j.size
  PROVE  /\ PacketLen(j) \in 1 .. PacketSize
         /\ j.at + PacketLen(j) <= j.size
         /\ j.at \in Nat /\ j.size \in 0 .. BufSize
BY Sizes DEF PacketLen, Job

LEMMA DmaKeeps ==
  ASSUME Inv, DmaMove
  PROVE  Inv'
<1> DEFINE n == PacketLen(job)
           p == SubSeq(tx.buf[job.src], job.at + 1, job.at + n)
<1>1. Core(tx, job, main) /\ Rest /\ Working
  BY Parts
<1>2. /\ job.busy /\ job.at < job.size /\ Len(line) < Banks
      /\ line' = Append(line, p) /\ job' = [job EXCEPT !.at = @ + n]
      /\ UNCHANGED <<tx, ep, sof, main, next, host, epoch>>
  BY DEF DmaMove
<1>3. /\ n \in 1 .. PacketSize /\ job.at + n <= job.size
      /\ job.at \in Nat /\ job.size \in 0 .. BufSize
  BY <1>1, <1>2, PacketIs DEF Core
<1>4. tx.buf[job.src] \in Strings(BufSize) /\ job.size = Len(tx.buf[job.src])
  BY <1>1, <1>2 DEF Core, Statics, Job, Apart
<1> HIDE DEF n
<1>5. p \in Strings(PacketSize)
  <2>1. job.at + n \in Nat /\ n \in Nat /\ job.at <= job.at + n
        /\ (job.at + n) - job.at = n /\ n <= PacketSize
    BY <1>3, Sizes
  <2>2. p \in Strings((job.at + n) - job.at)
    BY <1>3, <1>4, <2>1, Sizes, Substring
  <2>3. QED
    BY <2>1, <2>2, Sizes, LongerString
<1>6. /\ job' \in Job /\ job'.busy = job.busy /\ job'.src = job.src
      /\ job'.size = job.size /\ job'.at = job.at + n
  <2>1. job \in Job
    BY <1>1 DEF Core
  <2>2. job.at + n \in 0 .. BufSize
    BY <1>3, Sizes
  <2>3. QED
    BY <1>2, <2>1, <2>2 DEF Job
<1>7. Core(tx', job', main')
  BY <1>1, <1>2, <1>3, <1>6 DEF Core, Apart, Within, HasRoom
<1>8. line' \in Seq(Strings(PacketSize)) /\ Len(line') <= Banks
  <2>1. line \in Seq(Strings(PacketSize)) /\ Len(line) \in Nat
    BY <1>1, LenProperties DEF Rest
  <2>2. line' \in Seq(Strings(PacketSize)) /\ Len(line') = Len(line) + 1
    BY <1>2, <1>5, <2>1, AppendProperties
  <2>3. QED
    BY <1>2, <2>1, <2>2, Sizes
<1>9. Rest' /\ Working'
  BY <1>1, <1>2, <1>8 DEF Rest, Working
<1>10. QED
  BY <1>7, <1>9, PartsPrimed

LEMMA TakeKeeps ==
  ASSUME Inv, HostTake
  PROVE  Inv'
<1>1. Core(tx, job, main) /\ Rest /\ Working
  BY Parts
<1>2. /\ line # <<>> /\ line' = Tail(line)
      /\ host' = [got |-> IF Head(line) = <<>> THEN host.got ELSE Head(line),
                  open |-> Len(Head(line)) = PacketSize]
      /\ UNCHANGED <<tx, ep, job, sof, main, next, epoch>>
  BY DEF HostTake
<1>3. /\ line \in Seq(Strings(PacketSize)) /\ Len(line) <= Banks
      /\ host \in [got : Strings(PacketSize), open : BOOLEAN]
  BY <1>1 DEF Rest
<1>4. /\ Head(line) \in Strings(PacketSize) /\ Tail(line) \in Seq(Strings(PacketSize))
      /\ Len(Tail(line)) = Len(line) - 1
  BY <1>2, <1>3, HeadTailProperties
<1>5. Len(line') <= Banks
  <2>1. Len(line) \in Nat
    BY <1>3, LenProperties
  <2>2. QED
    BY <1>2, <1>3, <1>4, <2>1, Sizes
<1>6. host' \in [got : Strings(PacketSize), open : BOOLEAN]
  <2>1. (Len(Head(line)) = PacketSize) \in BOOLEAN
    OBVIOUS
  <2>2. host.got \in Strings(PacketSize)
    BY <1>3
  <2>3. QED
    BY <1>2, <1>4, <2>1, <2>2
<1>7. Rest' /\ Working'
  BY <1>1, <1>2, <1>4, <1>5, <1>6 DEF Rest, Working
<1>8. Core(tx', job', main')
  BY <1>1, <1>2
<1>9. QED
  BY <1>7, <1>8, PartsPrimed

LEMMA FrameKeeps ==
  ASSUME Inv, NewFrame
  PROVE  Inv'
<1>1. Core(tx, job, main) /\ Rest /\ Working
  BY Parts
<1>2. /\ sof' = [frame |-> (sof.frame + 1) % Frames, due |-> TRUE]
      /\ UNCHANGED <<tx, ep, job, line, main, next, host, epoch>>
  BY DEF NewFrame
<1>3. sof.frame \in 0 .. Frames - 1
  BY <1>1 DEF Rest
<1>4. sof' \in [frame : 0 .. Frames - 1, due : BOOLEAN]
  <2>1. (sof.frame + 1) % Frames \in 0 .. Frames - 1
    BY <1>3, Sizes
  <2>2. QED
    BY <1>2, <2>1
<1>5. Rest' /\ Working'
  BY <1>1, <1>2, <1>4 DEF Rest, Working
<1>6. Core(tx', job', main')
  BY <1>1, <1>2
<1>7. QED
  BY <1>5, <1>6, PartsPrimed

LEMMA EmptyLine == <<>> \in Seq(Strings(PacketSize)) /\ Len(<<>>) <= Banks
<1>1. <<>> \in Seq(Strings(PacketSize)) /\ Len(<<>>) = 0
  BY EmptySeq
<1>2. QED
  BY <1>1, Sizes

\* What a cut does to the host's side.
LEMMA CutType ==
  ASSUME Rest, host' = [host EXCEPT !.open = FALSE], epoch' = 1 - epoch
  PROVE  host' \in [got : Strings(PacketSize), open : BOOLEAN] /\ epoch' \in {0, 1}
<1>1. host \in [got : Strings(PacketSize), open : BOOLEAN] /\ epoch \in {0, 1}
  BY DEF Rest
<1>2. host' \in [got : Strings(PacketSize), open : BOOLEAN]
  BY <1>1
<1>3. epoch' \in {0, 1}
  BY <1>1
<1>4. QED
  BY <1>2, <1>3

LEMMA EnableKeeps ==
  ASSUME Inv, Enable
  PROVE  Inv'
<1> DEFINE s == TxSend(Fresh, "on", NoJob)
<1>1. Core(tx, job, main) /\ Rest /\ Working /\ TypeOK
  BY Parts, TypeParts DEF Core
<1>2. sof.frame \in 0 .. Frames - 1
  BY <1>1 DEF Rest
<1>3. /\ Fresh \in Statics /\ Apart(Fresh, NoJob) /\ Within(NoJob)
      /\ HasRoom(Fresh, main)
  BY <1>1, FreshIs DEF Core
<1>4. Core(s.tx, s.job, main)
  <2>1. /\ s.tx \in Statics /\ s.job \in Job
        /\ Apart(s.tx, s.job) /\ Within(s.job) /\ HasRoom(s.tx, main)
    BY <1>2, <1>3, NoJobType, TxSendIs
  <2>2. QED
    BY <2>1 DEF Core
<1>5. /\ ep' = "on" /\ tx' = s.tx /\ job' = s.job /\ line' = <<>>
      /\ host' = [host EXCEPT !.open = FALSE] /\ epoch' = 1 - epoch
      /\ UNCHANGED <<sof, main, next>>
  BY DEF Enable
<1> HIDE DEF s
<1>6. /\ host' \in [got : Strings(PacketSize), open : BOOLEAN] /\ epoch' \in {0, 1}
  BY <1>1, <1>5, CutType
<1>7. Rest' /\ Working'
  BY <1>1, <1>5, <1>6, EmptyLine DEF Rest, Working
<1>8. QED
  BY <1>4, <1>5, <1>7, PartsPrimed

\* A transfer that is taken away leaves the buffers as they are.
LEMMA AbortKeeps ==
  ASSUME Inv, Disable \/ SetHalt
  PROVE  Inv'
<1>1. Core(tx, job, main) /\ Rest /\ Working
  BY Parts
<1>2. /\ ep' \in {"off", "halted"} /\ job' = NoJob /\ line' = <<>>
      /\ host' = [host EXCEPT !.open = FALSE] /\ epoch' = 1 - epoch
      /\ UNCHANGED <<tx, sof, main, next>>
  BY DEF Disable, SetHalt
<1>3. /\ host' \in [got : Strings(PacketSize), open : BOOLEAN] /\ epoch' \in {0, 1}
  BY <1>1, <1>2, CutType
<1>4. Rest' /\ Working'
  BY <1>1, <1>2, <1>3, EmptyLine DEF Rest, Working
<1>5. Core(tx', job', main')
  BY <1>1, <1>2, NoJobType DEF Core, Apart, Within
<1>6. QED
  BY <1>4, <1>5, PartsPrimed

LEMMA ClearKeeps ==
  ASSUME Inv, ClearHalt
  PROVE  Inv'
<1>1. Core(tx, job, main) /\ Rest /\ Working
  BY Parts
<1>2. ep' = "on" /\ UNCHANGED <<tx, job, line, sof, main, next, host, epoch>>
  BY DEF ClearHalt
<1>3. Rest' /\ Working' /\ Core(tx', job', main')
  BY <1>1, <1>2 DEF Rest, Working
<1>4. QED
  BY <1>3, PartsPrimed

\* A transfer that is run again is the same transfer.
LEMMA ReallocateKeeps ==
  ASSUME Inv, Reallocate
  PROVE  Inv'
<1> DEFINE a == Armed(ep, NoJob, job.src, tx.buf[job.src])
<1>1. Core(tx, job, main) /\ Rest /\ Working
  BY Parts
<1>2. /\ job' = IF job.busy THEN a ELSE job
      /\ line' = <<>> /\ epoch' = 1 - epoch
      /\ UNCHANGED <<tx, ep, sof, main, next, host>>
  BY DEF Reallocate
<1>3. tx \in Statics /\ job.src \in Buffers /\ tx.buf[job.src] \in Strings(BufSize)
  BY <1>1 DEF Core, Statics, Job
<1>4. /\ a \in Job
      /\ \/ a = NoJob
         \/ /\ a.busy = TRUE /\ a.src = job.src
            /\ a.size = Len(tx.buf[job.src]) /\ a.at = 0
  <2> DEFINE bytes == tx.buf[job.src]
  <2> HIDE DEF bytes
  <2>1. bytes \in Strings(BufSize) /\ job.src \in Buffers
    BY <1>3 DEF bytes
  <2>2. /\ Armed(ep, NoJob, job.src, bytes) \in Job
        /\ \/ Armed(ep, NoJob, job.src, bytes) = NoJob
           \/ /\ Armed(ep, NoJob, job.src, bytes).busy = TRUE
              /\ Armed(ep, NoJob, job.src, bytes).src = job.src
              /\ Armed(ep, NoJob, job.src, bytes).size = Len(bytes)
              /\ Armed(ep, NoJob, job.src, bytes).at = 0
    BY <2>1, NoJobType, ArmedIs
  <2>3. QED
    BY <2>2 DEF bytes
<1>5. Len(tx.buf[job.src]) \in 0 .. BufSize
  BY <1>3, Sizes, StringLen
<1> HIDE DEF a
<1>6. Core(tx', job', main')
  <2>1. CASE job.busy
    <3>1. tx.ongoing /\ job.src = Other(tx.sel)
      BY <1>1, <2>1 DEF Core, Apart
    <3>2. Apart(tx, a) /\ Within(a)
      BY <1>1, <1>4, <1>5, <3>1, NoJobType DEF Core, Apart, Within
    <3>3. QED
      BY <1>1, <1>2, <1>4, <2>1, <3>2 DEF Core
  <2>2. CASE ~job.busy
    BY <1>1, <1>2, <2>2
  <2>3. QED
    BY <2>1, <2>2
<1>7. epoch' \in {0, 1}
  BY <1>1, <1>2 DEF Rest
<1>8. Rest' /\ Working'
  BY <1>1, <1>2, <1>7, EmptyLine DEF Rest, Working
<1>9. QED
  BY <1>6, <1>8, PartsPrimed

Mains == [pc : {"idle", "check", "store"}, call : Calls, left : 0 .. MaxWrite]

LEMMA CallKeeps ==
  ASSUME Inv, NEW c \in Calls, NEW n \in 1 .. MaxWrite, Call(c, n)
  PROVE  Inv'
<1>1. Core(tx, job, main) /\ Rest /\ Working
  BY Parts
<1>2. /\ main' = [pc |-> "check", call |-> c, left |-> n]
      /\ UNCHANGED <<tx, ep, job, line, sof, next, host, epoch>>
  BY DEF Call
<1>3. main' \in Mains /\ main'.pc = "check" /\ main'.left > 0
  BY <1>2, Sizes DEF Mains
<1>4. Core(tx', job', main')
  BY <1>1, <1>2, <1>3 DEF Core, HasRoom
<1>5. Rest' /\ Working'
  BY <1>1, <1>2, <1>3 DEF Rest, Working, Mains
<1>6. QED
  BY <1>4, <1>5, PartsPrimed

\* A full buffer that is left waits alone: no transfer is on-going.
LEMMA FreeSpaceIs ==
  ASSUME NEW s \in Statics, NEW j \in Job, Apart(s, j)
  PROVE  /\ FreeSpace(s) \in Statics
         /\ Apart(FreeSpace(s), j)
<1>1. s.sel \in Buffers /\ Other(s.sel) \in Buffers /\ Other(Other(s.sel)) = s.sel
  BY OtherBuffer DEF Statics
<1>2. CASE Len(s.buf[s.sel]) = BufSize /\ ~s.ongoing /\ ~s.both
  <2> DEFINE t == [s EXCEPT !.both = TRUE, !.sel = Other(@)]
  <2>1. FreeSpace(s) = t
    BY <1>2 DEF FreeSpace
  <2>2. /\ t \in Statics /\ t.both = TRUE /\ t.sel = Other(s.sel)
        /\ t.ongoing = s.ongoing /\ t.buf = s.buf
    BY <1>1 DEF Statics
  <2> HIDE DEF t
  <2>3. Apart(t, j)
    BY <1>1, <1>2, <2>2 DEF Apart
  <2>4. QED
    BY <2>1, <2>2, <2>3
<1>3. CASE ~(Len(s.buf[s.sel]) = BufSize /\ ~s.ongoing /\ ~s.both)
  BY <1>3 DEF FreeSpace
<1>4. QED
  BY <1>2, <1>3

LEMMA CheckKeeps ==
  ASSUME Inv, Check
  PROVE  Inv'
<1> DEFINE s == FreeSpace(tx)
<1>1. Core(tx, job, main) /\ Rest /\ Working
  BY Parts
<1>2. /\ main.pc = "check" /\ tx' = s
      /\ main' = IF Free(s) > 0 /\ main.call # "free" THEN [main EXCEPT !.pc = "store"]
                 ELSE IF GivesUp THEN Idle ELSE main
      /\ UNCHANGED <<ep, job, line, sof, next, host, epoch>>
  BY DEF Check
<1>3. s \in Statics /\ Apart(s, job)
  BY <1>1, FreeSpaceIs DEF Core
<1> HIDE DEF s
<1>4. main \in Mains /\ main.left > 0
  BY <1>1, <1>2 DEF Rest, Working, Mains
<1>5. s.buf[s.sel] \in Strings(BufSize)
  BY <1>3 DEF Statics
<1>6. Len(s.buf[s.sel]) \in 0 .. BufSize
  BY <1>5, Sizes, StringLen
<1>7. Idle \in Mains /\ Idle.pc = "idle"
  BY Sizes DEF Idle, Mains, Calls
<1>8. main' \in Mains /\ (main'.pc # "idle" => main'.left > 0)
      /\ (main'.pc = "store" => Len(s.buf[s.sel]) < BufSize)
  <2>1. CASE Free(s) > 0 /\ main.call # "free"
    <3>1. main' = [main EXCEPT !.pc = "store"]
      BY <1>2, <2>1
    <3>2. main' \in Mains /\ main'.left = main.left /\ main'.pc = "store"
      BY <1>4, <3>1 DEF Mains
    <3>3. Len(s.buf[s.sel]) < BufSize
      BY <1>6, <2>1, Sizes DEF Free
    <3>4. QED
      BY <1>4, <3>2, <3>3
  <2>2. CASE ~(Free(s) > 0 /\ main.call # "free") /\ GivesUp
    BY <1>2, <1>7, <2>2
  <2>3. CASE ~(Free(s) > 0 /\ main.call # "free") /\ ~GivesUp
    BY <1>2, <1>4, <2>3
  <2>4. QED
    BY <2>1, <2>2, <2>3
<1>9. Core(tx', job', main')
  BY <1>1, <1>2, <1>3, <1>8 DEF Core, HasRoom
<1>10. Rest' /\ Working'
  BY <1>1, <1>2, <1>8 DEF Rest, Working, Mains
<1>11. QED
  BY <1>9, <1>10, PartsPrimed

LEMMA StoredIs ==
  ASSUME NEW f \in Nat, Free(tx) = f, f > 0, main \in Mains, main.left > 0
  PROVE  Stored \in Nat /\ Stored <= f /\ Stored <= main.left
<1>1. main.left \in Nat
  BY Sizes DEF Mains
<1>2. CASE main.call = "write" /\ main.left > f
  BY <1>1, <1>2 DEF Stored
<1>3. CASE main.call = "write" /\ ~(main.left > f)
  BY <1>1, <1>3 DEF Stored
<1>4. CASE main.call # "write"
  BY <1>1, <1>4 DEF Stored
<1>5. QED
  BY <1>2, <1>3, <1>4

\* What is stored fits, though the buffer may not be the one that was tested.
LEMMA StoreKeeps ==
  ASSUME Inv, Store
  PROVE  Inv'
<1> DEFINE old == tx.buf[tx.sel]
           new == old \o Run(Stored)
<1>1. Core(tx, job, main) /\ Rest /\ Working
  BY Parts
<1>2. /\ main.pc = "store"
      /\ tx' = [tx EXCEPT !.buf[tx.sel] = new]
      /\ next' = (next + Stored) % ByteValues
      /\ main' = IF main.left > Stored
                 THEN [main EXCEPT !.pc = "check", !.left = @ - Stored] ELSE Idle
      /\ UNCHANGED <<ep, job, line, sof, host, epoch>>
  BY DEF Store
<1>3. /\ tx \in Statics /\ tx.sel \in Buffers /\ tx.buf \in [Buffers -> Strings(BufSize)]
      /\ main \in Mains /\ main.left > 0 /\ next \in Byte
      /\ Len(old) < BufSize
  BY <1>1, <1>2 DEF Core, Statics, Rest, Mains, HasRoom
<1>4. old \in Strings(BufSize) /\ old \in Seq(Byte) /\ Len(old) \in 0 .. BufSize
  BY <1>3, Sizes, StringIs, StringLen
<1>5. Stored \in Nat /\ Stored <= BufSize - Len(old) /\ Stored <= main.left
  <2>1. Free(tx) = BufSize - Len(old) /\ BufSize - Len(old) \in Nat /\ BufSize - Len(old) > 0
    BY <1>3, <1>4, Sizes DEF Free
  <2>2. QED
    BY <1>3, <2>1, StoredIs
<1> DEFINE k == Stored
<1> HIDE DEF k, old
<1>6. new \in Strings(BufSize)
  <2>1. Run(Stored) \in Seq(Byte) /\ Len(Run(Stored)) = Stored
    BY <1>3, <1>5, RunIs
  <2>2. new \in Seq(Byte) /\ Len(new) = Len(old) + Len(Run(Stored))
    BY <1>4, <2>1, ConcatProperties
  <2>3. Len(new) <= BufSize
    BY <1>4, <1>5, <2>1, <2>2, Sizes
  <2>4. QED
    BY <2>2, <2>3, Sizes, StringIs
<1> HIDE DEF new
<1>7. /\ tx' \in Statics /\ tx'.sel = tx.sel /\ tx'.ongoing = tx.ongoing
      /\ tx'.both = tx.both
      /\ \A b \in Buffers : b # tx.sel => tx'.buf[b] = tx.buf[b]
  <2> DEFINE nb == [tx.buf EXCEPT ![tx.sel] = new]
  <2>1. /\ nb \in [Buffers -> Strings(BufSize)]
        /\ \A b \in Buffers : b # tx.sel => nb[b] = tx.buf[b]
    BY <1>3, <1>6
  <2>2. tx' = [tx EXCEPT !.buf = nb]
    BY <1>2
  <2> HIDE DEF nb
  <2>3. tx' \in Statics /\ tx'.sel = tx.sel /\ tx'.ongoing = tx.ongoing
        /\ tx'.both = tx.both /\ tx'.buf = nb
    BY <1>3, <2>1, <2>2 DEF Statics
  <2>4. QED
    BY <2>1, <2>3
<1>8. Apart(tx', job')
  <2>1. Other(tx.sel) \in Buffers /\ Other(tx.sel) # tx.sel
    BY <1>3, OtherBuffer
  <2>2. tx'.buf[Other(tx.sel)] = tx.buf[Other(tx.sel)]
    BY <1>7, <2>1
  <2>3. QED
    BY <1>1, <1>2, <1>7, <2>2 DEF Core, Apart
<1>9. Idle \in Mains /\ Idle.pc = "idle"
  BY Sizes DEF Idle, Mains, Calls
<1>10. main' \in Mains /\ main'.pc # "store" /\ (main'.pc # "idle" => main'.left > 0)
  <2>1. CASE main.left > Stored
    <3>1. main.left - Stored \in 0 .. MaxWrite /\ main.left - Stored > 0
      BY <1>3, <1>5, <2>1, Sizes DEF Mains
    <3>2. main' = [main EXCEPT !.pc = "check", !.left = main.left - Stored]
      BY <1>2, <2>1
    <3>3. main' \in Mains /\ main'.pc = "check" /\ main'.left = main.left - Stored
      BY <1>3, <3>1, <3>2 DEF Mains
    <3>4. QED
      BY <3>1, <3>3
  <2>2. CASE ~(main.left > Stored)
    BY <1>2, <1>9, <2>2
  <2>3. QED
    BY <2>1, <2>2
<1>11. next' \in Byte
  BY <1>2, <1>3, <1>5, Sizes DEF Byte
<1>12. Core(tx', job', main')
  BY <1>1, <1>2, <1>7, <1>8, <1>10 DEF Core, HasRoom
<1>13. Rest' /\ Working'
  BY <1>1, <1>2, <1>10, <1>11 DEF Rest, Working, Mains
<1>14. QED
  BY <1>12, <1>13, PartsPrimed

LEMMA NextKeeps ==
  ASSUME Inv, [Next]_vars
  PROVE  Inv'
<1>1. CASE UNCHANGED vars
  <2>1. Core(tx', job', main') /\ Rest' /\ Working'
    BY <1>1, Parts DEF vars, Rest, Working
  <2>2. QED
    BY <2>1, PartsPrimed
<1>2. CASE Next
  BY <1>2, FrameKeeps, DmaKeeps, TakeKeeps, EndKeeps, SofKeeps, EnableKeeps, AbortKeeps,
     ClearKeeps, ReallocateKeeps, CallKeeps, CheckKeeps, StoreKeeps
     DEF Next
<1>3. QED
  BY <1>1, <1>2

\* TypeOK, SenderAndWriterApart and three facts that make them inductive: the DMA is
\* within its transfer, the application still has the room it found, and it has
\* something left to write.
THEOREM Invariant == Spec => []Inv
<1>1. Inv /\ [Next]_vars => Inv'
  BY NextKeeps
<1>2. QED
  BY InitInv, <1>1, PTL DEF Spec

-----------------------------------------------------------------------------
(* The properties                                                          *)

\* The variables have their types, the buffers their bounds among them, for every
\* size: between its test for space and its store the application's buffer may be
\* swapped and sent, but does not fill up (udi_cdc.c: udi_cdc_putc, write_buf).
THEOREM TypeCorrect == Spec => []TypeOK
BY Invariant, PTL DEF Inv

\* The buffer that is sent is not the one the application writes to, and the older
\* bytes go first, for every size (udi_cdc.c: udi_cdc_tx_send, udi_cdc_data_sent,
\* udi_cdc_get_free_tx_buffer).
THEOREM SenderAlwaysApart == Spec => []SenderAndWriterApart
<1>1. Inv => SenderAndWriterApart
  BY DEF Inv, Apart, SenderAndWriterApart
<1>2. QED
  BY Invariant, <1>1, PTL

-----------------------------------------------------------------------------
(* Packets laid end to end                                                 *)

\* Induction on the natural numbers: 0 is in T, and with n also n + 1.
LEMMA Induction ==
  ASSUME NEW T, 0 \in T, \A n \in Nat : n \in T => n + 1 \in T
  PROVE  Nat \subseteq T
<1> DEFINE U == Nat \ T
           R == OpToRel(<, Nat)
<1>1. SUFFICES ASSUME U # {} PROVE FALSE
  OBVIOUS
<1>2. IsWellFoundedOn(R, Nat)
  BY NatLessThanWellFounded
<1>3. U \subseteq Nat
  OBVIOUS
<1>4. PICK x \in U : \A y \in U : ~ (<<y, x>> \in R)
  <2> HIDE DEF U, R
  <2> QED
    BY <1>1, <1>2, <1>3, WFMin
<1>5. \A y \in Nat : y < x => <<y, x>> \in R
  BY DEF OpToRel
<1> HIDE DEF R
<1>6. x # 0 /\ x - 1 \in Nat /\ x - 1 < x
  OBVIOUS
<1>7. x - 1 \in T
  BY <1>4, <1>5, <1>6
<1> QED
  BY <1>6, <1>7

\* f joins the first i packets of s, for every i up to n.
Joins(f, s, n) ==
  f = [i \in 1 .. n |-> IF i = 1 THEN s[i] ELSE f[i - 1] \o s[i]]

LEMMA JoinsExist ==
  ASSUME NEW s, NEW n \in Nat
  PROVE  \E f : Joins(f, s, n)
<1> DEFINE T == {k \in Nat : \E f : Joins(f, s, k)}
<1>1. 0 \in T
  <2>1. Joins([i \in 1 .. 0 |-> s], s, 0)
    BY DEF Joins
  <2> QED
    BY <2>1
<1>2. ASSUME NEW k \in Nat, k \in T
      PROVE  k + 1 \in T
  <2>1. PICK f : Joins(f, s, k)
    BY <1>2
  <2> DEFINE g == [i \in 1 .. k + 1 |->
                     IF i = 1 THEN s[i]
                     ELSE (IF i = k + 1 THEN f[k] ELSE f[i - 1]) \o s[i]]
  <2>2. \A i \in 1 .. k + 1 : g[i] = IF i = 1 THEN s[i] ELSE f[i - 1] \o s[i]
    OBVIOUS
  <2>3. \A i \in 1 .. k : f[i] = IF i = 1 THEN s[i] ELSE f[i - 1] \o s[i]
    BY <2>1 DEF Joins
  <2>4. \A i \in 1 .. k : g[i] = f[i]
    <3> HIDE DEF g
    <3> QED
      BY <2>2, <2>3
  <2>5. \A i \in 1 .. k + 1 : g[i] = IF i = 1 THEN s[i] ELSE g[i - 1] \o s[i]
    <3> HIDE DEF g
    <3> QED
      BY <2>2, <2>4
  <2>6. g = [i \in 1 .. k + 1 |-> g[i]]
    OBVIOUS
  <2>7. Joins(g, s, k + 1)
    <3> HIDE DEF g
    <3> QED
      BY <2>5, <2>6 DEF Joins
  <2> QED
    BY <2>7
<1> HIDE DEF T
<1>3. Nat \subseteq T
  BY <1>1, <1>2, Induction
<1> QED
  BY <1>3 DEF T

\* A packet more leaves what was joined before.
LEMMA JoinsAgree ==
  ASSUME NEW s, NEW t, NEW f, NEW g, NEW n \in Nat, NEW m, m = n + 1,
         Joins(f, s, n), Joins(g, t, m), \A i \in 1 .. n : t[i] = s[i]
  PROVE  \A i \in 1 .. n : f[i] = g[i]
<1> DEFINE T == {i \in Nat : i \in 1 .. n => f[i] = g[i]}
<1>1. /\ \A i \in 1 .. n : f[i] = IF i = 1 THEN s[i] ELSE f[i - 1] \o s[i]
      /\ \A i \in 1 .. n + 1 : g[i] = IF i = 1 THEN t[i] ELSE g[i - 1] \o t[i]
  BY DEF Joins
<1>2. 0 \in T
  OBVIOUS
<1>3. ASSUME NEW i \in Nat, i \in T
      PROVE  i + 1 \in T
  <2> SUFFICES ASSUME i + 1 \in 1 .. n
               PROVE  f[i + 1] = g[i + 1]
    OBVIOUS
  <2>1. /\ f[i + 1] = IF i + 1 = 1 THEN s[i + 1] ELSE f[i] \o s[i + 1]
        /\ g[i + 1] = IF i + 1 = 1 THEN t[i + 1] ELSE g[i] \o t[i + 1]
    BY <1>1
  <2>2. i + 1 # 1 => f[i] = g[i]
    BY <1>3
  <2> QED
    BY <2>1, <2>2
<1> HIDE DEF T
<1>4. Nat \subseteq T
  BY <1>2, <1>3, Induction
<1> QED
  BY <1>4 DEF T

LEMMA FlattenIs ==
  ASSUME NEW s, NEW n \in Nat \ {0}, Len(s) = n
  PROVE  \E f : Joins(f, s, n) /\ FlattenSeq(s) = f[n]
<1> DEFINE f == CHOOSE f : Joins(f, s, Len(s))
<1>1. Joins(f, s, Len(s))
  BY JoinsExist
<1>2. FlattenSeq(s) = f[Len(s)]
  BY Zenon DEF FlattenSeq, Joins
<1> QED
  BY <1>1, <1>2

LEMMA FlattenEmpty == FlattenSeq(<<>>) = <<>>
  BY DEF FlattenSeq

LEMMA Associative ==
  ASSUME NEW a \in Seq(Byte), NEW b \in Seq(Byte), NEW c \in Seq(Byte)
  PROVE  (a \o b) \o c = a \o (b \o c)
  BY ConcatAssociative

LEMMA FlattenAppend ==
  ASSUME NEW s \in Seq(Seq(Byte)), NEW p \in Seq(Byte)
  PROVE  FlattenSeq(Append(s, p)) = FlattenSeq(s) \o p
<1> DEFINE t == Append(s, p)
           n == Len(s)
<1>1. /\ n \in Nat /\ Len(t) = n + 1 /\ t[n + 1] = p
      /\ \A i \in 1 .. n : t[i] = s[i]
  BY AppendProperties, LenProperties
<1> HIDE DEF t
<1>2. PICK g : Joins(g, t, n + 1) /\ FlattenSeq(t) = g[n + 1]
  BY <1>1, FlattenIs
<1>3. g[n + 1] = IF n + 1 = 1 THEN t[n + 1] ELSE g[n] \o t[n + 1]
  <2>1. \A i \in 1 .. n + 1 : g[i] = IF i = 1 THEN t[i] ELSE g[i - 1] \o t[i]
    BY <1>2 DEF Joins
  <2>2. n + 1 \in 1 .. n + 1 /\ (n + 1) - 1 = n
    BY <1>1
  <2> HIDE DEF n
  <2> QED
    BY <1>1, <2>1, <2>2
<1>4. CASE n = 0
  <2>1. FlattenSeq(s) = <<>>
    BY <1>4, FlattenEmpty, EmptySeq
  <2>2. g[n + 1] = p /\ <<>> \o p = p
    BY <1>1, <1>3, <1>4, ConcatEmptySeq
  <2> QED
    BY <1>2, <2>1, <2>2 DEF t
<1>5. CASE n # 0
  <2>1. PICK f : Joins(f, s, n) /\ FlattenSeq(s) = f[n]
    BY <1>1, <1>5, FlattenIs
  <2>2. f[n] = g[n]
    <3> HIDE DEF n
    <3>1. /\ n \in Nat /\ Joins(f, s, n) /\ Joins(g, t, n + 1)
          /\ \A i \in 1 .. n : t[i] = s[i]
      BY <1>1, <1>2, <2>1
    <3>2. \A i \in 1 .. n : f[i] = g[i]
      BY <3>1, JoinsAgree
    <3> QED
      BY <1>1, <1>5, <3>2
  <2>3. g[n + 1] = g[n] \o p
    BY <1>1, <1>3, <1>5
  <2> QED
    BY <1>2, <2>1, <2>2, <2>3 DEF t
<1> QED
  BY <1>4, <1>5

LEMMA LastApart ==
  ASSUME NEW u \in Seq(Seq(Byte)), NEW n \in Nat, Len(u) = n + 1
  PROVE  \E v \in Seq(Seq(Byte)), p \in Seq(Byte) : u = Append(v, p)
<1> DEFINE S == Seq(Byte)
<1> HIDE DEF S
<1>1. u \in Seq(S) /\ u # <<>>
  BY EmptySeq DEF S
<1>2. \E v \in Seq(S), p \in S : u = Append(v, p)
  BY <1>1, SequenceEmptyOrAppend
<1> QED
  BY <1>2 DEF S

LEMMA FlattenType ==
  ASSUME NEW s \in Seq(Seq(Byte))
  PROVE  FlattenSeq(s) \in Seq(Byte)
<1> DEFINE T == {n \in Nat : \A u \in Seq(Seq(Byte)) :
                               Len(u) = n => FlattenSeq(u) \in Seq(Byte)}
<1>1. 0 \in T
  BY FlattenEmpty, EmptySeq
<1>2. ASSUME NEW n \in Nat, n \in T
      PROVE  n + 1 \in T
  <2> SUFFICES ASSUME NEW u \in Seq(Seq(Byte)), Len(u) = n + 1
               PROVE  FlattenSeq(u) \in Seq(Byte)
    OBVIOUS
  <2>1. PICK v \in Seq(Seq(Byte)), p \in Seq(Byte) : u = Append(v, p)
    BY LastApart
  <2>2. Len(v) \in Nat /\ Len(u) = Len(v) + 1
    BY <2>1, AppendProperties, LenProperties
  <2>3. FlattenSeq(v) \in Seq(Byte)
    BY <1>2, <2>2
  <2> QED
    BY <2>1, <2>3, FlattenAppend, ConcatProperties
<1> HIDE DEF T
<1>3. Nat \subseteq T
  BY <1>1, <1>2, Induction
<1> QED
  BY <1>3, LenProperties DEF T

LEMMA FlattenHead ==
  ASSUME NEW s \in Seq(Seq(Byte)), s # <<>>
  PROVE  FlattenSeq(s) = Head(s) \o FlattenSeq(Tail(s))
<1> DEFINE T == {n \in Nat : \A u \in Seq(Seq(Byte)) :
                   Len(u) = n /\ u # <<>> =>
                     FlattenSeq(u) = Head(u) \o FlattenSeq(Tail(u))}
<1>1. 0 \in T
  BY EmptySeq
<1>2. ASSUME NEW n \in Nat, n \in T
      PROVE  n + 1 \in T
  <2> SUFFICES ASSUME NEW u \in Seq(Seq(Byte)), Len(u) = n + 1
               PROVE  FlattenSeq(u) = Head(u) \o FlattenSeq(Tail(u))
    OBVIOUS
  <2>1. PICK v \in Seq(Seq(Byte)), p \in Seq(Byte) : u = Append(v, p)
    BY LastApart
  <2>2. Len(v) \in Nat /\ Len(u) = Len(v) + 1
    BY <2>1, AppendProperties, LenProperties
  <2>3. /\ Head(u) = IF v = <<>> THEN p ELSE Head(v)
        /\ Tail(u) = IF v = <<>> THEN <<>> ELSE Append(Tail(v), p)
    BY <2>1, HeadTailAppend
  <2>4. FlattenSeq(u) = FlattenSeq(v) \o p
    BY <2>1, FlattenAppend
  <2>5. CASE v = <<>>
    BY <2>3, <2>4, <2>5, FlattenEmpty, ConcatEmptySeq
  <2>6. CASE v # <<>>
    <3>1. FlattenSeq(v) = Head(v) \o FlattenSeq(Tail(v))
      BY <1>2, <2>2, <2>6
    <3>2. Head(v) \in Seq(Byte) /\ Tail(v) \in Seq(Seq(Byte))
      BY <2>6, HeadTailProperties
    <3>3. FlattenSeq(Tail(v)) \in Seq(Byte)
      BY <3>2, FlattenType
    <3>4. FlattenSeq(Tail(u)) = FlattenSeq(Tail(v)) \o p
      BY <2>3, <2>6, <3>2, FlattenAppend
    <3> DEFINE h == Head(v)
               r == FlattenSeq(Tail(v))
    <3> HIDE DEF h, r
    <3>5. h \in Seq(Byte) /\ r \in Seq(Byte)
      BY <3>2, <3>3 DEF h, r
    <3>6. (h \o r) \o p = h \o (r \o p)
      BY <3>5, Associative
    <3> QED
      BY <2>3, <2>4, <2>6, <3>1, <3>4, <3>6 DEF h, r
  <2> QED
    BY <2>5, <2>6
<1> HIDE DEF T
<1>3. Nat \subseteq T
  BY <1>1, <1>2, Induction
<1> QED
  BY <1>3, LenProperties DEF T

-----------------------------------------------------------------------------
(* Strings in the queue                                                    *)

LEMMA Splits ==
  ASSUME NEW h \in Seq(Byte), NEW r \in Seq(Byte)
  PROVE  /\ h \o r \in Seq(Byte) /\ Len(h \o r) = Len(h) + Len(r)
         /\ Len(h) \in 0 .. Len(h \o r)
         /\ SubSeq(h \o r, 1, Len(h)) = h
         /\ SubSeq(h \o r, Len(h) + 1, Len(h \o r)) = r
<1> DEFINE s == h \o r
           n == Len(h)
           m == Len(r)
           a == SubSeq(s, 1, n)
           b == SubSeq(s, n + 1, n + m)
<1>1. /\ n \in Nat /\ m \in Nat /\ s \in Seq(Byte) /\ Len(s) = n + m
      /\ \A i \in 1 .. n + m : s[i] = IF i <= n THEN h[i] ELSE r[i - n]
  BY ConcatProperties, LenProperties
<1>2. \A i \in 1 .. n + m : s[i] \in Byte
  BY <1>1, ElementOfSeq
<1> HIDE DEF s
<1>3. a \in Seq(Byte) /\ Len(a) = n /\ \A i \in 1 .. n : a[i] = s[i]
  <2> HIDE DEF n, m
  <2>1. \A i \in 1 .. n : s[i] \in Byte
    BY <1>1, <1>2
  <2>2. /\ a \in Seq(Byte) /\ Len(a) = IF 1 <= n THEN n - 1 + 1 ELSE 0
        /\ \A i \in 1 .. n - 1 + 1 : a[i] = s[1 + i - 1]
    BY <1>1, <2>1, SubSeqProperties
  <2> HIDE DEF a
  <2>3. QED
    BY <1>1, <2>2
<1>4. b \in Seq(Byte) /\ Len(b) = m /\ \A i \in 1 .. m : b[i] = s[n + i]
  <2> HIDE DEF n, m
  <2>1. \A i \in n + 1 .. n + m : s[i] \in Byte
    BY <1>1, <1>2
  <2> DEFINE i == n + 1
             j == n + m
  <2>2. i \in Int /\ j \in Int /\ j - i + 1 = m /\ (i <= j <=> 1 <= m)
    BY <1>1
  <2> HIDE DEF i, j
  <2>3. /\ b \in Seq(Byte) /\ Len(b) = IF i <= j THEN j - i + 1 ELSE 0
        /\ \A k \in 1 .. j - i + 1 : b[k] = s[i + k - 1]
    BY <2>1, <2>2, SubSeqProperties DEF i, j
  <2> HIDE DEF b
  <2>4. Len(b) = m
    <3>1. CASE m = 0
      BY <1>1, <2>2, <2>3, <3>1
    <3>2. CASE 1 <= m
      BY <1>1, <2>2, <2>3, <3>2
    <3>3. QED
      BY <1>1, <3>1, <3>2
  <2>5. ASSUME NEW k \in 1 .. m
        PROVE  b[k] = s[n + k]
    <3>1. b[k] = s[i + k - 1]
      BY <1>1, <2>2, <2>3
    <3>2. i + k - 1 = n + k
      BY <1>1 DEF i
    <3>3. QED
      BY <3>1, <3>2
  <2>6. QED
    BY <2>3, <2>4, <2>5
<1> HIDE DEF a, b
<1>5. a = h
  BY <1>1, <1>3, SeqEqual
<1>6. b = r
  <2>1. ASSUME NEW i \in 1 .. m
        PROVE  b[i] = r[i]
    <3> HIDE DEF n, m
    <3>1. n + i \in 1 .. n + m /\ ~(n + i <= n) /\ (n + i) - n = i
      BY <1>1
    <3>2. s[n + i] = r[i]
      BY <1>1, <3>1
    <3>3. QED
      BY <1>4, <3>2
  <2>2. QED
    BY <1>4, <2>1, SeqEqual
<1>7. QED
  BY <1>1, <1>5, <1>6 DEF a, b, s

\* A string cut after its first n bytes.
LEMMA DropIs ==
  ASSUME NEW s \in Seq(Byte), NEW n \in Nat, n <= Len(s)
  PROVE  /\ Drop(s, n) \in Seq(Byte) /\ SubSeq(s, 1, n) \in Seq(Byte)
         /\ Len(SubSeq(s, 1, n)) = n
         /\ SubSeq(s, 1, n) \o Drop(s, n) = s
<1> DEFINE m == Len(s)
           i == n + 1
<1>1. m \in Nat /\ \A k \in 1 .. m : s[k] \in Byte
  BY LenProperties, ElementOfSeq
<1>2. i \in Int /\ m \in Int /\ \A k \in i .. m : s[k] \in Byte
  BY <1>1
<1>3. SubSeq(s, i, m) \in Seq(Byte)
  <2> HIDE DEF i, m
  <2>1. QED
    BY <1>2, SubSeqProperties
<1>4. SubSeq(s, 1, n) \in Seq(Byte) /\ Len(SubSeq(s, 1, n)) = n
  <2> DEFINE x == SubSeq(s, 1, n)
  <2>1. \A k \in 1 .. n : s[k] \in Byte
    BY <1>1
  <2>2. x \in Seq(Byte) /\ Len(x) = IF 1 <= n THEN n - 1 + 1 ELSE 0
    BY <2>1, SubSeqProperties
  <2> HIDE DEF x
  <2>3. Len(x) = n
    BY <2>2
  <2>4. QED
    BY <2>2, <2>3 DEF x
<1>5. SubSeq(s, 1, n) \o SubSeq(s, n + 1, m) = SubSeq(s, 1, m)
  <2>1. 1 \in 1 .. Len(s) + 1 /\ n \in 1 - 1 .. Len(s) /\ m \in n .. Len(s)
    BY <1>1
  <2>2. QED
    BY <2>1, ConcatAdjacentSubSeq
<1>6. SubSeq(s, 1, m) = s
  BY SubSeqFull
<1>7. QED
  BY <1>3, <1>4, <1>5, <1>6 DEF Drop

LEMMA DropNone ==
  ASSUME NEW s \in Seq(Byte)
  PROVE  Drop(s, 0) = s
<1>1. SubSeq(s, 1, Len(s)) = s
  BY SubSeqFull
<1>2. QED
  BY <1>1 DEF Drop

LEMMA DropAll ==
  ASSUME NEW s \in Seq(Byte)
  PROVE  Drop(s, Len(s)) = <<>>
<1>1. Len(s) \in Nat
  BY LenProperties
<1>2. Len(s) + 1 \in Int /\ Len(s) \in Int /\ Len(s) < Len(s) + 1
  BY <1>1
<1>3. QED
  BY <1>2, SubSeqEmpty DEF Drop

\* A packet of m bytes off the front.
LEMMA DropMore ==
  ASSUME NEW s \in Seq(Byte), NEW n \in Nat, NEW m \in Nat, n + m <= Len(s)
  PROVE  /\ SubSeq(s, n + 1, n + m) \in Seq(Byte)
         /\ Drop(s, n) = SubSeq(s, n + 1, n + m) \o Drop(s, n + m)
<1> DEFINE i == n + 1
           j == n + m
           l == Len(s)
<1>1. l \in Nat /\ \A k \in 1 .. l : s[k] \in Byte
  BY LenProperties, ElementOfSeq
<1>2. /\ i \in 1 .. l + 1 /\ j \in i - 1 .. l /\ l \in j .. l
      /\ i \in Int /\ j \in Int
      /\ \A k \in i .. j : s[k] \in Byte
  BY <1>1
<1>3. SubSeq(s, i, j) \in Seq(Byte)
  <2> HIDE DEF i, j, l
  <2>1. QED
    BY <1>2, SubSeqProperties
<1>4. SubSeq(s, i, j) \o SubSeq(s, j + 1, l) = SubSeq(s, i, l)
  <2> HIDE DEF i, j
  <2>1. QED
    BY <1>2, ConcatAdjacentSubSeq
<1>5. QED
  BY <1>3, <1>4 DEF Drop

-----------------------------------------------------------------------------
(* The two buffers as one string                                           *)

\* Bytes the transfer under way has sent.
Gone(j) == IF j.busy THEN j.at ELSE 0

\* What statics s and job j hold for the host.
Waiting(s, j) == Drop(s.buf[Other(s.sel)], Gone(j)) \o s.buf[s.sel]

\* On-going with no job behind it.
Stalled(s, j) == s.ongoing /\ ~j.busy

LEMMA Buffered ==
  ASSUME NEW s \in Statics, NEW b \in Buffers
  PROVE  s.buf[b] \in Seq(Byte) /\ Len(s.buf[b]) \in 0 .. BufSize
<1>1. s.buf[b] \in Strings(BufSize)
  BY DEF Statics
<1>2. QED
  BY <1>1, Sizes, StringIs, StringLen

LEMMA GoneIs ==
  ASSUME NEW s \in Statics, NEW j \in Job, Apart(s, j), Within(j)
  PROVE  /\ s.sel \in Buffers /\ Other(s.sel) \in Buffers
         /\ Gone(j) \in Nat /\ Gone(j) <= Len(s.buf[Other(s.sel)])
<1>1. s.sel \in Buffers /\ Other(s.sel) \in Buffers
  BY OtherBuffer DEF Statics
<1>2. Len(s.buf[Other(s.sel)]) \in 0 .. BufSize
  BY <1>1, Buffered
<1>3. j.at \in Nat
  BY Sizes DEF Job
<1>4. CASE j.busy
  BY <1>1, <1>3, <1>4 DEF Apart, Within, Gone
<1>5. CASE ~j.busy
  BY <1>1, <1>2, <1>5, Sizes DEF Gone
<1>6. QED
  BY <1>4, <1>5

LEMMA WaitingType ==
  ASSUME NEW s \in Statics, NEW j \in Job, Apart(s, j), Within(j)
  PROVE  /\ Drop(s.buf[Other(s.sel)], Gone(j)) \in Seq(Byte)
         /\ s.buf[s.sel] \in Seq(Byte)
         /\ Waiting(s, j) \in Seq(Byte)
<1>1. /\ s.sel \in Buffers /\ Other(s.sel) \in Buffers
      /\ Gone(j) \in Nat /\ Gone(j) <= Len(s.buf[Other(s.sel)])
  BY GoneIs
<1>2. s.buf[s.sel] \in Seq(Byte) /\ s.buf[Other(s.sel)] \in Seq(Byte)
  BY <1>1, Buffered
<1>3. Drop(s.buf[Other(s.sel)], Gone(j)) \in Seq(Byte)
  BY <1>1, <1>2, DropIs
<1>4. QED
  BY <1>2, <1>3, ConcatProperties DEF Waiting

\* Two statics with the same bytes in the same order, and nothing sent of them:
\* the same buffers, or swapped while the one not current is empty.
LEMMA SameWaiting ==
  ASSUME NEW s \in Statics, NEW t, NEW j, NEW k, t.buf = s.buf, Gone(j) = 0, Gone(k) = 0,
         \/ t.sel = s.sel
         \/ t.sel = Other(s.sel) /\ s.buf[Other(s.sel)] = <<>>
  PROVE  Waiting(t, k) = Waiting(s, j)
<1>1. s.sel \in Buffers /\ Other(s.sel) \in Buffers /\ Other(Other(s.sel)) = s.sel
  BY OtherBuffer DEF Statics
<1>2. s.buf[s.sel] \in Seq(Byte) /\ <<>> \in Seq(Byte)
  BY <1>1, Buffered, EmptySeq
<1>3. CASE t.sel = s.sel
  BY <1>3 DEF Waiting
<1>4. CASE t.sel = Other(s.sel) /\ s.buf[Other(s.sel)] = <<>>
  <2> DEFINE x == s.buf[s.sel]
  <2>1. Waiting(s, j) = Drop(<<>>, 0) \o x /\ Waiting(t, k) = Drop(x, 0) \o <<>>
    BY <1>1, <1>4 DEF Waiting
  <2>2. Drop(<<>>, 0) = <<>> /\ Drop(x, 0) = x
    BY <1>2, DropNone
  <2> HIDE DEF x
  <2>3. QED
    BY <1>2, <2>1, <2>2, ConcatEmptySeq DEF x
<1>5. QED
  BY <1>3, <1>4

\* udi_cdc_tx_send() moves no byte; the endpoint refuses it, if at all, when it is
\* not on.
LEMMA SendHolds ==
  ASSUME NEW s \in Statics, NEW e, NEW j \in Job, Apart(s, j), Within(j),
         sof.frame \in 0 .. Frames - 1
  PROVE  LET r == TxSend(s, e, j)
         IN /\ r.job.busy => j.busy \/ e = "on"
            /\ \/ /\ Waiting(r.tx, r.job) = Waiting(s, j)
                  /\ r.tx.ongoing /\ ~s.ongoing => r.job.busy
                  /\ Stalled(r.tx, r.job) <=> Stalled(s, j)
               \/ /\ e # "on" /\ ~s.ongoing /\ Stalled(r.tx, r.job)
<1> DEFINE c == Chosen(s)
           bytes == s.buf[c.src]
<1>1. /\ c.sel \in Buffers /\ c.src = Other(c.sel) /\ c.src \in Buffers
      /\ s.both => c.sel = s.sel
      /\ ~s.both => c.sel = Other(s.sel)
      /\ s.sel \in Buffers
  BY ChosenIs, OtherBuffer DEF Statics
<1>2. CASE Waits(s)
  <2>1. TxSend(s, e, j).tx = s /\ TxSend(s, e, j).job = j
    BY <1>2 DEF TxSend
  <2>2. QED
    BY <2>1
<1>3. CASE ~Waits(s) /\ Rests(s)
  <2> DEFINE t == [s EXCEPT !.idle = Counted(@)]
  <2>1. TxSend(s, e, j).tx = t /\ TxSend(s, e, j).job = j
    BY <1>3 DEF TxSend
  <2>2. t.ongoing = s.ongoing /\ t.sel = s.sel /\ t.buf = s.buf
    BY DEF Statics
  <2> HIDE DEF t
  <2>3. Waiting(t, j) = Waiting(s, j) /\ (Stalled(t, j) <=> Stalled(s, j))
    BY <2>2 DEF Waiting, Stalled
  <2>4. QED
    BY <2>1, <2>2, <2>3
<1>4. CASE ~Waits(s) /\ ~Rests(s)
  <2> DEFINE t == [s EXCEPT !.idle = 0, !.sel = c.sel, !.ongoing = TRUE,
                            !.sof = Stamp(bytes)]
             a == Armed(e, j, c.src, bytes)
  <2>1. TxSend(s, e, j).tx = t /\ TxSend(s, e, j).job = a
    BY <1>4 DEF TxSend
  <2>2. ~s.ongoing /\ ~j.busy
    BY <1>4 DEF Waits, Apart
  <2>3. t.ongoing = TRUE /\ t.sel = c.sel /\ t.buf = s.buf
    <3>1. t = Sending(s, c.sel, Stamp(bytes))
      BY DEF Sending
    <3>2. Stamp(bytes) \in 0 .. Frames - 1
      BY Sizes DEF Stamp
    <3> HIDE DEF t, c, bytes
    <3>3. QED
      BY <1>1, <3>1, <3>2, SendingIs
  <2>4. CASE e = "on"
    <3>1. a.busy = TRUE /\ a.at = 0
      BY <2>2, <2>4 DEF Armed
    <3> HIDE DEF t, a, c
    <3>2. ~s.both => s.buf[Other(s.sel)] = <<>>
      BY <2>2 DEF Apart
    <3>3. Gone(j) = 0 /\ Gone(a) = 0
      BY <2>2, <3>1 DEF Gone
    <3>4. \/ t.sel = s.sel
          \/ t.sel = Other(s.sel) /\ s.buf[Other(s.sel)] = <<>>
      BY <1>1, <2>3, <3>2
    <3>5. Waiting(t, a) = Waiting(s, j)
      BY <2>3, <3>3, <3>4, SameWaiting
    <3>6. ~Stalled(t, a) /\ ~Stalled(s, j)
      BY <2>2, <3>1 DEF Stalled
    <3>7. QED
      BY <2>1, <2>4, <3>1, <3>5, <3>6
  <2>5. CASE e # "on"
    <3>1. a = j
      BY <2>5 DEF Armed
    <3> HIDE DEF t, a
    <3>2. Stalled(t, a)
      BY <2>2, <2>3, <3>1 DEF Stalled
    <3>3. QED
      BY <2>1, <2>2, <2>5, <3>1, <3>2
  <2>6. QED
    BY <2>4, <2>5
<1>5. QED
  BY <1>2, <1>3, <1>4

-----------------------------------------------------------------------------
(* The queue                                                               *)

\* A job runs on an endpoint that is on; there the banks hold packets only while
\* the transmitter goes on.
OnlyOn == job.busy => ep = "on"

LineFlows == line # <<>> => ep = "on" /\ ~Stuck

QueueInv == Inv /\ OnlyOn /\ LineFlows

Contents(e, s, j, l) ==
  IF e = "off" \/ Stalled(s, j) THEN <<>> ELSE FlattenSeq(l) \o Waiting(s, j)

LEMMA LineType ==
  ASSUME NEW l \in Seq(Strings(PacketSize))
  PROVE  l \in Seq(Seq(Byte)) /\ FlattenSeq(l) \in Seq(Byte)
<1>1. Strings(PacketSize) \subseteq Seq(Byte)
  BY StringIs, Sizes
<1>2. Len(l) \in Nat /\ l \in [1 .. Len(l) -> Strings(PacketSize)]
  BY LenProperties
<1>3. l \in [1 .. Len(l) -> Seq(Byte)]
  BY <1>1, <1>2
<1>4. l \in Seq(Seq(Byte))
  BY <1>2, <1>3, SeqDef
<1>5. QED
  BY <1>4, FlattenType

LEMMA ContentsIs ==
  ASSUME NEW s \in Statics, NEW j \in Job, Apart(s, j), Within(j),
         NEW l \in Seq(Strings(PacketSize)), NEW e
  PROVE  /\ FlattenSeq(l) \o Drop(s.buf[Other(s.sel)], Gone(j)) \o s.buf[s.sel]
              = FlattenSeq(l) \o Waiting(s, j)
         /\ Waiting(s, j) \in Seq(Byte)
         /\ Contents(e, s, j, l) \in Seq(Byte)
<1> DEFINE f == FlattenSeq(l)
           d == Drop(s.buf[Other(s.sel)], Gone(j))
           b == s.buf[s.sel]
<1>1. f \in Seq(Byte) /\ d \in Seq(Byte) /\ b \in Seq(Byte) /\ Waiting(s, j) = d \o b
  BY LineType, WaitingType DEF Waiting
<1> HIDE DEF f, d, b
<1>2. (f \o d) \o b = f \o (d \o b)
  BY <1>1, Associative
<1>3. Waiting(s, j) \in Seq(Byte) /\ f \o Waiting(s, j) \in Seq(Byte)
  BY <1>1, ConcatProperties
<1>4. Contents(e, s, j, l) \in Seq(Byte)
  BY <1>3, EmptySeq DEF Contents, f
<1>5. QED
  BY <1>1, <1>2, <1>3, <1>4 DEF f, d, b

LEMMA PipeNow ==
  ASSUME Inv
  PROVE  Pipe = Contents(ep, tx, job, line) /\ Pipe \in Seq(Byte)
<1>1. tx \in Statics /\ job \in Job /\ Apart(tx, job) /\ Within(job)
      /\ line \in Seq(Strings(PacketSize))
  BY Parts DEF Core, Rest
<1>2. /\ FlattenSeq(line) \o Drop(tx.buf[Other(tx.sel)], Gone(job)) \o tx.buf[tx.sel]
           = FlattenSeq(line) \o Waiting(tx, job)
      /\ Contents(ep, tx, job, line) \in Seq(Byte)
  BY <1>1, ContentsIs
<1>3. Pipe = Contents(ep, tx, job, line)
  BY <1>2 DEF Pipe, Contents, Stuck, Stalled, Gone
<1>4. QED
  BY <1>2, <1>3

LEMMA PipeNext ==
  ASSUME Inv'
  PROVE  Pipe' = Contents(ep', tx', job', line') /\ Pipe' \in Seq(Byte)
<1>1. tx' \in Statics /\ job' \in Job /\ Apart(tx', job') /\ Within(job')
      /\ line' \in Seq(Strings(PacketSize))
  BY DEF Inv, TypeOK, Statics, Job, Apart, Within
<1>2. /\ FlattenSeq(line') \o Drop(tx'.buf[Other(tx'.sel)], Gone(job')) \o tx'.buf[tx'.sel]
           = FlattenSeq(line') \o Waiting(tx', job')
      /\ Contents(ep', tx', job', line') \in Seq(Byte)
  BY <1>1, ContentsIs
<1>3. Pipe' = Contents(ep', tx', job', line')
  BY <1>2 DEF Pipe, Contents, Stuck, Stalled, Gone
<1>4. QED
  BY <1>2, <1>3

-----------------------------------------------------------------------------
(* Every step of the port is a step of the queue, or none                  *)

Moves == Fifo!Next \/ UNCHANGED Fifo!fifoVars

LEMMA MoveNone ==
  ASSUME Pipe' = Pipe, host'.got = host.got, epoch' = epoch
  PROVE  Moves
BY DEF Moves, Fifo!fifoVars

LEMMA MoveAccept ==
  ASSUME NEW n \in 1 .. BufSize, NEW c \in [1 .. n -> Byte], Pipe' = Pipe \o c,
         host'.got = host.got, epoch' = epoch
  PROVE  Moves
<1>1. c \in Fifo!Chunk
  BY DEF Fifo!Chunk
<1>2. Fifo!Accept
  BY <1>1 DEF Fifo!Accept
<1>3. QED
  BY <1>2 DEF Moves, Fifo!Next

LEMMA MoveTake ==
  ASSUME NEW p \in Seq(Byte), p # <<>>, NEW r \in Seq(Byte), Pipe = p \o r, Pipe' = r,
         host'.got = p, epoch' = epoch
  PROVE  Moves
<1>1. Len(p) \in Nat /\ Len(p) # 0
  BY LenProperties, EmptySeq
<1>2. /\ Len(p) \in 0 .. Len(Pipe)
      /\ SubSeq(Pipe, 1, Len(p)) = p
      /\ SubSeq(Pipe, Len(p) + 1, Len(Pipe)) = r
  BY Splits
<1>3. Len(p) \in 1 .. Len(Pipe)
  BY <1>1, <1>2
<1>4. Fifo!Take
  BY <1>2, <1>3 DEF Fifo!Take
<1>5. QED
  BY <1>4 DEF Moves, Fifo!Next

\* The oldest bytes h go, and the "again" bytes a are sent again.
LEMMA MoveCut ==
  ASSUME NEW h \in Seq(Byte), NEW r \in Seq(Byte), NEW a \in Seq(Byte),
         Len(a) <= BufSize, Pipe = h \o r, Pipe' = a \o r,
         host'.got = host.got, epoch' = 1 - epoch
  PROVE  Moves
<1>1. Len(h) \in 0 .. Len(Pipe) /\ r = SubSeq(Pipe, Len(h) + 1, Len(Pipe))
  BY Splits
<1>2. a \in Fifo!Chunk \cup {<<>>}
  <2>1. Len(a) \in Nat /\ a \in [1 .. Len(a) -> Byte]
    BY LenProperties
  <2>2. CASE Len(a) = 0
    BY <2>2, EmptySeq
  <2>3. CASE Len(a) # 0
    <3>1. Len(a) \in 1 .. BufSize
      BY <2>1, <2>3, Sizes
    <3>2. QED
      BY <2>1, <3>1 DEF Fifo!Chunk
  <2>4. QED
    BY <2>2, <2>3
<1>3. \E k \in 0 .. Len(Pipe), again \in Fifo!Chunk \cup {<<>>} :
        Pipe' = again \o SubSeq(Pipe, k + 1, Len(Pipe))
  BY <1>1, <1>2
<1>4. Fifo!Cut
  BY <1>3 DEF Fifo!Cut
<1>5. QED
  BY <1>4 DEF Moves, Fifo!Next

\* The same with nothing sent again, and with nothing left.
LEMMA MoveLose ==
  ASSUME NEW h \in Seq(Byte), NEW r \in Seq(Byte), Pipe = h \o r, Pipe' = r,
         host'.got = host.got, epoch' = 1 - epoch
  PROVE  Moves
<1>1. <<>> \in Seq(Byte) /\ Len(<<>>) = 0 /\ Pipe' = <<>> \o r
  BY EmptySeq, ConcatEmptySeq
<1>2. Len(<<>>) <= BufSize
  BY <1>1, Sizes
<1>3. QED
  BY <1>1, <1>2, MoveCut

LEMMA MoveLoseAll ==
  ASSUME Pipe \in Seq(Byte), Pipe' = <<>>, host'.got = host.got, epoch' = 1 - epoch
  PROVE  Moves
<1>1. <<>> \in Seq(Byte) /\ Pipe = Pipe \o <<>>
  BY EmptySeq, ConcatEmptySeq
<1>2. QED
  BY <1>1, MoveLose

-----------------------------------------------------------------------------
(* The steps                                                               *)

LEMMA Typed ==
  ASSUME Inv
  PROVE  /\ tx \in Statics /\ job \in Job /\ Apart(tx, job) /\ Within(job)
         /\ line \in Seq(Strings(PacketSize)) /\ line \in Seq(Seq(Byte))
         /\ FlattenSeq(line) \in Seq(Byte) /\ Waiting(tx, job) \in Seq(Byte)
         /\ sof.frame \in 0 .. Frames - 1 /\ next \in Byte /\ main \in Mains
         /\ host \in [got : Strings(PacketSize), open : BOOLEAN]
<1>1. /\ tx \in Statics /\ job \in Job /\ Apart(tx, job) /\ Within(job)
      /\ line \in Seq(Strings(PacketSize))
      /\ sof.frame \in 0 .. Frames - 1 /\ next \in Byte /\ main \in Mains
      /\ host \in [got : Strings(PacketSize), open : BOOLEAN]
  BY Parts DEF Core, Rest, Mains
<1>2. QED
  BY <1>1, LineType, WaitingType

LEMMA NoJobHolds ==
  /\ NoJob \in Job /\ ~NoJob.busy /\ Gone(NoJob) = 0 /\ Within(NoJob)
BY NoJobType DEF Gone, Within

\* Stored where the endpoint is: the same bytes, in the banks and the buffers.
LEMMA SamePipe ==
  ASSUME Inv, Inv', ep' = ep, FlattenSeq(line') = FlattenSeq(line),
         Waiting(tx', job') = Waiting(tx, job),
         Stalled(tx', job') <=> Stalled(tx, job)
  PROVE  Pipe' = Pipe
BY PipeNow, PipeNext DEF Contents

LEMMA SofMoves ==
  ASSUME QueueInv, Inv', SofNotify
  PROVE  /\ Moves
         /\ OnlyOn' /\ LineFlows'
<1> DEFINE s == TxSend(tx, ep, job)
<1>1. Inv /\ OnlyOn /\ LineFlows
  BY DEF QueueInv
<1>2. /\ tx \in Statics /\ job \in Job /\ Apart(tx, job) /\ Within(job)
      /\ sof.frame \in 0 .. Frames - 1
  BY <1>1, Typed
<1>3. /\ s.job.busy => job.busy \/ ep = "on"
      /\ \/ /\ Waiting(s.tx, s.job) = Waiting(tx, job)
            /\ s.tx.ongoing /\ ~tx.ongoing => s.job.busy
            /\ Stalled(s.tx, s.job) <=> Stalled(tx, job)
         \/ /\ ep # "on" /\ ~tx.ongoing /\ Stalled(s.tx, s.job)
  BY <1>2, SendHolds
<1>4. /\ UNCHANGED <<ep, line, main, next, host>>
      /\ ep = "off" => UNCHANGED <<tx, job, epoch>>
      /\ ep # "off" =>
           /\ tx' = s.tx /\ job' = s.job
           /\ epoch' = IF ~tx.ongoing /\ s.tx.ongoing /\ ~s.job.busy
                       THEN 1 - epoch ELSE epoch
  BY DEF SofNotify
<1> HIDE DEF s
<1>5. CASE ep = "off"
  <2>1. Pipe' = Pipe /\ host'.got = host.got /\ epoch' = epoch
    BY <1>1, <1>4, <1>5, PipeNow, PipeNext
  <2>2. OnlyOn' /\ LineFlows'
    BY <1>1, <1>4, <1>5 DEF OnlyOn, LineFlows, Stuck
  <2>3. QED
    BY <2>1, <2>2, MoveNone
<1>6. CASE ep # "off" /\ (Stalled(s.tx, s.job) <=> Stalled(tx, job))
           /\ Waiting(s.tx, s.job) = Waiting(tx, job)
           /\ (s.tx.ongoing /\ ~tx.ongoing => s.job.busy)
  <2>1. tx' = s.tx /\ job' = s.job /\ epoch' = epoch /\ line' = line /\ ep' = ep
        /\ host' = host
    BY <1>4, <1>6
  <2>2. Pipe' = Pipe
    BY <1>1, <1>6, <2>1, SamePipe
  <2>3. OnlyOn'
    BY <1>1, <1>3, <2>1 DEF OnlyOn
  <2>4. LineFlows'
    BY <1>1, <1>6, <2>1 DEF LineFlows, Stuck, Stalled
  <2>5. QED
    BY <2>1, <2>2, <2>3, <2>4, MoveNone
<1>7. CASE ep # "off" /\ ep # "on" /\ ~tx.ongoing /\ Stalled(s.tx, s.job)
  <2>1. /\ tx' = s.tx /\ job' = s.job /\ epoch' = 1 - epoch /\ line' = line /\ ep' = ep
        /\ host' = host
    BY <1>4, <1>7 DEF Stalled
  <2>2. Pipe' = <<>> /\ Pipe \in Seq(Byte)
    BY <1>1, <1>7, <2>1, PipeNow, PipeNext DEF Contents
  <2>3. OnlyOn' /\ LineFlows'
    BY <1>1, <1>7, <2>1 DEF OnlyOn, LineFlows, Stalled
  <2>4. QED
    BY <2>1, <2>2, <2>3, MoveLoseAll
<1>8. QED
  BY <1>3, <1>5, <1>6, <1>7

LEMMA EndMoves ==
  ASSUME QueueInv, Inv', TransferEnds
  PROVE  /\ Moves
         /\ OnlyOn' /\ LineFlows'
<1> DEFINE t == Sent(tx)
           s == TxSend(t, ep, NoJob)
           o == Other(tx.sel)
<1>1. Inv /\ OnlyOn /\ LineFlows
  BY DEF QueueInv
<1>2. /\ tx \in Statics /\ job \in Job /\ Apart(tx, job) /\ Within(job)
      /\ sof.frame \in 0 .. Frames - 1 /\ line \in Seq(Seq(Byte))
      /\ FlattenSeq(line) \in Seq(Byte)
  BY <1>1, Typed
<1>3. /\ job.busy /\ job.at = job.size /\ ep = "on" /\ ep' = ep
      /\ line' = IF job.zlp THEN Append(line, <<>>) ELSE line
      /\ tx' = s.tx /\ job' = s.job /\ host' = host /\ epoch' = epoch
  BY <1>1 DEF TransferEnds, OnlyOn
<1>4. /\ t \in Statics /\ Apart(t, NoJob) /\ Within(NoJob) /\ t.sel = tx.sel
      /\ t.buf[o] = <<>> /\ t.buf[tx.sel] = tx.buf[tx.sel] /\ ~t.ongoing
  <2>1. HasRoom(tx, main)
    BY <1>1 DEF Inv
  <2>2. t \in Statics /\ Apart(t, NoJob) /\ Within(NoJob)
    BY <1>2, <2>1, SentIs
  <2>3. o \in Buffers /\ o # tx.sel /\ tx.sel \in Buffers /\ DOMAIN tx.buf = Buffers
    BY <1>2, OtherBuffer DEF Statics
  <2> DEFINE b == [tx.buf EXCEPT ![o] = <<>>]
             u == [tx EXCEPT !.buf = b]
  <2>4. b[o] = <<>> /\ b[tx.sel] = tx.buf[tx.sel]
    <3> HIDE DEF o
    <3>1. QED
      BY <2>3
  <2> HIDE DEF b
  <2>5. u.sel = tx.sel /\ u.buf = b /\ {"both", "ongoing", "sel", "buf"} \subseteq DOMAIN u
    BY <1>2 DEF Statics
  <2>6. t = [u EXCEPT !.both = FALSE, !.ongoing = FALSE]
    BY DEF Sent, b
  <2> HIDE DEF u
  <2>7. t.sel = tx.sel /\ t.buf = b /\ t.ongoing = FALSE
    <3> HIDE DEF t
    <3>1. QED
      BY <2>5, <2>6
  <2>8. QED
    BY <2>2, <2>4, <2>7
<1> HIDE DEF t
<1>5. Waiting(t, NoJob) = Waiting(tx, job)
  <2> DEFINE x == tx.buf[tx.sel]
             y == tx.buf[o]
  <2>1. tx.sel \in Buffers /\ o \in Buffers
    BY <1>2, OtherBuffer DEF Statics
  <2>2. x \in Seq(Byte) /\ y \in Seq(Byte)
    BY <1>2, <2>1, Buffered
  <2>3. Gone(job) = Len(y)
    BY <1>2, <1>3 DEF Apart, Gone
  <2>4. Waiting(t, NoJob) = Drop(<<>>, 0) \o x /\ Waiting(tx, job) = Drop(y, Len(y)) \o x
    BY <1>4, <2>3, NoJobHolds DEF Waiting
  <2>5. Drop(<<>>, 0) = <<>> /\ Drop(y, Len(y)) = <<>>
    BY <2>2, EmptySeq, DropNone, DropAll
  <2>6. QED
    BY <2>4, <2>5
<1>6. /\ Waiting(s.tx, s.job) = Waiting(t, NoJob)
      /\ Stalled(s.tx, s.job) <=> Stalled(t, NoJob)
  BY <1>2, <1>3, <1>4, NoJobHolds, SendHolds
<1>7. ~Stalled(tx, job) /\ ~Stalled(t, NoJob)
  BY <1>3, <1>4 DEF Stalled
<1>8. FlattenSeq(line') = FlattenSeq(line)
  <2>1. CASE job.zlp
    <3>1. <<>> \in Seq(Byte) /\ FlattenSeq(line') = FlattenSeq(line) \o <<>>
      BY <1>2, <1>3, <2>1, EmptySeq, FlattenAppend
    <3>2. QED
      BY <1>2, <3>1, ConcatEmptySeq
  <2>2. CASE ~job.zlp
    BY <1>3, <2>2
  <2>3. QED
    BY <2>1, <2>2
<1> HIDE DEF s
<1>9. Pipe' = Pipe
  BY <1>1, <1>3, <1>5, <1>6, <1>7, <1>8, SamePipe
<1>10. OnlyOn' /\ LineFlows'
  BY <1>3, <1>6, <1>7 DEF OnlyOn, LineFlows, Stuck, Stalled
<1>11. QED
  BY <1>3, <1>9, <1>10, MoveNone

LEMMA DmaMoves ==
  ASSUME QueueInv, Inv', DmaMove
  PROVE  /\ Moves
         /\ OnlyOn' /\ LineFlows'
<1> DEFINE n == PacketLen(job)
           a == job.at
           y == tx.buf[Other(tx.sel)]
           x == tx.buf[tx.sel]
           p == SubSeq(y, a + 1, a + n)
           d == Drop(y, a)
           e == Drop(y, a + n)
           f == FlattenSeq(line)
<1>1. Inv /\ OnlyOn /\ LineFlows
  BY DEF QueueInv
<1>2. /\ tx \in Statics /\ job \in Job /\ Apart(tx, job) /\ Within(job)
      /\ line \in Seq(Seq(Byte)) /\ f \in Seq(Byte)
  BY <1>1, Typed
<1>3. /\ job.busy /\ a < job.size /\ tx.ongoing /\ ep = "on"
      /\ job.src = Other(tx.sel) /\ job.size = Len(y)
      /\ line' = Append(line, p) /\ tx' = tx /\ ep' = ep /\ host' = host /\ epoch' = epoch
  BY <1>1, <1>2 DEF DmaMove, Apart, OnlyOn
<1>4. n \in 1 .. PacketSize /\ a + n <= Len(y) /\ a \in Nat
  BY <1>2, <1>3, PacketIs
<1>5. job'.busy /\ job'.at = a + n
  BY <1>2, <1>3 DEF DmaMove, Job
<1>6. x \in Seq(Byte) /\ y \in Seq(Byte)
  <2>1. tx.sel \in Buffers /\ Other(tx.sel) \in Buffers
    BY <1>2, OtherBuffer DEF Statics
  <2>2. QED
    BY <1>2, <2>1, Buffered
<1>7. p \in Seq(Byte) /\ d = p \o e /\ e \in Seq(Byte)
  <2> HIDE DEF n, a, y
  <2>1. n \in Nat /\ a + n \in Nat
    BY <1>4, Sizes
  <2>2. QED
    BY <1>4, <1>6, <2>1, DropMore, DropIs
<1>8. FlattenSeq(line') = f \o p
  <2> HIDE DEF p
  <2>1. QED
    BY <1>2, <1>3, <1>7, FlattenAppend
<1>9. Waiting(tx, job) = d \o x /\ Waiting(tx', job') = e \o x
  BY <1>3, <1>5 DEF Waiting, Gone
<1>10. Pipe = f \o (d \o x) /\ Pipe' = (f \o p) \o (e \o x)
  <2>1. ep # "off" /\ ~Stalled(tx, job) /\ ~Stalled(tx', job')
    BY <1>3, <1>5 DEF Stalled
  <2> HIDE DEF d, e, p, x, y, f, n, a
  <2>2. Pipe = FlattenSeq(line) \o Waiting(tx, job)
    BY <1>1, <2>1, PipeNow DEF Contents
  <2>3. Pipe' = FlattenSeq(line') \o Waiting(tx', job')
    BY <1>3, <2>1, PipeNext DEF Contents
  <2>4. QED
    BY <1>8, <1>9, <2>2, <2>3 DEF f
<1> HIDE DEF d, e, p, x, y, f, n, a
<1>11. Pipe' = Pipe
  <2>1. e \o x \in Seq(Byte)
    BY <1>6, <1>7, ConcatProperties
  <2>2. (p \o e) \o x = p \o (e \o x)
    BY <1>6, <1>7, Associative
  <2>3. (f \o p) \o (e \o x) = f \o (p \o (e \o x))
    BY <1>2, <1>7, <2>1, Associative
  <2>4. QED
    BY <1>7, <1>10, <2>2, <2>3
<1>12. OnlyOn' /\ LineFlows'
  BY <1>3, <1>5 DEF OnlyOn, LineFlows, Stuck
<1>13. QED
  BY <1>3, <1>11, <1>12, MoveNone

\* The host's reader gets the oldest bytes.
LEMMA TakeMoves ==
  ASSUME QueueInv, Inv', HostTake
  PROVE  /\ Moves
         /\ OnlyOn' /\ LineFlows'
<1> DEFINE p == Head(line)
           f == FlattenSeq(Tail(line))
           w == Waiting(tx, job)
<1>1. Inv /\ OnlyOn /\ LineFlows
  BY DEF QueueInv
<1>2. /\ line \in Seq(Seq(Byte)) /\ w \in Seq(Byte)
      /\ host \in [got : Strings(PacketSize), open : BOOLEAN]
  BY <1>1, Typed
<1>3. /\ ep = "on" /\ line # <<>> /\ line' = Tail(line) /\ ~Stuck
      /\ tx' = tx /\ job' = job /\ ep' = ep /\ epoch' = epoch
      /\ host'.got = IF p = <<>> THEN host.got ELSE p
  BY <1>1 DEF HostTake, LineFlows
<1>4. p \in Seq(Byte) /\ Tail(line) \in Seq(Seq(Byte))
  BY <1>2, <1>3, HeadTailProperties
<1>5. f \in Seq(Byte) /\ FlattenSeq(line) = p \o f
  BY <1>2, <1>3, <1>4, FlattenType, FlattenHead
<1>6. Pipe = (p \o f) \o w /\ Pipe' = f \o w
  <2>1. ep # "off" /\ ~Stalled(tx, job)
    BY <1>3 DEF Stuck, Stalled
  <2>2. Pipe = FlattenSeq(line) \o Waiting(tx, job)
    BY <1>1, <2>1, PipeNow DEF Contents
  <2>3. Pipe' = FlattenSeq(line') \o Waiting(tx, job)
    BY <1>3, <2>1, PipeNext DEF Contents
  <2>4. QED
    BY <1>3, <1>5, <2>2, <2>3
<1> HIDE DEF p, f, w
<1>7. f \o w \in Seq(Byte) /\ Pipe = p \o (f \o w)
  BY <1>2, <1>4, <1>5, <1>6, ConcatProperties, Associative
<1>8. Moves
  <2>1. CASE p = <<>>
    <3>1. Pipe' = Pipe
      BY <1>5, <1>6, <2>1, ConcatEmptySeq
    <3>2. QED
      BY <1>3, <2>1, <3>1, MoveNone
  <2>2. CASE p # <<>>
    <3> DEFINE r == f \o w
    <3>1. host'.got = p /\ r \in Seq(Byte) /\ Pipe = p \o r /\ Pipe' = r
      BY <1>3, <1>6, <1>7, <2>2
    <3> HIDE DEF r
    <3>2. QED
      BY <1>3, <1>4, <2>2, <3>1, MoveTake
  <2>3. QED
    BY <2>1, <2>2
<1>9. OnlyOn' /\ LineFlows'
  BY <1>1, <1>3 DEF OnlyOn, LineFlows, Stuck
<1>10. QED
  BY <1>8, <1>9

\* What the host takes the endpoint away with.
LEMMA HostGot ==
  ASSUME Inv, host' = [host EXCEPT !.open = FALSE]
  PROVE  host'.got = host.got
<1>1. host \in [got : Strings(PacketSize), open : BOOLEAN]
  BY Typed
<1>2. QED
  BY <1>1

LEMMA EnableMoves ==
  ASSUME QueueInv, Inv', Enable
  PROVE  /\ Moves
         /\ OnlyOn' /\ LineFlows'
<1> DEFINE s == TxSend(Fresh, "on", NoJob)
<1>1. Inv
  BY DEF QueueInv
<1>2. sof.frame \in 0 .. Frames - 1 /\ Pipe \in Seq(Byte)
  BY <1>1, Typed, PipeNow
<1>3. /\ Fresh \in Statics /\ Apart(Fresh, NoJob) /\ Within(NoJob)
  BY <1>1, FreshIs DEF Inv
<1>4. /\ ep' = "on" /\ tx' = s.tx /\ job' = s.job /\ line' = <<>>
      /\ host' = [host EXCEPT !.open = FALSE] /\ epoch' = 1 - epoch
  BY DEF Enable
<1>5. Waiting(s.tx, s.job) = Waiting(Fresh, NoJob)
  BY <1>2, <1>3, NoJobHolds, SendHolds
<1>6. Waiting(Fresh, NoJob) = <<>>
  <2>1. Fresh.sel \in Buffers /\ Other(Fresh.sel) \in Buffers
    BY <1>3, OtherBuffer DEF Statics
  <2>2. Fresh.buf[Fresh.sel] = <<>> /\ Fresh.buf[Other(Fresh.sel)] = <<>>
    BY <2>1 DEF Fresh
  <2>3. Waiting(Fresh, NoJob) = Drop(<<>>, 0) \o <<>>
    BY <2>2, NoJobHolds DEF Waiting
  <2>4. Drop(<<>>, 0) = <<>>
    BY EmptySeq, DropNone
  <2>5. QED
    BY <2>3, <2>4, EmptySeq, ConcatEmptySeq
<1> HIDE DEF s
<1>7. Pipe' = <<>>
  <2>1. Pipe' = Contents(ep', tx', job', line')
    BY PipeNext
  <2>2. FlattenSeq(line') \o Waiting(tx', job') = <<>> \o <<>>
    BY <1>4, <1>5, <1>6, FlattenEmpty
  <2>3. QED
    BY <2>1, <2>2, EmptySeq, ConcatEmptySeq DEF Contents
<1>8. OnlyOn' /\ LineFlows'
  BY <1>4 DEF OnlyOn, LineFlows
<1>9. QED
  BY <1>1, <1>2, <1>4, <1>7, <1>8, HostGot, MoveLoseAll

LEMMA DisableMoves ==
  ASSUME QueueInv, Inv', Disable
  PROVE  /\ Moves
         /\ OnlyOn' /\ LineFlows'
<1>1. Inv /\ Pipe \in Seq(Byte)
  BY PipeNow DEF QueueInv
<1>2. /\ ep' = "off" /\ ~job'.busy /\ line' = <<>>
      /\ host' = [host EXCEPT !.open = FALSE] /\ epoch' = 1 - epoch
  BY NoJobHolds DEF Disable
<1>3. Pipe' = <<>>
  BY <1>2, PipeNext DEF Contents
<1>4. OnlyOn' /\ LineFlows'
  BY <1>2 DEF OnlyOn, LineFlows
<1>5. QED
  BY <1>1, <1>2, <1>3, <1>4, HostGot, MoveLoseAll

\* A halt drops what the banks hold, and all there is if a transfer was on-going:
\* it stays so for ever.
LEMMA HaltMoves ==
  ASSUME QueueInv, Inv', SetHalt
  PROVE  /\ Moves
         /\ OnlyOn' /\ LineFlows'
<1> DEFINE f == FlattenSeq(line)
           w == Waiting(tx, job)
<1>1. Inv /\ Pipe \in Seq(Byte)
  BY PipeNow DEF QueueInv
<1>2. /\ ep = "on" /\ ep' = "halted" /\ job' = NoJob /\ line' = <<>> /\ tx' = tx
      /\ host' = [host EXCEPT !.open = FALSE] /\ epoch' = 1 - epoch
  BY DEF SetHalt
<1>3. OnlyOn' /\ LineFlows'
  BY <1>2, NoJobHolds DEF OnlyOn, LineFlows
<1>4. tx \in Statics /\ job \in Job /\ Apart(tx, job) /\ f \in Seq(Byte) /\ w \in Seq(Byte)
  BY <1>1, Typed
<1>5. CASE tx.ongoing
  <2>1. Pipe' = <<>>
    BY <1>2, <1>5, NoJobHolds, PipeNext DEF Contents, Stalled
  <2>2. QED
    BY <1>1, <1>2, <1>3, <2>1, HostGot, MoveLoseAll
<1>6. CASE ~tx.ongoing
  <2>1. ~job.busy
    BY <1>4, <1>6 DEF Apart
  <2>2. Gone(job) = 0
    BY <2>1 DEF Gone
  <2>3. Waiting(tx', job') = w
    BY <1>2, <2>2, NoJobHolds DEF Waiting
  <2>4. Pipe = f \o w
    BY <1>1, <1>2, <1>6, PipeNow DEF Contents, Stalled
  <2>5. Pipe' = <<>> \o w
    BY <1>2, <1>6, <2>3, FlattenEmpty, PipeNext DEF Contents, Stalled
  <2> HIDE DEF f, w
  <2>6. Pipe' = w
    BY <1>4, <2>5, ConcatEmptySeq
  <2>7. QED
    BY <1>1, <1>2, <1>3, <1>4, <2>4, <2>6, HostGot, MoveLose
<1>7. QED
  BY <1>5, <1>6

LEMMA ReallocateMoves ==
  ASSUME QueueInv, Inv', Reallocate
  PROVE  /\ Moves
         /\ OnlyOn' /\ LineFlows'
<1> DEFINE f == FlattenSeq(line)
           w == Waiting(tx, job)
           y == tx.buf[Other(tx.sel)]
           x == tx.buf[tx.sel]
<1>1. Inv /\ OnlyOn /\ Pipe \in Seq(Byte)
  BY PipeNow DEF QueueInv
<1>2. /\ ep = "on" /\ ep' = ep /\ line' = <<>> /\ tx' = tx
      /\ host'.got = host.got /\ epoch' = 1 - epoch
      /\ job' = IF job.busy THEN Armed(ep, NoJob, job.src, tx.buf[job.src]) ELSE job
  BY DEF Reallocate
<1>3. OnlyOn' /\ LineFlows'
  BY <1>2 DEF OnlyOn, LineFlows
<1>4. /\ tx \in Statics /\ job \in Job /\ Apart(tx, job) /\ Within(job)
      /\ f \in Seq(Byte) /\ w \in Seq(Byte)
  BY <1>1, Typed
<1>5. CASE ~job.busy
  <2>1. job' = job
    BY <1>2, <1>5
  <2>2. CASE tx.ongoing
    <3>1. Pipe' = <<>>
      BY <1>2, <1>5, <2>1, <2>2, PipeNext DEF Contents, Stalled
    <3>2. QED
      BY <1>1, <1>2, <1>3, <3>1, MoveLoseAll
  <2>3. CASE ~tx.ongoing
    <3>1. Pipe = f \o w
      BY <1>1, <1>2, <2>3, PipeNow DEF Contents, Stalled
    <3>2. Pipe' = <<>> \o w
      BY <1>2, <2>1, <2>3, FlattenEmpty, PipeNext DEF Contents, Stalled
    <3> HIDE DEF f, w
    <3>3. Pipe' = w
      BY <1>4, <3>2, ConcatEmptySeq
    <3>4. QED
      BY <1>2, <1>3, <1>4, <3>1, <3>3, MoveLose
  <2>4. QED
    BY <2>2, <2>3
<1>6. CASE job.busy
  <2> DEFINE a == SubSeq(y, 1, job.at)
             d == Drop(y, job.at)
  <2>1. /\ Gone(job) = job.at /\ job.at \in Nat /\ job.at <= Len(y)
        /\ tx.sel \in Buffers /\ Other(tx.sel) \in Buffers
    BY <1>4, <1>6, GoneIs DEF Gone
  <2>2. x \in Seq(Byte) /\ y \in Seq(Byte) /\ Len(y) \in 0 .. BufSize
    BY <1>4, <2>1, Buffered
  <2>3. a \in Seq(Byte) /\ Len(a) = job.at /\ d \in Seq(Byte) /\ a \o d = y
    <3> HIDE DEF y
    <3>1. QED
      BY <2>1, <2>2, DropIs
  <2>4. job'.busy = TRUE /\ job'.at = 0
    BY <1>2, <1>6, NoJobHolds DEF Armed
  <2>5. Waiting(tx', job') = y \o x
    <3>1. Waiting(tx', job') = Drop(y, 0) \o x
      BY <1>2, <2>4 DEF Waiting, Gone
    <3>2. QED
      BY <2>2, <3>1, DropNone
  <2>6. w = d \o x
    BY <2>1 DEF Waiting
  <2>7. Pipe = f \o w /\ Pipe' = <<>> \o (y \o x)
    BY <1>1, <1>2, <1>6, <2>4, <2>5, FlattenEmpty, PipeNow, PipeNext DEF Contents, Stalled
  <2>8. Len(a) <= BufSize
    BY <2>1, <2>2, <2>3, Sizes
  <2> HIDE DEF f, w, x, y, a, d
  <2>9. Pipe' = a \o w
    <3>1. (a \o d) \o x = a \o (d \o x)
      BY <2>2, <2>3, Associative
    <3>2. y \o x \in Seq(Byte)
      BY <2>2, ConcatProperties
    <3>3. QED
      BY <2>3, <2>6, <2>7, <3>1, <3>2, ConcatEmptySeq
  <2>10. QED
    BY <1>2, <1>3, <1>4, <2>3, <2>7, <2>8, <2>9, MoveCut
<1>7. QED
  BY <1>5, <1>6

\* The application's side: a full buffer that is left keeps its place.
LEMMA CheckMoves ==
  ASSUME QueueInv, Inv', Check
  PROVE  /\ Moves
         /\ OnlyOn' /\ LineFlows'
<1> DEFINE t == FreeSpace(tx)
<1>1. Inv /\ OnlyOn /\ LineFlows
  BY DEF QueueInv
<1>2. tx \in Statics /\ job \in Job /\ Apart(tx, job)
  BY <1>1, Typed
<1>3. /\ tx' = t /\ ep' = ep /\ job' = job /\ line' = line /\ host' = host
      /\ epoch' = epoch
  BY DEF Check
<1>4. Waiting(t, job) = Waiting(tx, job) /\ t.ongoing = tx.ongoing
  <2>1. CASE Len(tx.buf[tx.sel]) = BufSize /\ ~tx.ongoing /\ ~tx.both
    <3>1. t = [tx EXCEPT !.both = TRUE, !.sel = Other(@)]
      BY <2>1 DEF FreeSpace
    <3>2. t.sel = Other(tx.sel) /\ t.ongoing = tx.ongoing /\ t.buf = tx.buf
      BY <1>2, <3>1 DEF Statics
    <3> HIDE DEF t
    <3>3. ~job.busy /\ tx.buf[Other(tx.sel)] = <<>>
      BY <1>2, <2>1 DEF Apart
    <3>4. Gone(job) = 0
      BY <3>3 DEF Gone
    <3>5. QED
      BY <1>2, <3>2, <3>3, <3>4, SameWaiting
  <2>2. CASE ~(Len(tx.buf[tx.sel]) = BufSize /\ ~tx.ongoing /\ ~tx.both)
    <3>1. t = tx
      BY <2>2 DEF FreeSpace
    <3>2. QED
      BY <3>1
  <2>3. QED
    BY <2>1, <2>2
<1> HIDE DEF t
<1>5. Stalled(tx', job') <=> Stalled(tx, job)
  BY <1>3, <1>4 DEF Stalled
<1>6. Pipe' = Pipe
  BY <1>1, <1>3, <1>4, <1>5, SamePipe
<1>7. OnlyOn' /\ LineFlows'
  BY <1>1, <1>3, <1>5 DEF OnlyOn, LineFlows, Stuck, Stalled
<1>8. QED
  BY <1>3, <1>6, <1>7, MoveNone

LEMMA StoreMoves ==
  ASSUME QueueInv, Inv', Store
  PROVE  /\ Moves
         /\ OnlyOn' /\ LineFlows'
<1> DEFINE old == tx.buf[tx.sel]
           c == Run(Stored)
           f == FlattenSeq(line)
           d == Drop(tx.buf[Other(tx.sel)], Gone(job))
<1>1. Inv /\ OnlyOn /\ LineFlows
  BY DEF QueueInv
<1>2. /\ tx \in Statics /\ job \in Job /\ Apart(tx, job) /\ Within(job)
      /\ f \in Seq(Byte) /\ next \in Byte /\ main \in Mains
  BY <1>1, Typed
<1>3. /\ main.pc = "store" /\ tx' = [tx EXCEPT !.buf[tx.sel] = old \o c]
      /\ ep' = ep /\ job' = job /\ line' = line /\ host' = host /\ epoch' = epoch
  BY DEF Store
<1>4. /\ tx.sel \in Buffers /\ Other(tx.sel) \in Buffers /\ Other(tx.sel) # tx.sel
      /\ tx.buf \in [Buffers -> Strings(BufSize)]
  BY <1>2, OtherBuffer DEF Statics
<1>5. old \in Seq(Byte) /\ d \in Seq(Byte) /\ Len(old) \in 0 .. BufSize
  BY <1>2, <1>4, WaitingType, Buffered
<1>6. Stored \in 0 .. BufSize
  <2>1. Len(old) < BufSize /\ main.left > 0
    BY <1>1, <1>3 DEF Inv, HasRoom
  <2> DEFINE g == BufSize - Len(old)
  <2>2. g \in Nat /\ g > 0 /\ g <= BufSize
    BY <1>5, <2>1, Sizes
  <2>3. Free(tx) = g
    BY DEF Free
  <2> HIDE DEF g, old
  <2>4. Stored \in Nat /\ Stored <= g
    BY <1>2, <2>1, <2>2, <2>3, StoredIs
  <2> DEFINE k == Stored
  <2> HIDE DEF k
  <2>5. k \in Nat /\ k <= g => k \in 0 .. BufSize
    BY <2>2, Sizes
  <2>6. QED
    BY <2>4, <2>5 DEF k
<1> DEFINE n == Stored
<1> HIDE DEF n
<1>7. n \in 0 .. BufSize /\ c \in Seq(Byte) /\ Len(c) = n
  <2>1. n \in 0 .. BufSize /\ n \in Nat
    BY <1>6, Sizes DEF n
  <2>2. Run(n) \in Seq(Byte) /\ Len(Run(n)) = n
    BY <1>2, <2>1, RunIs
  <2>3. QED
    BY <2>1, <2>2 DEF n
<1>8. /\ tx'.sel = tx.sel /\ tx'.ongoing = tx.ongoing
      /\ tx'.buf[tx.sel] = old \o c /\ tx'.buf[Other(tx.sel)] = tx.buf[Other(tx.sel)]
  <2> DEFINE b == [tx.buf EXCEPT ![tx.sel] = old \o c]
  <2>1. b[tx.sel] = old \o c /\ b[Other(tx.sel)] = tx.buf[Other(tx.sel)]
    <3> DEFINE v == old \o c
    <3> HIDE DEF v
    <3>1. [tx.buf EXCEPT ![tx.sel] = v][tx.sel] = v
      BY <1>4
    <3>2. [tx.buf EXCEPT ![tx.sel] = v][Other(tx.sel)] = tx.buf[Other(tx.sel)]
      BY <1>4
    <3>3. QED
      BY <3>1, <3>2 DEF v
  <2>2. tx' = [tx EXCEPT !.buf = b]
    BY <1>3
  <2> HIDE DEF b, old, c
  <2>3. tx'.sel = tx.sel /\ tx'.ongoing = tx.ongoing /\ tx'.buf = b
    BY <1>2, <2>2 DEF Statics
  <2>4. QED
    BY <2>1, <2>3
<1>9. OnlyOn' /\ LineFlows'
  BY <1>1, <1>3, <1>8 DEF OnlyOn, LineFlows, Stuck
<1>10. Waiting(tx, job) = d \o old /\ Waiting(tx', job') = d \o (old \o c)
  BY <1>3, <1>8 DEF Waiting
<1>11. Stalled(tx', job') <=> Stalled(tx, job)
  BY <1>3, <1>8 DEF Stalled
<1>12. CASE ep = "off" \/ Stalled(tx, job)
  <2>1. Pipe = <<>> /\ Pipe' = <<>>
    BY <1>1, <1>3, <1>11, <1>12, PipeNow, PipeNext DEF Contents
  <2>2. QED
    BY <1>3, <1>9, <2>1, MoveNone
<1>13. CASE ~(ep = "off" \/ Stalled(tx, job))
  <2>1. Pipe = f \o (d \o old) /\ Pipe' = f \o (d \o (old \o c))
    BY <1>1, <1>3, <1>10, <1>11, <1>13, PipeNow, PipeNext DEF Contents
  <2> HIDE DEF f, d, old, c
  <2>2. Pipe' = Pipe \o c
    <3> DEFINE w == d \o old
    <3>1. w \in Seq(Byte)
      BY <1>5, ConcatProperties
    <3>2. w \o c = d \o (old \o c)
      BY <1>5, <1>7, Associative
    <3> HIDE DEF w
    <3>3. (f \o w) \o c = f \o (w \o c)
      BY <1>2, <1>7, <3>1, Associative
    <3>4. QED
      BY <2>1, <3>2, <3>3 DEF w
  <2>3. CASE n = 0
    <3>1. c = <<>>
      BY <1>7, <2>3, EmptySeq
    <3>2. Pipe \in Seq(Byte)
      BY <1>1, PipeNow
    <3>3. Pipe' = Pipe
      BY <2>2, <3>1, <3>2, ConcatEmptySeq
    <3>4. QED
      BY <1>3, <1>9, <3>3, MoveNone
  <2>4. CASE n # 0
    <3>1. n \in 1 .. BufSize /\ c \in [1 .. n -> Byte]
      BY <1>7, <2>4, Sizes, LenProperties
    <3>2. QED
      BY <1>3, <1>9, <2>2, <3>1, MoveAccept
  <2>5. QED
    BY <2>3, <2>4
<1>14. QED
  BY <1>12, <1>13

LEMMA RestMoves ==
  ASSUME QueueInv, Inv',
         NewFrame \/ ClearHalt \/ (\E c \in Calls, n \in 1 .. MaxWrite : Call(c, n))
                  \/ UNCHANGED vars
  PROVE  /\ Moves
         /\ OnlyOn' /\ LineFlows'
<1>1. Inv /\ OnlyOn /\ LineFlows
  BY DEF QueueInv
<1>2. /\ tx' = tx /\ job' = job /\ line' = line /\ host' = host /\ epoch' = epoch
      /\ ep' = ep \/ (ep = "halted" /\ ep' = "on")
  BY DEF NewFrame, ClearHalt, Call, vars
<1>3. Pipe' = Pipe
  BY <1>1, <1>2, PipeNow, PipeNext DEF Contents
<1>4. OnlyOn' /\ LineFlows'
  BY <1>1, <1>2 DEF OnlyOn, LineFlows, Stuck
<1>5. QED
  BY <1>2, <1>3, <1>4, MoveNone

LEMMA QueueStep ==
  ASSUME QueueInv, [Next]_vars
  PROVE  QueueInv' /\ Moves
<1>1. Inv'
  BY NextKeeps DEF QueueInv
<1>2. Moves /\ OnlyOn' /\ LineFlows'
  BY <1>1, SofMoves, EndMoves, DmaMoves, TakeMoves, EnableMoves, DisableMoves, HaltMoves,
     ReallocateMoves, CheckMoves, StoreMoves, RestMoves
     DEF Next
<1>3. QED
  BY <1>1, <1>2 DEF QueueInv

LEMMA QueueInit == Init => QueueInv /\ Fifo!Init
<1> SUFFICES ASSUME Init PROVE QueueInv /\ Fifo!Init
  OBVIOUS
<1>1. ep = "off" /\ job = NoJob /\ line = <<>> /\ epoch = 0 /\ host.got = <<>>
  BY DEF Init
<1>2. QueueInv
  BY <1>1, InitInv, NoJobHolds DEF QueueInv, OnlyOn, LineFlows
<1>3. Pipe = <<>>
  BY <1>1 DEF Pipe
<1>4. QED
  BY <1>1, <1>2, <1>3, EmptySeq DEF Fifo!Init

\* For every size the two buffers, the transfers, the banks and the interrupts that
\* start them are one queue: the host reads the bytes of udi_cdc_putc() and
\* udi_cdc_write_buf() in order and once each.  Only the host's own halting,
\* stopping or restarting the endpoint takes bytes away - the oldest - or sends some
\* of the transfer under way again.
THEOREM PortIsFifo == Spec => IsFifo
<1>1. QueueInv /\ [Next]_vars => QueueInv' /\ [Fifo!Next]_(Fifo!fifoVars)
  BY QueueStep DEF Moves
<1>2. QED
  BY <1>1, QueueInit, PTL DEF Spec, IsFifo, Fifo!Spec
=============================================================================
