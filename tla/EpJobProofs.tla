----------------------------- MODULE EpJobProofs -----------------------------
(***************************************************************************)
(* Proofs about EpJob: its type invariant, that the channel follows the    *)
(* transfer and the job is always driven, and that EpJob implements        *)
(* EpTransfer, for every size of packet, bank and buffer.                  *)
(*                                                                         *)
(* The invariant says which phase a job that has started is in.  An IN     *)
(* job is being sent, has had a chunk sent, or waits for a free bank for   *)
(* its empty packet; an OUT job is being received or has been received.    *)
(* Each phase fixes how the job's counter, the channel's registers and the *)
(* packets so far add up.  udd_ep_trans_done() is called for a job that is *)
(* at the end of a phase (Ready) and puts it in the next (GoesOn) or ends  *)
(* it (IsOver): that is proved once (Outcome) and used for each of its     *)
(* four callers.                                                           *)
(***************************************************************************)
EXTENDS EpJob, SequenceTheorems, TLAPS

\* A number of full packets.
Mult(n) == n % EpSize = 0

Job == [busy : BOOLEAN, size : Nat, trans : Nat, short : BOOLEAN]
Dma == [st : {"off", "on", "closing"}, at : Nat, left : Nat, end : BOOLEAN,
        eot : BOOLEAN, hit : BOOLEAN]
Irq == [dma : BOOLEAN, ep : BOOLEAN, send : BOOLEAN, txin : BOOLEAN]
Wire == [size : Sizes \cup {0}, short : BOOLEAN, n : Nat, closed : BOOLEAN]
Last == [ok : BOOLEAN, n : Nat]
States == [job : Job, dma : Dma, irq : Irq, line : Seq(0 .. EpSize), wire : Wire, last : Last]

(* The phases of a job. *)

Sending(s) ==
  /\ s.dma.st = "on" /\ s.irq.dma /\ s.dma.left > 0 /\ Mult(s.dma.at)
  /\ s.wire.n = s.dma.at /\ ~s.wire.closed
  /\ s.job.trans = s.dma.at + s.dma.left /\ s.job.trans <= s.job.size
  /\ Mult(s.dma.left) \/ s.job.trans = s.job.size
  /\ (s.dma.end <=> ~Mult(s.dma.left))
  /\ Mult(s.job.size) => (s.job.short <=> s.wire.short)
  /\ s.job.short => Mult(s.dma.left)

ChunkSent(s) ==
  /\ s.dma.st = "off" /\ s.irq.dma /\ s.dma.hit
  /\ 0 < s.job.trans /\ s.job.trans <= s.job.size
  /\ s.wire.n = s.job.trans /\ (s.wire.closed <=> ~Mult(s.job.trans))
  /\ Mult(s.job.trans) \/ s.job.trans = s.job.size
  /\ Mult(s.job.size) => (s.job.short <=> s.wire.short)
  /\ s.job.short => Mult(s.job.trans)

AwaitsBank(s) ==
  /\ s.dma.st = "off" /\ s.irq.ep /\ s.irq.send
  /\ (s.irq.txin <=> Len(s.line) < Banks)
  /\ s.job.trans = s.job.size /\ s.wire.n = s.job.trans /\ Mult(s.job.trans)
  /\ ~s.wire.closed /\ s.job.short /\ s.wire.short

Receiving(s) ==
  /\ s.dma.st = "on" /\ s.irq.dma /\ s.dma.left > 0 /\ Mult(s.dma.left)
  /\ s.wire.n = s.dma.at /\ ~s.wire.closed
  /\ s.job.trans = s.dma.at + s.dma.left /\ s.job.trans = s.job.size

Received(s) ==
  /\ s.irq.dma
  /\ s.dma.st = "closing" \/ (s.dma.st = "off" /\ s.dma.hit)
  /\ s.wire.n = s.dma.at
  /\ s.job.trans = s.dma.at + s.dma.left /\ s.job.trans = s.job.size
  /\ s.wire.closed \/ (s.dma.st = "off" /\ s.dma.left = 0)

Phase(s) == IF dir = "in" THEN Sending(s) \/ ChunkSent(s) \/ AwaitsBank(s)
            ELSE Receiving(s) \/ Received(s)

\* The main program has the job, and has not started its channel.
NotStarted(s, a) ==
  /\ s.dma.st = "off"
  /\ s.wire.size = a.size /\ (s.wire.short <=> a.short) /\ s.wire.n = 0
  /\ s.wire.closed => dir = "out" /\ s.dma.eot

\* The inductive invariant's part about the registers s, the endpoint e and the
\* main program m.
Good(s, e, m) ==
  /\ s \in States /\ Len(s.line) <= Banks
  /\ s.job.busy => e = "on"
  /\ dir = "in" => ~s.dma.eot /\ (s.dma.hit => s.dma.left = 0 /\ s.dma.st = "off")
  /\ s.dma.st # "off" => s.job.busy /\ m.pc = "idle"
  /\ s.irq.ep /\ s.irq.send => s.job.busy /\ m.pc = "idle" /\ dir = "in" /\ AwaitsBank(s)
  /\ m.pc # "idle" => ~(s.irq.dma /\ s.dma.hit) /\ m.arg \in Asked
  /\ m.pc # "idle" /\ s.job.busy => NotStarted(s, m.arg)
  /\ m.pc = "program" /\ s.job.busy =>
       s.job.size = m.arg.size /\ s.job.trans = 0 /\ (s.job.short <=> m.arg.short)
  /\ m.pc = "idle" /\ s.job.busy =>
       /\ s.job.size = s.wire.size
       /\ [size |-> s.wire.size, short |-> s.wire.short] \in Asked
       /\ Phase(s)

IInv ==
  /\ dir \in {"in", "out"}
  /\ ep \in {"off", "on", "halted"}
  /\ main \in [pc : {"idle", "fill", "program"}, arg : [size : Sizes \cup {0}, short : BOOLEAN]]
  /\ Good(Now, ep, main)

-----------------------------------------------------------------------------
(* Constants and packets                                                   *)

LEMMA Constants ==
  /\ EpSize \in Nat /\ EpSize > 0 /\ Banks \in Nat /\ Banks > 0
  /\ Word \in Nat /\ Word > 0
  /\ MaxTrans \in Nat /\ MaxTrans > 0 /\ Mult(MaxTrans)
BY EpJobAssumption DEF Mult

LEMMA MultZero == Mult(0)
BY Constants DEF Mult

LEMMA MultFull == Mult(EpSize)
BY Constants DEF Mult

LEMMA MultSmall ==
  ASSUME NEW a \in Nat, 0 < a, a < EpSize
  PROVE  ~Mult(a)
BY Constants DEF Mult

\* There is one quotient and one remainder.
LEMMA Remainder ==
  ASSUME NEW k \in Int, NEW r \in Nat, r < EpSize
  PROVE  (k * EpSize + r) % EpSize = r
<1> DEFINE x == k * EpSize + r
           d == x \div EpSize
           m == x % EpSize
<1>1. EpSize \in Nat /\ EpSize > 0
  BY Constants
<1>2. x \in Int
  BY <1>1
<1>3. d \in Int /\ m \in 0 .. EpSize - 1 /\ x = EpSize * d + m
  BY <1>1, <1>2
<1>4. EpSize * (k - d) = m - r
  BY <1>1, <1>3
<1>5. k - d = 0
  <2>1. CASE k - d >= 1
    <3>1. EpSize * (k - d) >= EpSize
      BY <1>1, <1>3, <2>1
    <3>2. QED
      BY <3>1, <1>1, <1>3, <1>4
  <2>2. CASE k - d <= -1
    <3>1. EpSize * (k - d) <= -EpSize
      BY <1>1, <1>3, <2>2
    <3>2. QED
      BY <3>1, <1>1, <1>3, <1>4
  <2>3. QED
    BY <2>1, <2>2, <1>3
<1>6. QED
  BY <1>1, <1>3, <1>4, <1>5

LEMMA MultAdd ==
  ASSUME NEW a \in Nat, NEW b \in Nat, Mult(a)
  PROVE  Mult(a + b) <=> Mult(b)
<1> DEFINE q == a \div EpSize
           d == b \div EpSize
           r == b % EpSize
<1>1. EpSize \in Nat /\ EpSize > 0
  BY Constants
<1>2. q \in Int /\ a = EpSize * q
  BY <1>1 DEF Mult
<1>3. d \in Int /\ r \in Nat /\ r < EpSize /\ b = EpSize * d + r
  BY <1>1
<1>4. a + b = (q + d) * EpSize + r
  BY <1>1, <1>2, <1>3
<1>5. (a + b) % EpSize = r
  BY <1>2, <1>3, <1>4, Remainder
<1>6. QED
  BY <1>5 DEF Mult

LEMMA SmallMod ==
  ASSUME NEW a \in Nat, a < Word
  PROVE  a % Word = a
BY Constants

LEMMA ModNat ==
  ASSUME NEW a \in Int
  PROVE  a % Word \in Nat
BY Constants

-----------------------------------------------------------------------------
(* The driver's operators                                                  *)

LEMMA ProgrammedIs ==
  ASSUME NEW s \in States,
         NEW n \in Nat, n = ChunkLen(s.job)
  PROVE  /\ (Programmed(s).job.busy <=> s.job.busy)
         /\ Programmed(s).job.size = s.job.size
         /\ Programmed(s).job.trans = s.job.trans + n
         /\ (Programmed(s).job.short <=> s.job.short /\ ~EndsShort(s.job))
         /\ Programmed(s).dma.st = "on"
         /\ Programmed(s).dma.at = s.job.trans
         /\ Programmed(s).dma.left = n
         /\ (Programmed(s).dma.end <=> EndsShort(s.job))
         /\ ~Programmed(s).dma.eot
         /\ ~Programmed(s).dma.hit
         /\ Programmed(s).irq.dma
         /\ (Programmed(s).irq.ep <=> s.irq.ep)
         /\ (Programmed(s).irq.send <=> s.irq.send)
         /\ Programmed(s).line = s.line
         /\ Programmed(s).wire = s.wire
         /\ Programmed(s).last = s.last
         /\ Programmed(s) \in States
<1> DEFINE e == EndsShort(s.job)
           b == s.job.short /\ ~e
           d == [st |-> "on", at |-> s.job.trans, left |-> n, end |-> e, eot |-> FALSE,
                 hit |-> FALSE]
           i == [s.job EXCEPT !.trans = @ + n]
           j == [i EXCEPT !.short = b]
           q == [s.irq EXCEPT !.dma = TRUE]
<1>1. e \in BOOLEAN /\ b \in BOOLEAN
  BY DEF EndsShort
<1>2. s.job \in Job /\ s.dma \in Dma /\ s.irq \in Irq
  BY DEF States
<1>3. Programmed(s) = [[[s EXCEPT !.dma = d] EXCEPT !.job = j] EXCEPT !.irq = q]
  BY DEF Programmed, States
<1> HIDE DEF b
<1>4. /\ j \in Job /\ j.busy = s.job.busy /\ j.size = s.job.size
      /\ j.trans = s.job.trans + n /\ j.short = b
  <2>1. i \in Job /\ i.busy = s.job.busy /\ i.size = s.job.size /\ i.trans = s.job.trans + n
    BY <1>2 DEF Job
  <2> HIDE DEF i
  <2>2. QED
    BY <1>1, <2>1 DEF Job
<1>5. q \in Irq /\ q.dma = TRUE /\ q.ep = s.irq.ep /\ q.send = s.irq.send
  BY <1>2 DEF Irq
<1> HIDE DEF e
<1>6. /\ d \in Dma /\ d.st = "on" /\ d.at = s.job.trans /\ d.left = n /\ d.end = e
      /\ d.eot = FALSE /\ d.hit = FALSE
  BY <1>1, <1>2 DEF Dma, Job
<1> HIDE DEF d, i, j, q
<1>7. /\ Programmed(s) \in States /\ Programmed(s).job = j /\ Programmed(s).dma = d
      /\ Programmed(s).irq = q /\ Programmed(s).line = s.line
      /\ Programmed(s).wire = s.wire /\ Programmed(s).last = s.last
  BY <1>3, <1>4, <1>5, <1>6 DEF States
<1>8. QED
  BY <1>4, <1>5, <1>6, <1>7 DEF b, e

LEMMA AwaitBankIs ==
  ASSUME NEW s \in States
  PROVE  /\ (AwaitBank(s).irq.dma <=> s.irq.dma)
         /\ AwaitBank(s).irq.ep
         /\ AwaitBank(s).irq.send
         /\ (AwaitBank(s).irq.txin <=> Len(s.line) < Banks)
         /\ AwaitBank(s).job = s.job
         /\ AwaitBank(s).dma = s.dma
         /\ AwaitBank(s).line = s.line
         /\ AwaitBank(s).wire = s.wire
         /\ AwaitBank(s).last = s.last
         /\ AwaitBank(s) \in States
<1> DEFINE free == Len(s.line) < Banks
           q == [[[s.irq EXCEPT !.txin = free] EXCEPT !.send = TRUE] EXCEPT !.ep = TRUE]
<1>1. s.irq \in Irq /\ free \in BOOLEAN
  BY DEF States
<1>2. AwaitBank(s) = [s EXCEPT !.irq = q]
  BY DEF AwaitBank
<1> HIDE DEF free
<1>3. q \in Irq /\ q.dma = s.irq.dma /\ q.ep = TRUE /\ q.send = TRUE /\ q.txin = free
  BY <1>1 DEF Irq
<1> HIDE DEF q
<1>4. /\ AwaitBank(s) \in States /\ AwaitBank(s).irq = q /\ AwaitBank(s).job = s.job
      /\ AwaitBank(s).dma = s.dma /\ AwaitBank(s).line = s.line
      /\ AwaitBank(s).wire = s.wire /\ AwaitBank(s).last = s.last
  BY <1>2, <1>3 DEF States
<1>5. QED
  BY <1>3, <1>4 DEF free

LEMMA FinishIs ==
  ASSUME NEW s \in States, NEW ok \in BOOLEAN
  PROVE  /\ ~Finish(s, ok).job.busy
         /\ Finish(s, ok).last = IF s.job.busy THEN [ok |-> ok, n |-> s.job.size] ELSE s.last
         /\ Finish(s, ok).dma = s.dma
         /\ Finish(s, ok).irq = s.irq
         /\ Finish(s, ok).line = s.line
         /\ Finish(s, ok).wire = s.wire
         /\ Finish(s, ok) \in States
BY DEF Finish, States, Job, Last

\* What udd_ep_trans_done() is called for: a job that starts, or whose channel
\* has moved its part.
ReadyIn(s) ==
  /\ s.job.busy /\ s.dma.st = "off" /\ ~s.dma.eot /\ (s.dma.hit => s.dma.left = 0)
  /\ Len(s.line) <= Banks
  /\ s.job.size = s.wire.size /\ s.job.size \in InSizes
  /\ s.job.trans <= s.job.size /\ s.wire.n = s.job.trans
  /\ (s.wire.closed <=> ~Mult(s.job.trans))
  /\ Mult(s.job.trans) \/ s.job.trans = s.job.size
  /\ Mult(s.job.size) => (s.job.short <=> s.wire.short)
  /\ s.job.short => Mult(s.job.trans)
  /\ s.job.size = 0 => s.wire.short
  /\ s.irq.ep /\ s.irq.send => s.job.trans = s.job.size /\ s.job.short

ReadyOut(s) ==
  /\ s.job.busy /\ s.dma.st = "off" /\ ~(s.irq.ep /\ s.irq.send)
  /\ \/ /\ s.job.trans = 0 /\ s.wire.n = 0 /\ (s.wire.closed => s.dma.eot)
        /\ s.job.size = s.wire.size /\ s.job.size \in OutSizes
     \/ /\ s.job.trans = s.job.size /\ s.wire.n = s.job.size
        /\ s.wire.n = s.wire.size \/ s.wire.closed

Ready(s) == IF dir = "in" THEN ReadyIn(s) ELSE ReadyOut(s)

\* The job goes on.
GoesOn(s, t) ==
  /\ t.job.busy /\ t.job.size = s.job.size /\ t.job.size = t.wire.size
  /\ t.wire = s.wire /\ t.last = s.last
  /\ Phase(t)
  /\ t.irq.ep /\ t.irq.send => dir = "in" /\ AwaitsBank(t)

\* The job is over, with all the bytes its packets had.
IsOver(s, t) ==
  /\ ~t.job.busy /\ t.dma.st = "off"
  /\ ~(t.irq.ep /\ t.irq.send)
  /\ t.wire = s.wire \/ (dir = "out" /\ t.wire = [s.wire EXCEPT !.closed = TRUE])
  /\ Transfer!Done(t.wire)
  /\ t.last = [ok |-> TRUE, n |-> s.wire.n]

LEMMA TransDoneIn ==
  ASSUME NEW s \in States, dir = "in", ReadyIn(s)
  PROVE  /\ TransDone(s) \in States
         /\ TransDone(s).line = s.line
         /\ ~TransDone(s).dma.eot
         /\ TransDone(s).dma.hit => TransDone(s).dma.left = 0 /\ TransDone(s).dma.st = "off"
         /\ GoesOn(s, TransDone(s)) \/ IsOver(s, TransDone(s))
<1> USE DEF ReadyIn
<1>1. CASE s.job.trans # s.job.size
  <2> DEFINE n == ChunkLen(s.job)
             t == Programmed(s)
  <2>1. TransDone(s) = t
    BY <1>1 DEF TransDone, EmptySeen
  <2>2. /\ n \in Nat /\ 0 < n /\ s.job.trans + n <= s.job.size
        /\ n = MaxTrans \/ s.job.trans + n = s.job.size
    BY <1>1, Constants DEF ChunkLen, States, Job
  <2>3. EndsShort(s.job) <=> ~Mult(n)
    BY DEF EndsShort, Mult
  <2>4. Mult(s.job.trans)
    BY <1>1
  <2>5. Mult(s.job.size) => Mult(n)
    <3>1. CASE n = MaxTrans
      BY <3>1, Constants
    <3>2. CASE s.job.trans + n = s.job.size
      BY <3>2, <2>2, <2>4, MultAdd DEF States, Job
    <3>3. QED
      BY <3>1, <3>2, <2>2
  <2>6. Mult(n) \/ s.job.trans + n = s.job.size
    BY <2>2, Constants
  <2>7. Sending(t)
    BY <2>2, <2>3, <2>4, <2>5, <2>6, ProgrammedIs DEF Sending, States, Job, Wire
  <2>8. QED
    BY <1>1, <2>1, <2>2, <2>7, ProgrammedIs DEF GoesOn, Phase
<1>2. CASE s.job.trans = s.job.size /\ s.job.short
  <2>1. TransDone(s) = AwaitBank(s)
    BY <1>2 DEF TransDone
  <2>2. Len(s.line) \in Nat
    BY LenProperties DEF States
  <2>3. AwaitsBank(AwaitBank(s))
    BY <1>2, <2>2, AwaitBankIs, Constants DEF AwaitsBank
  <2>4. QED
    BY <1>2, <2>1, <2>3, AwaitBankIs DEF GoesOn, Phase
<1>3. CASE s.job.trans = s.job.size /\ ~s.job.short
  <2>1. TransDone(s) = Finish(s, TRUE)
    BY <1>3 DEF TransDone
  <2>2. Transfer!Done(s.wire)
    BY <1>3 DEF Transfer!Done, Mult
  <2> DEFINE t == Finish(s, TRUE)
  <2>3. /\ t \in States /\ ~t.job.busy /\ t.last = [ok |-> TRUE, n |-> s.job.size]
        /\ t.dma = s.dma /\ t.irq = s.irq /\ t.line = s.line /\ t.wire = s.wire
    BY FinishIs
  <2> HIDE DEF t
  <2>4. IsOver(s, t)
    BY <1>3, <2>2, <2>3 DEF IsOver
  <2>5. QED
    BY <1>3, <2>1, <2>3, <2>4 DEF t
<1>4. QED
  BY <1>1, <1>2, <1>3 DEF States, Job

LEMMA TransDoneOut ==
  ASSUME NEW s \in States, dir = "out", ReadyOut(s),
         \A n \in OutSizes : n <= MaxTrans
  PROVE  /\ TransDone(s) \in States
         /\ TransDone(s).line = s.line
         /\ GoesOn(s, TransDone(s)) \/ IsOver(s, TransDone(s))
<1> USE DEF ReadyOut
<1>1. CASE s.job.trans # s.job.size /\ EmptySeen(s)
  <2> DEFINE c == [[s EXCEPT !.job.size = s.job.trans] EXCEPT !.wire.closed = TRUE]
             u == [[c EXCEPT !.dma.eot = FALSE] EXCEPT !.dma.hit = FALSE]
             t == Finish(u, TRUE)
  <2>1. /\ c \in States /\ c.job.busy = s.job.busy /\ c.job.size = 0
        /\ c.wire = [s.wire EXCEPT !.closed = TRUE]
        /\ c.dma = s.dma /\ c.irq = s.irq /\ c.line = s.line
    BY <1>1 DEF States, Job, Wire
  <2>2. TransDone(s) = t
    BY <1>1 DEF TransDone
  <2> HIDE DEF c
  <2>3. /\ u \in States /\ u.job = c.job /\ u.wire = c.wire
        /\ u.dma.st = s.dma.st /\ u.irq = s.irq /\ u.line = s.line
    BY <2>1 DEF States, Dma
  <2> HIDE DEF u
  <2>4. /\ t \in States /\ ~t.job.busy /\ t.last = [ok |-> TRUE, n |-> u.job.size]
        /\ t.dma = u.dma /\ t.irq = u.irq /\ t.line = u.line /\ t.wire = u.wire
    BY <2>1, <2>3, FinishIs
  <2> HIDE DEF t
  <2>5. t.wire.closed /\ t.wire = [s.wire EXCEPT !.closed = TRUE]
    BY <2>1, <2>3, <2>4 DEF States, Wire
  <2>6. t.last = [ok |-> TRUE, n |-> s.wire.n]
    BY <1>1, <2>1, <2>3, <2>4
  <2>7. ~t.job.busy /\ t.dma.st = "off" /\ ~(t.irq.ep /\ t.irq.send)
    BY <2>1, <2>3, <2>4
  <2>8. Transfer!Done(t.wire)
    BY <2>5 DEF Transfer!Done
  <2>9. IsOver(s, t)
    BY <2>5, <2>6, <2>7, <2>8 DEF IsOver
  <2>10. QED
    BY <2>1, <2>2, <2>3, <2>4, <2>9
<1>2. CASE s.job.trans # s.job.size /\ ~EmptySeen(s)
  <2> DEFINE n == ChunkLen(s.job)
             t == Programmed(s)
  <2>1. TransDone(s) = t
    BY <1>2 DEF TransDone
  <2>2. s.job.trans = 0 /\ s.job.size \in OutSizes
    BY <1>2
  <2>3. n = s.job.size /\ n \in Nat /\ n > 0 /\ Mult(n)
    <3>1. /\ s.job.size \in Nat /\ s.job.size > 0 /\ s.job.size <= MaxTrans
          /\ s.job.size % EpSize = 0
      BY <2>2, EpJobAssumption
    <3>2. n = s.job.size
      BY <3>1, <2>2, Constants DEF ChunkLen
    <3>3. QED
      BY <3>1, <3>2 DEF Mult
  <2> HIDE DEF n
  <2>4. Receiving(t)
    BY <1>2, <2>2, <2>3, ProgrammedIs DEF Receiving, EmptySeen, n
  <2>5. QED
    BY <1>2, <2>1, <2>2, <2>3, <2>4, ProgrammedIs DEF GoesOn, Phase, n
<1>3. CASE s.job.trans = s.job.size
  <2> DEFINE t == Finish(s, TRUE)
  <2>1. TransDone(s) = t
    BY <1>3 DEF TransDone
  <2>2. /\ t \in States /\ ~t.job.busy /\ t.last = [ok |-> TRUE, n |-> s.job.size]
        /\ t.dma = s.dma /\ t.irq = s.irq /\ t.line = s.line /\ t.wire = s.wire
    BY FinishIs
  <2> HIDE DEF t
  <2>3. s.wire.n = s.wire.size \/ s.wire.closed
    BY <1>3, EpJobAssumption
  <2>4. s.wire.n = s.job.size
    BY <1>3
  <2>5. IsOver(s, t)
    BY <2>2, <2>3, <2>4 DEF IsOver, Transfer!Done
  <2>6. QED
    BY <2>1, <2>2, <2>5
<1>4. QED
  BY <1>1, <1>2, <1>3

LEMMA FilledIs ==
  ASSUME NEW s \in States, NEW a \in [size : Nat, short : BOOLEAN]
  PROVE  /\ Filled(s, a) \in States
         /\ (Filled(s, a).job.busy <=> s.job.busy)
         /\ Filled(s, a).job.size = a.size
         /\ Filled(s, a).job.trans = 0
         /\ (Filled(s, a).job.short <=> a.short)
         /\ Filled(s, a).dma = s.dma
         /\ Filled(s, a).irq = s.irq
         /\ Filled(s, a).line = s.line
         /\ Filled(s, a).wire = s.wire
         /\ Filled(s, a).last = s.last
<1> DEFINE j == [[[s.job EXCEPT !.size = a.size] EXCEPT !.trans = 0] EXCEPT !.short = a.short]
<1>1. s.job \in Job /\ a.size \in Nat /\ a.short \in BOOLEAN
  BY DEF States
<1>2. Filled(s, a) = [s EXCEPT !.job = j]
  BY DEF Filled
<1>3. j \in Job /\ j.busy = s.job.busy /\ j.size = a.size /\ j.trans = 0 /\ j.short = a.short
  BY <1>1 DEF Job
<1> HIDE DEF j
<1>4. /\ Filled(s, a) \in States /\ Filled(s, a).job = j
      /\ Filled(s, a).dma = s.dma /\ Filled(s, a).irq = s.irq
      /\ Filled(s, a).line = s.line /\ Filled(s, a).wire = s.wire
      /\ Filled(s, a).last = s.last
  BY <1>2, <1>3 DEF States
<1>5. QED
  BY <1>3, <1>4

LEMMA DisabledIs ==
  ASSUME NEW s \in States, FreeStops
  PROVE  /\ Disabled(s) \in States
         /\ Disabled(s).job = s.job
         /\ Disabled(s).dma.st = "off"
         /\ (Disabled(s).dma.eot <=> s.dma.eot)
         /\ (Disabled(s).dma.hit <=> s.dma.hit)
         /\ Disabled(s).dma.left = s.dma.left
         /\ (Disabled(s).irq.dma <=> s.irq.dma)
         /\ ~Disabled(s).irq.send
         /\ Disabled(s).line = <<>>
         /\ Disabled(s).wire = s.wire
         /\ Disabled(s).last = s.last
<1> DEFINE d == [s.dma EXCEPT !.st = "off"]
           q == [[s.irq EXCEPT !.send = FALSE] EXCEPT !.txin = FALSE]
<1>1. s.dma \in Dma /\ s.irq \in Irq
  BY DEF States
<1>2. Disabled(s) = [[[s EXCEPT !.dma = d] EXCEPT !.line = <<>>] EXCEPT !.irq = q]
  BY DEF Disabled, States
<1>3. d \in Dma /\ d.st = "off" /\ d.eot = s.dma.eot /\ d.hit = s.dma.hit
      /\ d.left = s.dma.left
  BY <1>1 DEF Dma
<1>4. q \in Irq /\ q.dma = s.irq.dma /\ q.send = FALSE
  BY <1>1 DEF Irq
<1> HIDE DEF d, q
<1>5. <<>> \in Seq(0 .. EpSize)
  BY EmptySeq
<1>6. /\ Disabled(s) \in States /\ Disabled(s).job = s.job /\ Disabled(s).dma = d
      /\ Disabled(s).irq = q /\ Disabled(s).line = <<>>
      /\ Disabled(s).wire = s.wire /\ Disabled(s).last = s.last
  BY <1>2, <1>3, <1>4, <1>5 DEF States
<1>7. QED
  BY <1>3, <1>4, <1>6

LEMMA CountedIs ==
  ASSUME NEW s \in States
  PROVE  /\ Counted(s) \in States
         /\ s.dma.left = 0 => Counted(s) = s
         /\ s.dma.left # 0 => /\ Counted(s).job.size = (s.job.trans - s.dma.left) % Word
                              /\ Counted(s).job.trans = (s.job.trans - s.dma.left) % Word
         /\ (Counted(s).job.busy <=> s.job.busy)
         /\ Counted(s).dma = s.dma
         /\ Counted(s).irq = s.irq
         /\ Counted(s).line = s.line
         /\ Counted(s).wire = s.wire
         /\ Counted(s).last = s.last
<1>1. CASE s.dma.left = 0
  BY <1>1 DEF Counted
<1>2. CASE s.dma.left # 0
  <2> DEFINE n == (s.job.trans - s.dma.left) % Word
             j == [[s.job EXCEPT !.trans = n] EXCEPT !.size = n]
  <2>1. n \in Nat
    <3>1. s.job.trans - s.dma.left \in Int
      BY DEF States, Job, Dma
    <3>2. QED
      BY <3>1, ModNat
  <2>2. Counted(s) = [s EXCEPT !.job = j]
    BY <1>2 DEF Counted
  <2> HIDE DEF n
  <2>3. j \in Job /\ j.busy = s.job.busy /\ j.trans = n /\ j.size = n
    BY <2>1 DEF States, Job
  <2> HIDE DEF j
  <2>4. /\ Counted(s) \in States /\ Counted(s).job = j /\ Counted(s).dma = s.dma
        /\ Counted(s).irq = s.irq /\ Counted(s).line = s.line
        /\ Counted(s).wire = s.wire /\ Counted(s).last = s.last
    BY <2>2, <2>3 DEF States
  <2>5. QED
    BY <1>2, <2>3, <2>4 DEF n
<1>3. QED
  BY <1>1, <1>2

-----------------------------------------------------------------------------
(* One step, from the driver's point of view and from the caller's         *)

Landed(s, t) == (t.job.busy /\ t.wire = s.wire /\ t.last = s.last) \/ IsOver(s, t)

\* udd_ep_trans_done() of a job that is ready for it.
LEMMA Outcome ==
  ASSUME NEW s \in States, NEW m, m.pc = "idle",
         dir \in {"in", "out"}, Ready(s), Len(s.line) <= Banks,
         [size |-> s.wire.size, short |-> s.wire.short] \in Asked,
         \A n \in OutSizes : n <= MaxTrans
  PROVE  /\ Good(TransDone(s), "on", m)
         /\ Landed(s, TransDone(s))
<1> DEFINE t == TransDone(s)
<1>1. /\ t \in States /\ t.line = s.line
      /\ dir = "in" => ~t.dma.eot /\ (t.dma.hit => t.dma.left = 0 /\ t.dma.st = "off")
      /\ GoesOn(s, t) \/ IsOver(s, t)
  BY TransDoneIn, TransDoneOut DEF Ready
<1> SUFFICES Good(t, "on", m) /\ Landed(s, t)
  OBVIOUS
<1> HIDE DEF t
<1>2. CASE GoesOn(s, t)
  BY <1>1, <1>2 DEF GoesOn, Good, Landed
<1>3. CASE IsOver(s, t)
  BY <1>1, <1>3 DEF IsOver, Good, Landed
<1>4. QED
  BY <1>1, <1>2, <1>3

\* What the theorems assume: no job is run between the main program's critical
\* section and the start of its channel, an endpoint that is disabled stops its
\* channel, and no buffer to fill is cut.
Proper == ~Crossing /\ FreeStops /\ \A n \in OutSizes : n <= MaxTrans

\* A step of the caller's view, or none.
Promised == Transfer!Next \/ UNCHANGED Transfer!transferVars

\* What is left of a step that leads to good registers.
LEMMA Primed ==
  ASSUME NEW t \in States, dir \in {"in", "out"}, Becomes(t), dir' = dir,
         ep' \in {"off", "on", "halted"},
         main' \in [pc : {"idle", "fill", "program"},
                    arg : [size : Sizes \cup {0}, short : BOOLEAN]],
         Good(t, ep', main')
  PROVE  IInv'
<1>1. Now' = t
  BY DEF Becomes, Now, States
<1>2. Good(t, ep', main') => Good(Now, ep, main)'
  BY <1>1 DEF Good, Phase, Asked, NotStarted, AwaitsBank, Sending, ChunkSent, Receiving,
     Received, Mult, States
<1>3. QED
  BY <1>2 DEF IInv

LEMMA NowIs ==
  /\ Now.job = job /\ Now.dma = dma /\ Now.irq = irq /\ Now.line = line
  /\ Now.wire = wire /\ Now.last = last
BY DEF Now

LEMMA BasicsHold ==
  ASSUME IInv
  PROVE  /\ Now \in States /\ job \in Job /\ dma \in Dma /\ irq \in Irq
         /\ line \in Seq(0 .. EpSize) /\ wire \in Wire /\ last \in Last
BY NowIs DEF IInv, Good, States

LEMMA InitHolds ==
  ASSUME Init
  PROVE  IInv /\ Transfer!Init
<1>1. Now \in States
  <2>1. <<>> \in Seq(0 .. EpSize)
    BY EmptySeq
  <2>2. QED
    BY <2>1 DEF Init, Now, States, Job, Dma, Irq, Wire, Last, NewWire, NoArg
<1>2. Len(line) <= Banks
  BY Constants DEF Init
<1>3. Good(Now, ep, main)
  BY <1>1, <1>2, NowIs DEF Init, Good
<1>4. QED
  BY <1>3 DEF Init, IInv, Transfer!Init, NoArg

-----------------------------------------------------------------------------
(* Callers                                                                 *)

Claimed(s, a) == [s EXCEPT !.job.busy = TRUE, !.wire = NewWire(a)]

LEMMA AskedIs ==
  ASSUME NEW a \in Asked
  PROVE  /\ a \in [size : Nat, short : BOOLEAN] /\ a.size \in Sizes
         /\ a = [size |-> a.size, short |-> a.short]
BY EpJobAssumption DEF Asked, Sizes

LEMMA ClaimedIs ==
  ASSUME NEW s \in States, NEW a \in Asked
  PROVE  /\ Claimed(s, a) \in States
         /\ Claimed(s, a).job.busy
         /\ Claimed(s, a).dma = s.dma
         /\ Claimed(s, a).irq = s.irq
         /\ Claimed(s, a).line = s.line
         /\ Claimed(s, a).wire = NewWire(a)
         /\ Claimed(s, a).wire.size = a.size
         /\ (Claimed(s, a).wire.short <=> a.short)
         /\ Claimed(s, a).wire.n = 0
         /\ ~Claimed(s, a).wire.closed
         /\ Claimed(s, a).last = s.last
<1> DEFINE j == [s.job EXCEPT !.busy = TRUE]
           w == NewWire(a)
           c == Claimed(s, a)
<1>1. j \in Job /\ j.busy = TRUE
  BY DEF States, Job
<1>2. w \in Wire /\ w.size = a.size /\ w.short = a.short /\ w.n = 0 /\ w.closed = FALSE
  BY AskedIs DEF NewWire, Wire
<1>3. c = [[s EXCEPT !.job = j] EXCEPT !.wire = w]
  BY DEF Claimed
<1> SUFFICES /\ c \in States /\ c.job.busy /\ c.dma = s.dma /\ c.irq = s.irq
             /\ c.line = s.line /\ c.wire = w /\ c.wire.size = a.size
             /\ (c.wire.short <=> a.short) /\ c.wire.n = 0 /\ ~c.wire.closed
             /\ c.last = s.last
  OBVIOUS
<1> HIDE DEF j, w, c
<1>4. j \in Job /\ w \in Wire
  BY <1>1, <1>2
<1>5. /\ c \in States /\ c.job = j /\ c.dma = s.dma /\ c.irq = s.irq
      /\ c.line = s.line /\ c.wire = w /\ c.last = s.last
  BY <1>3, <1>4 DEF States
<1>6. QED
  BY <1>1, <1>2, <1>5

\* How a landing looks to the caller.
LEMMA BeginsOrEnds ==
  ASSUME NEW t \in States, NEW a \in Asked, job \in Job, ~job.busy, UNCHANGED dir,
         Becomes(t),
         \/ t.job.busy /\ t.wire = NewWire(a) /\ t.last = last
         \/ /\ dir = "out" /\ ~t.job.busy
            /\ t.wire = [NewWire(a) EXCEPT !.closed = TRUE]
            /\ t.last = [ok |-> TRUE, n |-> 0]
  PROVE  Promised
<1>1. job'.busy = t.job.busy /\ t.job.busy \in BOOLEAN /\ job.busy \in BOOLEAN
  BY DEF Becomes, States, Job
<1>2. a.size \in Sizes /\ a.short \in BOOLEAN
  BY AskedIs
<1>3. NewWire(a) = Transfer!New(a.size, a.short)
  BY DEF NewWire, Transfer!New
<1>4. CASE t.job.busy /\ t.wire = NewWire(a) /\ t.last = last
  <2>1. Transfer!Begin
    BY <1>1, <1>2, <1>3, <1>4 DEF Transfer!Begin, Becomes
  <2>2. QED
    BY <2>1 DEF Promised, Transfer!Next
<1>5. CASE /\ dir = "out" /\ ~t.job.busy
           /\ t.wire = [NewWire(a) EXCEPT !.closed = TRUE]
           /\ t.last = [ok |-> TRUE, n |-> 0]
  <2>1. Transfer!BeginAndEnd
    BY <1>1, <1>2, <1>3, <1>5 DEF Transfer!BeginAndEnd, Becomes
  <2>2. QED
    BY <2>1 DEF Promised, Transfer!Next
<1>6. QED
  BY <1>4, <1>5

LEMMA RunHolds ==
  ASSUME IInv, Proper, NEW a \in Asked, Run(a)
  PROVE  IInv' /\ Promised
<1> DEFINE c == Claimed(Now, a)
           s == Filled(c, a)
           t == TransDone(s)
<1>1. /\ main.pc = "idle" /\ ep = "on" /\ ~job.busy /\ dir \in {"in", "out"}
      /\ UNCHANGED <<dir, ep, main>>
  BY DEF Run, Alone, Accepts, Proper, IInv
<1>2. Becomes(t)
  BY DEF Run, RunAll, Claimed
<1>3. /\ c \in States /\ c.job.busy /\ c.dma = dma /\ c.irq = irq /\ c.line = line
      /\ c.wire = NewWire(a) /\ c.wire.size = a.size /\ (c.wire.short <=> a.short)
      /\ c.wire.n = 0 /\ ~c.wire.closed /\ c.last = last
  BY BasicsHold, ClaimedIs, NowIs
<1>4. a \in [size : Nat, short : BOOLEAN]
  BY AskedIs
<1> HIDE DEF c
<1>5. /\ s \in States /\ s.job.busy /\ s.job.size = a.size /\ s.job.trans = 0
      /\ (s.job.short <=> a.short) /\ s.dma = dma /\ s.irq = irq /\ s.line = line
      /\ s.wire = NewWire(a) /\ s.wire.size = a.size /\ (s.wire.short <=> a.short)
      /\ s.wire.n = 0 /\ ~s.wire.closed /\ s.last = last
  BY <1>3, <1>4, FilledIs
<1>6. /\ dma.st = "off" /\ Len(line) <= Banks /\ ~(irq.ep /\ irq.send)
      /\ dir = "in" => ~dma.eot /\ (dma.hit => dma.left = 0)
  BY <1>1, NowIs DEF IInv, Good
<1> HIDE DEF s, t
<1>7. a.size \in (IF dir = "in" THEN InSizes ELSE OutSizes) /\ (a.size = 0 => a.short)
  BY DEF Asked
<1>8. Ready(s)
  <2>1. 0 <= a.size
    BY <1>4
  <2>2. QED
    BY <1>1, <1>5, <1>6, <1>7, <2>1, MultZero DEF Ready, ReadyIn, ReadyOut
<1>9. [size |-> s.wire.size, short |-> s.wire.short] \in Asked
  <2>1. NewWire(a).size = a.size /\ NewWire(a).short = a.short
    BY DEF NewWire
  <2>2. QED
    BY <1>5, <2>1, AskedIs
<1>10. Good(t, "on", main) /\ Landed(s, t)
  BY <1>1, <1>5, <1>6, <1>8, <1>9, Outcome DEF Proper, t
<1>11. t \in States
  BY <1>10 DEF Good
<1>12. IInv'
  BY <1>1, <1>2, <1>10, <1>11, Primed DEF IInv
<1>13. Promised
  <2>1. CASE t.job.busy /\ t.wire = s.wire /\ t.last = s.last
    BY <1>1, <1>2, <1>5, <1>11, <2>1, BasicsHold, BeginsOrEnds
  <2>2. CASE IsOver(s, t)
    <3>1. t.wire # s.wire
      <4>1. a.size \in Nat /\ (dir = "out" => a.size > 0)
        BY <1>1, <1>4, <1>7, EpJobAssumption
      <4>2. ~Transfer!Done(s.wire)
        BY <1>1, <1>5, <1>7, <4>1 DEF Transfer!Done
      <4>3. QED
        BY <2>2, <4>2 DEF IsOver
    <3>2. /\ dir = "out" /\ ~t.job.busy /\ t.wire = [NewWire(a) EXCEPT !.closed = TRUE]
          /\ t.last = [ok |-> TRUE, n |-> 0]
      BY <1>5, <2>2, <3>1 DEF IsOver
    <3>3. QED
      BY <1>1, <1>2, <1>11, <3>2, BasicsHold, BeginsOrEnds
  <2>3. QED
    BY <1>10, <2>1, <2>2 DEF Landed
<1>14. QED
  BY <1>12, <1>13

\* A step the caller does not see.
LEMMA Unseen ==
  ASSUME NEW t \in States, job \in Job, UNCHANGED dir, Becomes(t),
         t.job.busy <=> job.busy, t.wire = wire, t.last = last
  PROVE  Promised
<1>1. job'.busy = job.busy
  BY DEF Becomes, States, Job
<1>2. wire' = wire /\ last' = last
  BY DEF Becomes
<1>3. QED
  BY <1>1, <1>2 DEF Promised, Transfer!transferVars

\* A job that goes on or is over.
LEMMA LandsSeen ==
  ASSUME NEW t \in States, NEW s, job \in Job, job.busy, UNCHANGED dir, Becomes(t),
         s.wire = wire, s.last = last, Landed(s, t)
  PROVE  Promised
<1>1. CASE t.job.busy /\ t.wire = s.wire /\ t.last = s.last
  BY <1>1, Unseen
<1>2. CASE IsOver(s, t)
  <2>1. job.busy = TRUE /\ job'.busy = FALSE
    BY <1>2 DEF IsOver, Becomes, States, Job
  <2>2. /\ wire' \in {wire, [wire EXCEPT !.closed = TRUE]} /\ Transfer!Done(wire')
        /\ last' = [ok |-> TRUE, n |-> wire.n]
    BY <1>2 DEF IsOver, Becomes
  <2>3. Transfer!Done(wire)' <=> Transfer!Done(wire')
    BY DEF Transfer!Done
  <2>4. Transfer!Complete
    BY <2>1, <2>2, <2>3 DEF Transfer!Complete, Transfer!Done
  <2>5. QED
    BY <2>4 DEF Promised, Transfer!Next
<1>3. QED
  BY <1>1, <1>2 DEF Landed

LEMMA ClaimHolds ==
  ASSUME IInv, Proper, NEW a \in Asked, Claim(a)
  PROVE  IInv' /\ Promised
<1> DEFINE t == Claimed(Now, a)
<1>1. /\ main.pc = "idle" /\ ep = "on" /\ ~job.busy /\ ~(irq.dma /\ dma.hit)
      /\ main' = [pc |-> "fill", arg |-> a] /\ UNCHANGED <<dir, ep>>
      /\ dir \in {"in", "out"}
  BY DEF Claim, Accepts, IInv
<1>2. Becomes(t)
  BY DEF Claim, Claimed
<1>3. /\ t \in States /\ t.job.busy /\ t.dma = dma /\ t.irq = irq /\ t.line = line
      /\ t.wire = NewWire(a) /\ t.wire.size = a.size /\ (t.wire.short <=> a.short)
      /\ t.wire.n = 0 /\ ~t.wire.closed /\ t.last = last
  BY BasicsHold, ClaimedIs, NowIs
<1> HIDE DEF t
<1>4. /\ dma.st = "off" /\ Len(line) <= Banks /\ ~(irq.ep /\ irq.send)
      /\ dir = "in" => ~dma.eot /\ (dma.hit => dma.left = 0 /\ dma.st = "off")
  BY <1>1, NowIs DEF IInv, Good
<1>5. main'.pc = "fill" /\ main'.arg = a /\ ep' = "on"
  BY <1>1
<1>6. Good(t, ep', main')
  BY <1>1, <1>3, <1>4, <1>5 DEF Good, NotStarted
<1>7. main' \in [pc : {"idle", "fill", "program"}, arg : [size : Sizes \cup {0}, short : BOOLEAN]]
  BY <1>1, AskedIs
<1>8. IInv'
  BY <1>1, <1>2, <1>3, <1>6, <1>7, Primed
<1>9. Promised
  BY <1>1, <1>2, <1>3, BasicsHold, BeginsOrEnds
<1>10. QED
  BY <1>8, <1>9

LEMMA FillHolds ==
  ASSUME IInv, Proper, Fill
  PROVE  IInv' /\ Promised
<1> DEFINE t == Filled(Now, main.arg)
<1>1. /\ main.pc = "fill" /\ main.arg \in Asked /\ ~(irq.dma /\ dma.hit)
      /\ main' = [main EXCEPT !.pc = "program"] /\ UNCHANGED <<dir, ep>>
      /\ dir \in {"in", "out"} /\ ep \in {"off", "on", "halted"}
  BY NowIs DEF Fill, IInv, Good
<1>2. Becomes(t)
  BY DEF Fill
<1>3. /\ main' \in [pc : {"idle", "fill", "program"}, arg : [size : Sizes \cup {0}, short : BOOLEAN]]
      /\ main'.pc = "program" /\ main'.arg = main.arg
  BY <1>1 DEF IInv
<1>4. /\ t \in States /\ (t.job.busy <=> job.busy) /\ t.job.size = main.arg.size
      /\ t.job.trans = 0 /\ (t.job.short <=> main.arg.short)
      /\ t.dma = dma /\ t.irq = irq /\ t.line = line /\ t.wire = wire /\ t.last = last
  BY <1>1, BasicsHold, AskedIs, FilledIs, NowIs
<1> HIDE DEF t
<1>5. /\ dma.st = "off" /\ Len(line) <= Banks /\ ~(irq.ep /\ irq.send)
      /\ dir = "in" => ~dma.eot /\ (dma.hit => dma.left = 0 /\ dma.st = "off")
      /\ job.busy => ep = "on" /\ NotStarted(Now, main.arg)
  BY <1>1, NowIs DEF IInv, Good
<1>6. job.busy => NotStarted(t, main.arg)
  BY <1>4, <1>5, NowIs DEF NotStarted
<1>7. Good(t, ep', main')
  BY <1>1, <1>3, <1>4, <1>5, <1>6 DEF Good
<1>8. IInv'
  BY <1>1, <1>2, <1>3, <1>4, <1>7, Primed
<1>9. Promised
  BY <1>1, <1>2, <1>4, BasicsHold, Unseen
<1>10. QED
  BY <1>8, <1>9

LEMMA ProgramHolds ==
  ASSUME IInv, Proper, Program
  PROVE  IInv' /\ Promised
<1> DEFINE t == TransDone(Now)
<1>1. /\ main.pc = "program" /\ main.arg \in Asked /\ ~(irq.dma /\ dma.hit)
      /\ main' = [main EXCEPT !.pc = "idle"] /\ UNCHANGED <<dir, ep>>
      /\ dir \in {"in", "out"} /\ ep \in {"off", "on", "halted"}
      /\ Now \in States
  BY NowIs DEF Program, IInv, Good
<1>2. Becomes(t)
  BY DEF Program
<1>3. /\ main' \in [pc : {"idle", "fill", "program"}, arg : [size : Sizes \cup {0}, short : BOOLEAN]]
      /\ main'.pc = "idle"
  BY <1>1 DEF IInv
<1>4. /\ dma.st = "off" /\ Len(line) <= Banks /\ ~(irq.ep /\ irq.send)
      /\ dir = "in" => ~dma.eot /\ (dma.hit => dma.left = 0 /\ dma.st = "off")
      /\ job.busy => /\ ep = "on" /\ NotStarted(Now, main.arg)
                     /\ job.size = main.arg.size /\ job.trans = 0
                     /\ (job.short <=> main.arg.short)
  BY <1>1, NowIs DEF IInv, Good
<1>5. CASE ~job.busy
  <2>1. t = Now
    BY <1>5, NowIs DEF TransDone
  <2> HIDE DEF t
  <2>2. Good(t, ep', main')
    BY <1>1, <1>3, <1>4, <1>5, <2>1, NowIs DEF Good
  <2>3. QED
    BY <1>1, <1>2, <1>3, <2>1, <2>2, Primed, Unseen, NowIs, BasicsHold
<1>6. CASE job.busy
  <2> HIDE DEF t
  <2>1. /\ wire.size = main.arg.size /\ (wire.short <=> main.arg.short) /\ wire.n = 0
        /\ wire.closed => dir = "out" /\ dma.eot
    BY <1>4, <1>6, NowIs DEF NotStarted
  <2>2. /\ main.arg.size \in (IF dir = "in" THEN InSizes ELSE OutSizes)
        /\ (main.arg.size = 0 => main.arg.short) /\ 0 <= main.arg.size
        /\ main.arg.short \in BOOLEAN /\ wire.short \in BOOLEAN
        /\ main.arg = [size |-> main.arg.size, short |-> main.arg.short]
    BY <1>1, AskedIs, BasicsHold DEF Asked, Wire
  <2>3. Ready(Now)
    BY <1>1, <1>4, <1>6, <2>1, <2>2, MultZero, NowIs DEF Ready, ReadyIn, ReadyOut
  <2>4. [size |-> wire.size, short |-> wire.short] \in Asked
    BY <1>1, <2>1, <2>2
  <2>5. Good(t, ep', main') /\ Landed(Now, t)
    BY <1>1, <1>3, <1>4, <1>6, <2>3, <2>4, NowIs, Outcome DEF Proper, t
  <2>6. t \in States
    BY <2>5 DEF Good
  <2>7. QED
    BY <1>1, <1>2, <1>3, <1>6, <2>5, <2>6, NowIs, BasicsHold, Primed, LandsSeen
<1>7. QED
  BY <1>5, <1>6

-----------------------------------------------------------------------------
(* The channel and the host                                                *)

LEMMA AfterMoveIs ==
  ASSUME dma \in Dma, NEW n \in Nat, n <= dma.left
  PROVE  /\ AfterMove(n) \in Dma
         /\ AfterMove(n).at = dma.at + n
         /\ AfterMove(n).left = dma.left - n
         /\ AfterMove(n).st = IF dma.left = n THEN "off" ELSE dma.st
         /\ (AfterMove(n).hit <=> dma.hit \/ dma.left = n)
         /\ (AfterMove(n).end <=> dma.end)
         /\ (AfterMove(n).eot <=> dma.eot)
<1> DEFINE b == dma.hit \/ dma.left = n
           st == IF dma.left = n THEN "off" ELSE dma.st
           a == dma.at + n
           l == dma.left - n
           d == [[dma EXCEPT !.at = a] EXCEPT !.left = l]
           e == [d EXCEPT !.st = st]
           f == [e EXCEPT !.hit = b]
<1>1. b \in BOOLEAN /\ st \in {"off", "on", "closing"} /\ a \in Nat /\ l \in Nat
  BY DEF Dma
<1>2. AfterMove(n) = f
  BY DEF AfterMove, Dma
<1> HIDE DEF a, l
<1>3. d \in Dma /\ d.at = a /\ d.left = l /\ d.end = dma.end /\ d.eot = dma.eot
  BY <1>1 DEF Dma
<1> HIDE DEF d, b, st
<1>4. /\ e \in Dma /\ e.at = d.at /\ e.left = d.left /\ e.st = st
      /\ e.end = d.end /\ e.eot = d.eot
  BY <1>1, <1>3 DEF Dma
<1> HIDE DEF e
<1>5. /\ f \in Dma /\ f.at = e.at /\ f.left = e.left /\ f.st = e.st /\ f.hit = b
      /\ f.end = e.end /\ f.eot = e.eot
  BY <1>1, <1>4 DEF Dma
<1> HIDE DEF f
<1>6. QED
  BY <1>2, <1>3, <1>4, <1>5 DEF a, l, b, st

LEMMA MovedIs ==
  ASSUME wire \in Wire, NEW n \in Nat
  PROVE  /\ Moved(n) \in Wire
         /\ Moved(n).size = wire.size
         /\ (Moved(n).short <=> wire.short)
         /\ Moved(n).n = wire.n + n
         /\ (Moved(n).closed <=> n < EpSize)
<1> DEFINE b == n < EpSize
           w == [wire EXCEPT !.n = @ + n]
<1>1. b \in BOOLEAN
  OBVIOUS
<1>2. Moved(n) = [w EXCEPT !.closed = b]
  BY DEF Moved
<1> HIDE DEF b
<1>3. w \in Wire /\ w.size = wire.size /\ w.short = wire.short /\ w.n = wire.n + n
  BY DEF Wire
<1> HIDE DEF w
<1>4. /\ Moved(n) \in Wire /\ Moved(n).size = w.size /\ Moved(n).short = w.short
      /\ Moved(n).n = w.n /\ Moved(n).closed = b
  BY <1>1, <1>2, <1>3 DEF Wire
<1>5. QED
  BY <1>3, <1>4 DEF b

LEMMA BecomesNow ==
  /\ Becomes(Now')
  /\ Now'.job = job' /\ Now'.dma = dma' /\ Now'.irq = irq' /\ Now'.line = line'
  /\ Now'.wire = wire' /\ Now'.last = last'
BY DEF Becomes, Now

\* What is common to the steps of the channel.
LEMMA Working ==
  ASSUME IInv, dma.st # "off"
  PROVE  /\ job.busy /\ main.pc = "idle" /\ ep = "on"
         /\ ~(irq.ep /\ irq.send)
         /\ job.size = wire.size
         /\ [size |-> wire.size, short |-> wire.short] \in Asked
         /\ Phase(Now)
BY NowIs DEF IInv, Good, AwaitsBank

LEMMA DmaInHolds ==
  ASSUME IInv, Proper, DmaIn
  PROVE  IInv' /\ Promised
<1> DEFINE n == InPacketLen
           t == Now'
<1>1. /\ dir = "in" /\ ep = "on" /\ dma.st = "on" /\ Len(line) < Banks
      /\ dma' = AfterMove(n)
      /\ UNCHANGED <<dir, ep, job, irq, main, last>>
  BY DEF DmaIn
<1>2. /\ job \in Job /\ dma \in Dma /\ irq \in Irq /\ line \in Seq(0 .. EpSize)
      /\ wire \in Wire /\ last \in Last
  BY BasicsHold
<1>3. /\ job.busy /\ main.pc = "idle" /\ ~(irq.ep /\ irq.send) /\ job.size = wire.size
      /\ [size |-> wire.size, short |-> wire.short] \in Asked
  BY <1>1, Working
<1>4. Sending(Now) /\ ~dma.eot /\ ~dma.hit
  BY <1>1, Working, NowIs DEF IInv, Good, Phase, ChunkSent, AwaitsBank
<1>5. /\ irq.dma /\ dma.left > 0 /\ Mult(dma.at) /\ wire.n = dma.at /\ ~wire.closed
      /\ job.trans = dma.at + dma.left /\ job.trans <= job.size
      /\ Mult(dma.left) \/ job.trans = job.size
      /\ (dma.end <=> ~Mult(dma.left))
      /\ Mult(job.size) => (job.short <=> wire.short)
      /\ job.short => Mult(dma.left)
      /\ job.trans \in Nat /\ job.size \in Nat /\ dma.at \in Nat /\ dma.left \in Nat
  BY <1>2, <1>4, NowIs DEF Sending, Job, Dma
<1>6. /\ n \in 0 .. EpSize /\ n > 0 /\ n <= dma.left
      /\ (n = EpSize <=> ~(n < EpSize))
      /\ n < EpSize => n = dma.left /\ ~Mult(dma.left)
  <2>1. n \in 0 .. EpSize /\ n > 0 /\ n <= dma.left /\ (n < EpSize => n = dma.left)
    BY <1>5, Constants DEF InPacketLen
  <2>2. QED
    BY <2>1, MultSmall, Constants
<1> HIDE DEF n
<1>7. /\ line' = Append(line, n) /\ wire' = Moved(n)
  <2>1. n = EpSize \/ dma.end
    BY <1>5, <1>6
  <2>2. Own
    BY <1>3, <1>5 DEF Own
  <2>3. QED
    BY <2>1, <2>2 DEF DmaIn, n
<1>8. /\ dma' \in Dma /\ dma'.at = dma.at + n /\ dma'.left = dma.left - n
      /\ dma'.st = (IF dma.left = n THEN "off" ELSE "on")
      /\ (dma'.hit <=> dma.left = n) /\ (dma'.end <=> dma.end) /\ ~dma'.eot
  BY <1>1, <1>2, <1>4, <1>6, AfterMoveIs
<1>9. /\ wire' \in Wire /\ wire'.size = wire.size /\ (wire'.short <=> wire.short)
      /\ wire'.n = wire.n + n /\ (wire'.closed <=> n < EpSize)
  BY <1>2, <1>6, <1>7, MovedIs
<1>10. line' \in Seq(0 .. EpSize) /\ Len(line') <= Banks
  <2>1. Len(line) \in Nat /\ Banks \in Nat
    BY <1>2, LenProperties, Constants
  <2>2. Append(line, n) \in Seq(0 .. EpSize) /\ Len(Append(line, n)) = Len(line) + 1
    BY <1>2, <1>6, AppendProperties
  <2>3. QED
    BY <1>1, <1>7, <2>1, <2>2
<1>11. /\ t \in States /\ t.job = job /\ t.dma = dma' /\ t.irq = irq /\ t.line = line'
       /\ t.wire = wire' /\ t.last = last
  BY <1>1, <1>2, <1>8, <1>9, <1>10 DEF Now, States
<1> HIDE DEF t
<1>12. Mult(job.trans) <=> Mult(dma.left)
  BY <1>5, MultAdd
<1>13. Sending(t) \/ (ChunkSent(t) /\ dma.left = n)
  <2>1. CASE dma.left = n
    <3>1. Mult(dma.left) <=> n = EpSize
      BY <1>6, <2>1, MultFull
    <3>2. ChunkSent(t)
      BY <1>5, <1>6, <1>8, <1>9, <1>11, <1>12, <2>1, <3>1 DEF ChunkSent
    <3>3. QED
      BY <2>1, <3>2
  <2>2. CASE dma.left # n
    <3>1. n = EpSize /\ dma.left - n \in Nat /\ dma.left - n > 0
      BY <1>5, <1>6, <2>2
    <3>2. Mult(dma.at + n)
      BY <1>5, <1>6, <3>1, MultAdd, MultFull
    <3>3. Mult(dma.left) <=> Mult(dma.left - n)
      <4>1. Mult(n + (dma.left - n)) <=> Mult(dma.left - n)
        BY <1>6, <3>1, MultAdd, MultFull
      <4>2. n + (dma.left - n) = dma.left
        BY <1>5, <1>6
      <4>3. QED
        BY <4>1, <4>2
    <3>4. /\ t.dma.st = "on" /\ t.dma.at = dma.at + n /\ t.dma.left = dma.left - n
          /\ (t.dma.end <=> dma.end) /\ t.wire.n = dma.at + n /\ ~t.wire.closed
      BY <1>5, <1>6, <1>8, <1>9, <1>11, <2>2, <3>1
    <3>5. job.trans = (dma.at + n) + (dma.left - n)
      BY <1>5, <1>6
    <3>6. Sending(t)
      BY <1>5, <1>9, <1>11, <3>1, <3>2, <3>3, <3>4, <3>5 DEF Sending
    <3>7. QED
      BY <3>6
  <2>3. QED
    BY <2>1, <2>2
<1>14. [size |-> wire'.size, short |-> wire'.short] \in Asked
  BY <1>2, <1>3, <1>9 DEF Wire
<1>15. Good(t, ep', main')
  <2>1. t.dma.hit => t.dma.left = 0 /\ t.dma.st = "off"
    BY <1>5, <1>6, <1>8, <1>11
  <2>2. Phase(t)
    BY <1>1, <1>13 DEF Phase
  <2>3. QED
    BY <1>1, <1>3, <1>8, <1>9, <1>10, <1>11, <1>14, <2>1, <2>2 DEF Good
<1>16. IInv'
  BY <1>1, <1>11, <1>15, BecomesNow, Primed DEF IInv, t
<1>17. Promised
  <2>1. wire.n + n <= wire.size /\ (n < EpSize => wire.n + n = wire.size)
    <3>1. dma.at + n <= dma.at + dma.left /\ (n = dma.left => dma.at + n = dma.at + dma.left)
      BY <1>5, <1>6
    <3>2. n < EpSize => job.trans = job.size
      BY <1>5, <1>6
    <3>3. dma.at + n <= job.size
      BY <1>5, <1>6, <3>1
    <3>4. QED
      BY <1>3, <1>5, <1>6, <3>1, <3>2, <3>3
  <2>2. wire' = [wire EXCEPT !.n = @ + n, !.closed = n < EpSize]
    BY <1>7 DEF Moved
  <2>3. Transfer!Move
    BY <1>1, <1>3, <1>5, <1>6, <2>1, <2>2 DEF Transfer!Move
  <2>4. QED
    BY <2>3 DEF Promised, Transfer!Next
<1>18. QED
  BY <1>16, <1>17

LEMMA TailIs ==
  ASSUME line \in Seq(0 .. EpSize), line # <<>>, Len(line) <= Banks
  PROVE  /\ Head(line) \in 0 .. EpSize
         /\ Tail(line) \in Seq(0 .. EpSize)
         /\ Len(Tail(line)) <= Banks /\ Len(Tail(line)) < Banks
<1>1. /\ Head(line) \in 0 .. EpSize /\ Tail(line) \in Seq(0 .. EpSize)
      /\ Len(Tail(line)) = Len(line) - 1
  BY HeadTailProperties
<1>2. Len(line) \in Nat /\ Banks \in Nat
  BY LenProperties, Constants
<1>3. QED
  BY <1>1, <1>2

LEMMA DmaOutHolds ==
  ASSUME IInv, Proper, DmaOut
  PROVE  IInv' /\ Promised
<1> DEFINE n == Head(line)
           t == Now'
<1>1. /\ dir = "out" /\ ep = "on" /\ dma.st = "on" /\ line # <<>>
      /\ line' = Tail(line)
      /\ UNCHANGED <<dir, ep, job, irq, main, last>>
  BY DEF DmaOut
<1>2. /\ job \in Job /\ dma \in Dma /\ irq \in Irq /\ line \in Seq(0 .. EpSize)
      /\ wire \in Wire /\ last \in Last /\ Len(line) <= Banks
  BY BasicsHold, NowIs DEF IInv, Good
<1>3. /\ job.busy /\ main.pc = "idle" /\ ~(irq.ep /\ irq.send) /\ job.size = wire.size
      /\ [size |-> wire.size, short |-> wire.short] \in Asked
      /\ Receiving(Now)
  BY <1>1, Working, NowIs DEF Phase, Received
<1>4. /\ irq.dma /\ dma.left > 0 /\ Mult(dma.left) /\ wire.n = dma.at /\ ~wire.closed
      /\ job.trans = dma.at + dma.left /\ job.trans = job.size
      /\ job.trans \in Nat /\ dma.at \in Nat /\ dma.left \in Nat
  BY <1>2, <1>3, NowIs DEF Receiving, Job, Dma
<1>5. n \in 0 .. EpSize /\ n <= dma.left
  <2>1. ~(dma.left < EpSize)
    BY <1>4, MultSmall
  <2>2. n \in 0 .. EpSize
    BY <1>1, <1>2, TailIs
  <2>3. QED
    BY <1>4, <2>1, <2>2, Constants
<1>6. wire' = Moved(n)
  <2>1. Own
    BY <1>3, <1>4 DEF Own
  <2>2. QED
    BY <2>1 DEF DmaOut
<1>7. /\ wire' \in Wire /\ wire'.size = wire.size /\ (wire'.short <=> wire.short)
      /\ wire'.n = wire.n + n /\ (wire'.closed <=> n < EpSize)
  BY <1>2, <1>5, <1>6, MovedIs
<1>8. line' \in Seq(0 .. EpSize) /\ Len(line') <= Banks
  BY <1>1, <1>2, TailIs
<1>9. /\ dma' \in Dma /\ dma'.at = dma.at + n /\ dma'.left = dma.left - n
      /\ \/ dma'.st = "closing" /\ n < EpSize
         \/ n = EpSize /\ dma'.st = (IF dma.left = n THEN "off" ELSE "on")
                      /\ (dma.left = n => dma'.hit)
  <2>1. CASE n < EpSize
    <3>1. dma' = [dma EXCEPT !.at = @ + n, !.left = @ - n, !.st = "closing",
                             !.eot = TRUE, !.hit = TRUE]
      BY <2>1 DEF DmaOut
    <3> DEFINE a == dma.at + n
               l == dma.left - n
               d == [[dma EXCEPT !.at = a] EXCEPT !.left = l]
               e == [[d EXCEPT !.st = "closing"] EXCEPT !.eot = TRUE]
               f == [e EXCEPT !.hit = TRUE]
    <3>2. dma' = f
      BY <1>2, <3>1 DEF Dma
    <3>3. a \in Nat /\ l \in Nat
      BY <1>4, <1>5
    <3> HIDE DEF a, l
    <3>4. d \in Dma /\ d.at = a /\ d.left = l
      BY <1>2, <3>3 DEF Dma
    <3> HIDE DEF d
    <3>5. e \in Dma /\ e.at = d.at /\ e.left = d.left /\ e.st = "closing"
      BY <3>4 DEF Dma
    <3> HIDE DEF e
    <3>6. f \in Dma /\ f.at = e.at /\ f.left = e.left /\ f.st = e.st
      BY <3>5 DEF Dma
    <3> HIDE DEF f
    <3>7. QED
      BY <2>1, <3>2, <3>4, <3>5, <3>6 DEF a, l
  <2>2. CASE n = EpSize
    <3>1. dma' = AfterMove(n)
      BY <2>2, Constants DEF DmaOut
    <3>2. QED
      BY <1>1, <1>2, <1>5, <2>2, <3>1, AfterMoveIs
  <2>3. QED
    BY <1>5, <2>1, <2>2, Constants
<1> HIDE DEF n
<1>10. /\ t \in States /\ t.job = job /\ t.dma = dma' /\ t.irq = irq /\ t.line = line'
       /\ t.wire = wire' /\ t.last = last
  BY <1>1, <1>2, <1>7, <1>8, <1>9 DEF Now, States
<1> HIDE DEF t
<1>11. /\ t.wire.n = t.dma.at /\ t.job.trans = t.dma.at + t.dma.left
       /\ t.job.trans = t.job.size /\ t.irq.dma
  BY <1>4, <1>5, <1>7, <1>9, <1>10
<1>12. Receiving(t) \/ Received(t)
  <2>1. CASE dma'.st = "closing" /\ n < EpSize
    BY <1>7, <1>10, <1>11, <2>1 DEF Received
  <2>2. CASE n = EpSize /\ dma.left = n
    <3>1. dma'.left = 0 /\ dma'.st = "off" /\ dma'.hit
      BY <1>4, <1>9, <2>2, Constants
    <3>2. QED
      BY <1>10, <1>11, <3>1 DEF Received
  <2>3. CASE n = EpSize /\ dma.left # n
    <3>1. /\ dma'.st = "on" /\ dma'.left > 0 /\ ~wire'.closed /\ dma'.left = dma.left - n
          /\ dma'.left \in Nat /\ n \in Nat /\ n + dma'.left = dma.left
      BY <1>4, <1>5, <1>7, <1>9, <2>3, Constants
    <3>2. Mult(n + dma'.left) <=> Mult(dma'.left)
      BY <2>3, <3>1, MultAdd, MultFull
    <3>3. Mult(dma'.left)
      BY <1>4, <3>1, <3>2
    <3>4. QED
      BY <1>10, <1>11, <3>1, <3>3 DEF Receiving
  <2>4. QED
    BY <1>9, <2>1, <2>2, <2>3
<1>13. [size |-> wire'.size, short |-> wire'.short] \in Asked
  BY <1>2, <1>3, <1>7 DEF Wire
<1>14. Good(t, ep', main')
  <2>1. Phase(t)
    BY <1>1, <1>12 DEF Phase
  <2>2. QED
    BY <1>1, <1>3, <1>7, <1>8, <1>10, <1>13, <2>1 DEF Good
<1>15. IInv'
  BY <1>1, <1>10, <1>14, BecomesNow, Primed DEF IInv, t
<1>16. Promised
  <2>1. wire.n + n <= wire.size
    BY <1>3, <1>4, <1>5
  <2>2. wire' = [wire EXCEPT !.n = @ + n, !.closed = n < EpSize]
    BY <1>6 DEF Moved
  <2>3. Transfer!Move
    BY <1>1, <1>3, <1>4, <1>5, <2>1, <2>2 DEF Transfer!Move
  <2>4. QED
    BY <2>3 DEF Promised, Transfer!Next
<1>17. QED
  BY <1>15, <1>16

LEMMA DmaCloseHolds ==
  ASSUME IInv, Proper, DmaClose
  PROVE  IInv' /\ Promised
<1> DEFINE t == Now'
<1>1. /\ dma.st = "closing" /\ dma' = [dma EXCEPT !.st = "off", !.hit = TRUE]
      /\ UNCHANGED <<dir, ep, job, irq, line, main, wire, last>>
  BY DEF DmaClose
<1>2. /\ job \in Job /\ dma \in Dma /\ irq \in Irq /\ line \in Seq(0 .. EpSize)
      /\ wire \in Wire /\ last \in Last /\ Len(line) <= Banks /\ dir \in {"in", "out"}
  BY BasicsHold, NowIs DEF IInv, Good
<1>3. /\ job.busy /\ main.pc = "idle" /\ ep = "on" /\ ~(irq.ep /\ irq.send)
      /\ job.size = wire.size
      /\ [size |-> wire.size, short |-> wire.short] \in Asked
      /\ dir = "out" /\ Received(Now)
  BY <1>1, <1>2, Working, NowIs
  DEF Phase, Received, Receiving, Sending, ChunkSent, AwaitsBank
<1>4. /\ dma' \in Dma /\ dma'.st = "off" /\ dma'.hit /\ dma'.at = dma.at
      /\ dma'.left = dma.left
  <2> DEFINE d == [dma EXCEPT !.st = "off"]
  <2>1. d \in Dma /\ d.st = "off" /\ d.at = dma.at /\ d.left = dma.left
    BY <1>2 DEF Dma
  <2>2. dma' = [d EXCEPT !.hit = TRUE]
    BY <1>1
  <2> HIDE DEF d
  <2>3. QED
    BY <2>1, <2>2 DEF Dma
<1>5. /\ t \in States /\ t.job = job /\ t.dma = dma' /\ t.irq = irq /\ t.line = line
      /\ t.wire = wire /\ t.last = last
  BY <1>1, <1>2, <1>4 DEF Now, States
<1> HIDE DEF t
<1>6. Received(t)
  BY <1>1, <1>3, <1>4, <1>5, NowIs DEF Received
<1>7. Good(t, ep', main')
  BY <1>1, <1>2, <1>3, <1>4, <1>5, <1>6 DEF Good, Phase
<1>8. IInv'
  BY <1>1, <1>5, <1>7, BecomesNow, Primed DEF IInv, t
<1>9. QED
  BY <1>1, <1>2, <1>5, <1>8, BecomesNow, Unseen DEF t

LEMMA NoteEmptyHolds ==
  ASSUME IInv, Proper, NoteEmpty
  PROVE  IInv' /\ Promised
<1> DEFINE t == Now'
           b == wire.closed \/ job.busy
<1>1. /\ dir = "out" /\ ep = "on" /\ dma.st = "off" /\ ~dma.eot /\ line # <<>>
      /\ dma' = [dma EXCEPT !.eot = TRUE] /\ line' = Tail(line)
      /\ wire' = [wire EXCEPT !.closed = b]
      /\ UNCHANGED <<dir, ep, job, irq, main, last>>
  BY DEF NoteEmpty
<1>2. /\ job \in Job /\ dma \in Dma /\ irq \in Irq /\ line \in Seq(0 .. EpSize)
      /\ wire \in Wire /\ last \in Last /\ Len(line) <= Banks /\ b \in BOOLEAN
  BY BasicsHold, NowIs DEF IInv, Good, Job, Wire
<1> HIDE DEF b
<1>3. /\ dma' \in Dma /\ dma'.st = dma.st /\ dma'.eot /\ dma'.at = dma.at
      /\ dma'.left = dma.left /\ dma'.hit = dma.hit
  BY <1>1, <1>2 DEF Dma
<1>4. /\ wire' \in Wire /\ wire'.size = wire.size /\ wire'.short = wire.short
      /\ wire'.n = wire.n /\ wire'.closed = b
  BY <1>1, <1>2 DEF Wire
<1>5. line' \in Seq(0 .. EpSize) /\ Len(line') <= Banks
  BY <1>1, <1>2, TailIs
<1>6. /\ t \in States /\ t.job = job /\ t.dma = dma' /\ t.irq = irq /\ t.line = line'
      /\ t.wire = wire' /\ t.last = last
  BY <1>1, <1>2, <1>3, <1>4, <1>5 DEF Now, States
<1> HIDE DEF t
<1>7. /\ ~(irq.ep /\ irq.send)
      /\ main.pc # "idle" => ~(irq.dma /\ dma.hit) /\ main.arg \in Asked
      /\ main.pc # "idle" /\ job.busy => NotStarted(Now, main.arg)
      /\ main.pc = "program" /\ job.busy =>
           job.size = main.arg.size /\ job.trans = 0 /\ (job.short <=> main.arg.short)
      /\ main.pc = "idle" /\ job.busy =>
           /\ job.size = wire.size
           /\ [size |-> wire.size, short |-> wire.short] \in Asked
           /\ Phase(Now)
  BY <1>1, NowIs DEF IInv, Good
<1>8. job.busy => b
  BY DEF b
<1>9. main.pc # "idle" /\ job.busy => NotStarted(t, main.arg)
  BY <1>1, <1>3, <1>4, <1>6, <1>7, NowIs DEF NotStarted
<1>10. main.pc = "idle" /\ job.busy => Received(Now) /\ Received(t)
  BY <1>1, <1>3, <1>4, <1>6, <1>7, <1>8, NowIs DEF Phase, Receiving, Received
<1>11. Good(t, ep', main')
  BY <1>1, <1>2, <1>3, <1>4, <1>5, <1>6, <1>7, <1>9, <1>10 DEF Good, Phase
<1>12. IInv'
  BY <1>1, <1>6, <1>11, BecomesNow, Primed DEF IInv, t
<1>13. Promised
  <2>1. CASE b = wire.closed
    <3>1. wire' = wire
      BY <1>1, <1>2, <2>1 DEF Wire
    <3>2. QED
      BY <1>1, <1>2, <1>6, <3>1, BecomesNow, Unseen DEF t
  <2>2. CASE b # wire.closed
    <3>1. job.busy /\ ~wire.closed /\ b
      BY <1>2, <2>2 DEF b, Wire, Job
    <3>2. wire.n + 0 = wire.n /\ wire.n <= wire.size
      <4>1. CASE main.pc = "idle"
        <5>1. /\ wire.n = dma.at /\ job.trans = dma.at + dma.left
              /\ job.trans = job.size /\ job.size = wire.size
          BY <1>7, <1>10, <3>1, <4>1, NowIs DEF Received
        <5>2. QED
          BY <1>2, <5>1 DEF Dma, Wire, Job
      <4>2. CASE main.pc # "idle"
        <5>1. wire.n = 0 /\ wire.size = main.arg.size /\ main.arg \in Asked
          BY <1>7, <3>1, <4>2, NowIs DEF NotStarted
        <5>2. wire.size \in Nat
          BY <5>1, AskedIs
        <5>3. QED
          BY <5>1, <5>2
      <4>3. QED
        BY <4>1, <4>2
    <3>3. 0 \in 0 .. EpSize /\ 0 < EpSize
      BY Constants
    <3>4. wire' = [wire EXCEPT !.n = @ + 0, !.closed = 0 < EpSize]
      <4>1. b = (0 < EpSize)
        BY <1>2, <3>1, <3>3
      <4>2. [wire EXCEPT !.n = @ + 0] = wire
        BY <1>2, <3>2 DEF Wire
      <4>3. QED
        BY <1>1, <4>1, <4>2
    <3>5. Transfer!Move
      BY <1>1, <3>1, <3>2, <3>3, <3>4 DEF Transfer!Move
    <3>6. QED
      BY <3>5 DEF Promised, Transfer!Next
  <2>3. QED
    BY <2>1, <2>2
<1>14. QED
  BY <1>12, <1>13

LEMMA HostSendHolds ==
  ASSUME IInv, Proper, NEW n \in 0 .. EpSize, HostSend(n)
  PROVE  IInv' /\ Promised
<1> DEFINE t == Now'
<1>1. /\ dir = "out" /\ ep = "on" /\ Len(line) < Banks /\ line' = Append(line, n)
      /\ UNCHANGED <<dir, ep, job, dma, irq, main, wire, last>>
  BY DEF HostSend
<1>2. /\ job \in Job /\ dma \in Dma /\ irq \in Irq /\ line \in Seq(0 .. EpSize)
      /\ wire \in Wire /\ last \in Last
  BY BasicsHold
<1>3. line' \in Seq(0 .. EpSize) /\ Len(line') <= Banks
  <2>1. Len(line) \in Nat /\ Banks \in Nat
    BY <1>2, LenProperties, Constants
  <2>2. Append(line, n) \in Seq(0 .. EpSize) /\ Len(Append(line, n)) = Len(line) + 1
    BY <1>2, AppendProperties
  <2>3. QED
    BY <1>1, <2>1, <2>2
<1>4. /\ t \in States /\ t.job = job /\ t.dma = dma /\ t.irq = irq /\ t.line = line'
      /\ t.wire = wire /\ t.last = last
  BY <1>1, <1>2, <1>3 DEF Now, States
<1> HIDE DEF t
<1>5. Good(t, ep', main')
  BY <1>1, <1>3, <1>4, NowIs DEF IInv, Good, NotStarted, Phase, Receiving, Received
<1>6. IInv'
  BY <1>1, <1>4, <1>5, BecomesNow, Primed DEF IInv, t
<1>7. QED
  BY <1>1, <1>2, <1>4, <1>6, BecomesNow, Unseen DEF t

LEMMA HostTakeHolds ==
  ASSUME IInv, Proper, HostTake
  PROVE  IInv' /\ Promised
<1> DEFINE t == Now'
<1>1. /\ dir = "in" /\ ep = "on" /\ line # <<>> /\ line' = Tail(line)
      /\ irq' = [irq EXCEPT !.txin = TRUE]
      /\ UNCHANGED <<dir, ep, job, dma, main, wire, last>>
  BY DEF HostTake
<1>2. /\ job \in Job /\ dma \in Dma /\ irq \in Irq /\ line \in Seq(0 .. EpSize)
      /\ wire \in Wire /\ last \in Last /\ Len(line) <= Banks
  BY BasicsHold, NowIs DEF IInv, Good
<1>3. line' \in Seq(0 .. EpSize) /\ Len(line') <= Banks /\ Len(line') < Banks
  BY <1>1, <1>2, TailIs
<1>4. irq' \in Irq /\ irq'.dma = irq.dma /\ irq'.ep = irq.ep /\ irq'.send = irq.send /\ irq'.txin
  BY <1>1, <1>2 DEF Irq
<1>5. /\ t \in States /\ t.job = job /\ t.dma = dma /\ t.irq = irq' /\ t.line = line'
      /\ t.wire = wire /\ t.last = last
  BY <1>1, <1>2, <1>3, <1>4 DEF Now, States
<1> HIDE DEF t
<1>6. /\ Sending(Now) => Sending(t)
      /\ ChunkSent(Now) => ChunkSent(t)
      /\ AwaitsBank(Now) => AwaitsBank(t)
      /\ NotStarted(Now, main.arg) => NotStarted(t, main.arg)
  BY <1>3, <1>4, <1>5, NowIs DEF Sending, ChunkSent, AwaitsBank, NotStarted
<1>7. Good(t, ep', main')
  BY <1>1, <1>3, <1>4, <1>5, <1>6, NowIs DEF IInv, Good, Phase
<1>8. IInv'
  BY <1>1, <1>5, <1>7, BecomesNow, Primed DEF IInv, t
<1>9. QED
  BY <1>1, <1>2, <1>5, <1>8, BecomesNow, Unseen DEF t

\* Alloc and ClearHalt, which only enable the endpoint.
LEMMA EnableHolds ==
  ASSUME IInv, ep # "on", ep' = "on",
         UNCHANGED <<dir, job, dma, irq, line, main, wire, last>>
  PROVE  IInv' /\ Promised
<1>1. Now' = Now /\ Now \in States /\ job \in Job
  BY BasicsHold DEF Now
<1>2. Good(Now, ep', main')
  BY <1>1, NowIs DEF IInv, Good
<1>3. Becomes(Now)
  BY <1>1, BecomesNow
<1>4. QED
  BY <1>1, <1>2, <1>3, NowIs, Primed, Unseen DEF IInv

-----------------------------------------------------------------------------
(* The interrupt                                                           *)

LEMMA DmaInterruptHolds ==
  ASSUME IInv, Proper, DmaInterrupt
  PROVE  IInv' /\ Promised
<1> DEFINE r == [Now EXCEPT !.dma.hit = FALSE, !.dma.eot = FALSE]
           q == [r EXCEPT !.irq.dma = FALSE]
           s == Counted(q)
           t == TransDone(s)
<1>1. /\ irq.dma /\ dma.hit /\ UNCHANGED <<dir, ep, main>>
      /\ Ignored => Becomes(r)
      /\ ~Ignored => Becomes(t)
  BY DEF DmaInterrupt
<1>2. /\ Now \in States /\ job \in Job /\ dma \in Dma /\ irq \in Irq /\ wire \in Wire
      /\ line \in Seq(0 .. EpSize) /\ last \in Last /\ Len(line) <= Banks
      /\ dir \in {"in", "out"} /\ main.pc = "idle"
      /\ job.busy => ep = "on"
      /\ dma.st # "off" => job.busy
      /\ dir = "in" => dma.left = 0 /\ dma.st = "off"
      /\ irq.ep /\ irq.send => job.busy /\ dir = "in" /\ AwaitsBank(Now)
      /\ job.busy => /\ job.size = wire.size
                     /\ [size |-> wire.size, short |-> wire.short] \in Asked
                     /\ Phase(Now)
  BY <1>1, BasicsHold, NowIs DEF IInv, Good
<1>3. /\ r \in States /\ r.job = job /\ ~r.dma.hit /\ ~r.dma.eot /\ r.dma.st = dma.st
      /\ r.dma.at = dma.at /\ r.dma.left = dma.left /\ r.irq = irq /\ r.line = line
      /\ r.wire = wire /\ r.last = last
  <2> DEFINE e == [dma EXCEPT !.hit = FALSE]
             d == [e EXCEPT !.eot = FALSE]
  <2>1. /\ e \in Dma /\ ~e.hit /\ e.st = dma.st /\ e.at = dma.at /\ e.left = dma.left
    BY <1>2 DEF Dma
  <2>2. r = [Now EXCEPT !.dma = d]
    BY <1>2 DEF Now, States
  <2> HIDE DEF e, r
  <2>3. /\ d \in Dma /\ ~d.hit /\ ~d.eot /\ d.st = e.st /\ d.at = e.at /\ d.left = e.left
    BY <2>1 DEF Dma
  <2> HIDE DEF d
  <2>4. /\ r \in States /\ r.job = Now.job /\ r.dma = d /\ r.irq = Now.irq
        /\ r.line = Now.line /\ r.wire = Now.wire /\ r.last = Now.last
    BY <1>2, <2>2, <2>3 DEF States
  <2>5. QED
    BY <2>1, <2>3, <2>4, NowIs
<1> HIDE DEF r
<1>4. /\ q \in States /\ q.job = job /\ q.dma = r.dma /\ ~q.irq.dma
      /\ q.irq.ep = irq.ep /\ q.irq.send = irq.send /\ q.irq.txin = irq.txin
      /\ q.line = line /\ q.wire = wire /\ q.last = last
  <2> DEFINE i == [irq EXCEPT !.dma = FALSE]
  <2>1. i \in Irq /\ ~i.dma /\ i.ep = irq.ep /\ i.send = irq.send /\ i.txin = irq.txin
    BY <1>2 DEF Irq
  <2>2. q = [r EXCEPT !.irq = i]
    BY <1>3
  <2> HIDE DEF i, q
  <2>3. /\ q \in States /\ q.job = r.job /\ q.dma = r.dma /\ q.irq = i
        /\ q.line = r.line /\ q.wire = r.wire /\ q.last = r.last
    BY <1>3, <2>1, <2>2 DEF States
  <2>4. QED
    BY <1>3, <2>1, <2>3
<1> HIDE DEF q, s, t
<1>5. CASE Ignored
  <2>1. dma.st # "off"
    BY <1>5 DEF Ignored
  <2>2. dir = "out" /\ (Receiving(Now) \/ Received(Now))
    BY <1>2, <2>1 DEF Phase
  <2>3. Receiving(r) \/ Received(r)
    BY <1>2, <1>3, <2>1, <2>2, NowIs DEF Phase, Receiving, Received
  <2>4. Good(r, ep', main')
    BY <1>1, <1>2, <1>3, <2>1, <2>3 DEF Good, Phase
  <2>5. IInv'
    BY <1>1, <1>2, <1>3, <1>5, <2>4, Primed DEF IInv
  <2>6. QED
    BY <1>1, <1>2, <1>3, <1>5, <2>5, Unseen
<1>6. CASE ~Ignored
  <2>1. dma.st = "off"
    BY <1>6 DEF Ignored
  <2>2. Becomes(t)
    BY <1>1, <1>6
  <2>3. /\ s \in States /\ (s.job.busy <=> job.busy) /\ s.dma.st = "off" /\ ~s.dma.hit
        /\ ~s.dma.eot /\ s.line = line /\ s.wire = wire /\ s.last = last
        /\ (s.irq.ep <=> irq.ep) /\ (s.irq.send <=> irq.send)
        /\ dma.left = 0 => s.job = job
        /\ dma.left # 0 => /\ s.job.size = (job.trans - dma.left) % Word
                           /\ s.job.trans = (job.trans - dma.left) % Word
    BY <1>3, <1>4, <2>1, CountedIs DEF s
  <2>4. CASE ~job.busy
    <3>1. t = s
      BY <2>3, <2>4 DEF TransDone, t
    <3>2. ~(irq.ep /\ irq.send)
      BY <1>2, <2>4
    <3>3. Good(t, ep', main')
      BY <1>1, <1>2, <2>3, <2>4, <3>1, <3>2 DEF Good
    <3>4. QED
      BY <1>1, <1>2, <2>2, <2>3, <2>4, <3>1, <3>3, Primed, Unseen DEF IInv
  <2>5. CASE job.busy
    <3>1. /\ job.size \in Nat /\ job.trans \in Nat /\ dma.at \in Nat /\ dma.left \in Nat
          /\ job.size \in (IF dir = "in" THEN InSizes ELSE OutSizes)
          /\ (job.size = 0 => wire.short)
          /\ job.size < Word
      <4>1. /\ job.size = wire.size
            /\ [size |-> wire.size, short |-> wire.short] \in Asked
        BY <1>2, <2>5
      <4>2. /\ wire.size \in (IF dir = "in" THEN InSizes ELSE OutSizes)
            /\ (wire.size = 0 => wire.short)
        BY <4>1 DEF Asked
      <4>3. wire.size < Word
        BY <4>2, EpJobAssumption
      <4>4. QED
        BY <1>2, <4>1, <4>2, <4>3 DEF Job, Dma
    <3>2. Ready(s)
      <4>1. CASE dir = "in"
        <5>1. /\ ChunkSent(Now) \/ AwaitsBank(Now)
              /\ irq.ep /\ irq.send => AwaitsBank(Now)
          BY <1>2, <2>1, <2>5, <4>1, NowIs DEF Phase, Sending
        <5>2. s.job = job /\ job.size = wire.size
          BY <1>2, <2>3, <2>5, <4>1
        <5>3. ReadyIn(s)
          BY <1>2, <2>3, <2>5, <3>1, <4>1, <5>1, <5>2, NowIs
          DEF ReadyIn, ChunkSent, AwaitsBank
        <5>4. QED
          BY <4>1, <5>3 DEF Ready
      <4>2. CASE dir = "out"
        <5>1. Received(Now)
          BY <1>2, <2>1, <2>5, <4>2, NowIs DEF Phase, Receiving
        <5>2. /\ wire.n = dma.at /\ job.trans = dma.at + dma.left /\ job.trans = job.size
              /\ wire.closed \/ (dma.left = 0 /\ job.size = wire.size)
              /\ ~(irq.ep /\ irq.send)
          BY <1>2, <2>5, <4>2, <5>1, NowIs DEF Received
        <5>3. s.job.trans = dma.at /\ s.job.size = dma.at
          <6>1. CASE dma.left = 0
            BY <2>3, <3>1, <5>2, <6>1
          <6>2. CASE dma.left # 0
            <7>1. job.trans - dma.left = dma.at /\ dma.at < Word
              BY <3>1, <5>2, Constants
            <7>2. QED
              BY <2>3, <3>1, <6>2, <7>1, SmallMod
          <6>3. QED
            BY <6>1, <6>2
        <5>4. wire.n = wire.size \/ wire.closed
          BY <3>1, <5>2
        <5>5. ReadyOut(s)
          BY <2>3, <2>5, <5>2, <5>3, <5>4 DEF ReadyOut
        <5>6. QED
          BY <4>2, <5>5 DEF Ready
      <4>3. QED
        BY <1>2, <4>1, <4>2
    <3>3. Good(t, "on", main) /\ Landed(s, t)
      BY <1>2, <2>3, <2>5, <3>2, Outcome DEF Proper, t
    <3>4. t \in States
      BY <3>3 DEF Good
    <3>5. IInv'
      BY <1>1, <1>2, <2>2, <2>5, <3>3, <3>4, Primed DEF IInv
    <3>6. QED
      BY <1>1, <1>2, <2>2, <2>3, <2>5, <3>3, <3>4, <3>5, LandsSeen
  <2>6. QED
    BY <2>4, <2>5
<1>7. QED
  BY <1>5, <1>6

LEMMA SendZlpHolds ==
  ASSUME IInv, Proper, SendZlp
  PROVE  IInv' /\ Promised
<1> DEFINE b == wire.closed \/ job.busy
           i == [[irq EXCEPT !.send = FALSE] EXCEPT !.txin = FALSE]
           u == [Now EXCEPT !.irq = [@ EXCEPT !.send = FALSE, !.txin = FALSE],
                            !.line = Append(@, 0), !.wire.closed = @ \/ job.busy]
           w == [wire EXCEPT !.closed = b]
           l == Append(line, 0)
           t == Finish(u, TRUE)
<1>1. irq.ep /\ irq.send /\ irq.txin /\ UNCHANGED <<dir, ep, main>> /\ Becomes(t)
  BY DEF SendZlp
<1>2. /\ Now \in States /\ job \in Job /\ dma \in Dma /\ irq \in Irq /\ wire \in Wire
      /\ line \in Seq(0 .. EpSize) /\ last \in Last /\ Len(line) <= Banks
  BY BasicsHold, NowIs DEF IInv, Good
<1>3. /\ job.busy /\ main.pc = "idle" /\ dir = "in" /\ ep = "on" /\ AwaitsBank(Now)
      /\ ~dma.eot /\ (dma.hit => dma.left = 0 /\ dma.st = "off")
      /\ job.size = wire.size
  BY <1>1, NowIs DEF IInv, Good
<1>4. /\ dma.st = "off" /\ Len(line) < Banks /\ job.trans = job.size
      /\ wire.n = job.size /\ ~wire.closed /\ wire.short
  BY <1>1, <1>3, NowIs DEF AwaitsBank
<1>5. l \in Seq(0 .. EpSize) /\ Len(l) <= Banks
  <2>1. Len(line) \in Nat /\ Banks \in Nat /\ 0 \in 0 .. EpSize
    BY <1>2, LenProperties, Constants
  <2>2. l \in Seq(0 .. EpSize) /\ Len(l) = Len(line) + 1
    BY <1>2, <2>1, AppendProperties
  <2>3. QED
    BY <1>4, <2>1, <2>2
<1>6. i \in Irq /\ ~i.send
  BY <1>2 DEF Irq
<1>7. w \in Wire /\ w.size = wire.size /\ w.n = wire.n /\ w.short = wire.short /\ w.closed
  <2>1. b \in BOOLEAN /\ b
    BY <1>2, <1>3 DEF Job, Wire
  <2> HIDE DEF b
  <2>2. QED
    BY <1>2, <2>1 DEF Wire
<1>8. u = [[[Now EXCEPT !.irq = i] EXCEPT !.line = l] EXCEPT !.wire = w]
  BY <1>2, NowIs DEF Now
<1> HIDE DEF b, i, l, w, u
<1>9. /\ u \in States /\ u.job = job /\ u.dma = dma /\ u.irq = i /\ u.line = l
      /\ u.wire = w /\ u.last = last
  BY <1>2, <1>5, <1>6, <1>7, <1>8, NowIs DEF States
<1>10. /\ t \in States /\ ~t.job.busy /\ t.last = [ok |-> TRUE, n |-> job.size]
       /\ t.dma = dma /\ t.irq = i /\ t.line = l /\ t.wire = w
  BY <1>3, <1>9, FinishIs
<1> HIDE DEF t
<1>11. Good(t, ep', main')
  BY <1>1, <1>3, <1>4, <1>5, <1>6, <1>10 DEF Good
<1>12. IInv'
  BY <1>1, <1>3, <1>10, <1>11, Primed DEF IInv
<1>13. Promised
  <2>1. job.busy = TRUE /\ job'.busy = FALSE /\ UNCHANGED dir
    BY <1>1, <1>2, <1>3, <1>10 DEF Becomes, States, Job
  <2>2. w = [wire EXCEPT !.closed = TRUE]
    BY <1>2, <1>3 DEF w, b, Job, Wire
  <2>3. wire' = w /\ last' = [ok |-> TRUE, n |-> wire.n]
    BY <1>1, <1>4, <1>10 DEF Becomes
  <2>4. /\ dir' = "in" /\ wire'.n = wire'.size
        /\ (wire'.closed <=> wire'.short \/ wire'.size % EpSize # 0)
    BY <1>1, <1>3, <1>4, <1>7, <2>3
  <2>5. Transfer!Complete
    BY <2>1, <2>2, <2>3, <2>4 DEF Transfer!Complete, Transfer!Done
  <2>6. QED
    BY <2>5 DEF Promised, Transfer!Next
<1>14. QED
  BY <1>12, <1>13

-----------------------------------------------------------------------------
(* Control requests and bus reset                                          *)

\* The endpoint is stopped and its job aborted.
LEMMA Stopped ==
  ASSUME IInv, NEW s \in States, Becomes(Finish(s, FALSE)), UNCHANGED <<dir, main>>,
         ep' \in {"off", "halted"},
         s.job = job, s.wire = wire, s.last = last, s.line = <<>>,
         s.dma.st = "off", ~(s.irq.ep /\ s.irq.send), s.irq.dma => irq.dma,
         s.dma.eot <=> dma.eot, s.dma.hit <=> dma.hit, s.dma.left = dma.left
  PROVE  IInv' /\ Promised
<1> DEFINE t == Finish(s, FALSE)
<1>1. /\ t \in States /\ ~t.job.busy /\ t.dma = s.dma /\ t.irq = s.irq /\ t.line = <<>>
      /\ t.wire = wire
      /\ t.last = IF job.busy THEN [ok |-> FALSE, n |-> job.size] ELSE last
  BY FinishIs
<1>2. Becomes(t)
  OBVIOUS
<1> HIDE DEF t
<1>3. Len(<<>>) <= Banks
  BY Constants
<1>4. Good(t, ep', main')
  BY <1>1, <1>3, NowIs DEF IInv, Good
<1>5. IInv'
  BY <1>1, <1>2, <1>4, Primed DEF IInv
<1>6. job \in Job /\ job'.busy = FALSE
  BY <1>1, <1>2, BasicsHold DEF Becomes, States, Job
<1>7. CASE ~job.busy
  BY <1>1, <1>2, <1>5, <1>6, <1>7, Unseen
<1>8. CASE job.busy
  <2>1. job.busy = TRUE
    BY <1>6, <1>8 DEF Job
  <2>2. wire' = wire /\ last' = [ok |-> FALSE, n |-> job.size]
    BY <1>1, <1>2, <1>8 DEF Becomes
  <2>3. Transfer!Abort
    BY <1>6, <2>1, <2>2 DEF Transfer!Abort
  <2>4. QED
    BY <1>5, <2>3 DEF Promised, Transfer!Next
<1>9. QED
  BY <1>7, <1>8

LEMMA FreeHolds ==
  ASSUME IInv, Proper, Free
  PROVE  IInv' /\ Promised
<1> DEFINE s == Disabled(Now)
<1>1. ep' = "off" /\ Becomes(Finish(s, FALSE)) /\ UNCHANGED <<dir, main>>
  BY DEF Free
<1>2. /\ s \in States /\ s.job = job /\ s.wire = wire /\ s.last = last /\ s.line = <<>>
      /\ s.dma.st = "off" /\ ~s.irq.send /\ (s.irq.dma <=> irq.dma)
      /\ (s.dma.eot <=> dma.eot) /\ (s.dma.hit <=> dma.hit) /\ s.dma.left = dma.left
  BY BasicsHold, NowIs, DisabledIs DEF Proper
<1> HIDE DEF s
<1>3. QED
  BY <1>1, <1>2, Stopped

LEMMA SetHaltHolds ==
  ASSUME IInv, Proper, SetHalt
  PROVE  IInv' /\ Promised
<1> DEFINE s == [Now EXCEPT !.dma.st = "off", !.line = <<>>,
                            !.irq = [@ EXCEPT !.dma = FALSE, !.ep = FALSE]]
           d == [dma EXCEPT !.st = "off"]
           i == [[irq EXCEPT !.dma = FALSE] EXCEPT !.ep = FALSE]
<1>1. ep' = "halted" /\ Becomes(Finish(s, FALSE)) /\ UNCHANGED <<dir, main>>
  BY DEF SetHalt
<1>2. Now \in States /\ dma \in Dma /\ irq \in Irq
  BY BasicsHold
<1>3. /\ d \in Dma /\ d.st = "off" /\ d.eot = dma.eot /\ d.hit = dma.hit
      /\ d.left = dma.left
  BY <1>2 DEF Dma
<1>4. i \in Irq /\ ~i.ep /\ ~i.dma
  BY <1>2 DEF Irq
<1>5. s = [[[Now EXCEPT !.dma = d] EXCEPT !.line = <<>>] EXCEPT !.irq = i]
  BY <1>2, NowIs DEF Now
<1>6. <<>> \in Seq(0 .. EpSize)
  BY EmptySeq
<1> HIDE DEF d, i, s
<1>7. /\ s \in States /\ s.job = job /\ s.wire = wire /\ s.last = last /\ s.line = <<>>
      /\ s.dma = d /\ s.irq = i
  BY <1>2, <1>3, <1>4, <1>5, <1>6, NowIs DEF States
<1>8. QED
  BY <1>1, <1>3, <1>4, <1>7, Stopped

\* A transfer that is run again before a packet of it has moved goes on as its caller
\* sees it; of one that is not, something was forgotten.
LEMMA ReallocateHolds ==
  ASSUME IInv, Proper, Reallocate
  PROVE  IInv' /\ (Promised \/ lost' # {})
<1> DEFINE s == Disabled(Now)
           w == NewWire(wire)
           c == [s EXCEPT !.wire = w]
           a == [size |-> job.size, short |-> job.short]
           f == Filled(c, a)
           t == TransDone(f)
<1>1. ep = "on" /\ main.pc = "idle" /\ UNCHANGED <<dir, ep, main>> /\ Becomes(Rerun(s))
  BY DEF Reallocate, Alone, Proper
<1>2. /\ Now \in States /\ job \in Job /\ wire \in Wire /\ dir \in {"in", "out"}
      /\ dir = "in" => ~dma.eot /\ (dma.hit => dma.left = 0 /\ dma.st = "off")
  BY BasicsHold, NowIs DEF IInv, Good
<1>3. /\ s \in States /\ s.job = job /\ s.wire = wire /\ s.last = last /\ s.line = <<>>
      /\ s.dma.st = "off" /\ ~s.irq.send /\ (s.irq.dma <=> irq.dma)
      /\ (s.dma.eot <=> dma.eot) /\ (s.dma.hit <=> dma.hit) /\ s.dma.left = dma.left
  BY <1>2, NowIs, DisabledIs DEF Proper
<1>4. Len(<<>>) <= Banks
  BY Constants
<1> HIDE DEF s
<1>5. CASE ~job.busy
  <2>1. Becomes(s)
    BY <1>1, <1>3, <1>5 DEF Rerun
  <2>2. Good(s, ep', main')
    BY <1>1, <1>2, <1>3, <1>4, <1>5 DEF Good
  <2>3. IInv'
    BY <1>1, <1>2, <1>3, <2>1, <2>2, Primed DEF IInv
  <2>4. QED
    BY <1>1, <1>2, <1>3, <2>1, <2>3, Unseen
<1>6. CASE job.busy
  <2>1. Becomes(t)
    BY <1>1, <1>3, <1>6 DEF Rerun
  <2>2. /\ job.size = wire.size
        /\ [size |-> wire.size, short |-> wire.short] \in Asked
        /\ Mult(job.size) => (job.short <=> wire.short)
           \/ dir = "out"
    BY <1>1, <1>2, <1>6, NowIs DEF IInv, Good, Phase, Sending, ChunkSent, AwaitsBank
  <2>3. /\ wire.size \in (IF dir = "in" THEN InSizes ELSE OutSizes)
        /\ (wire.size = 0 => wire.short)
        /\ wire.size \in Nat /\ job.short \in BOOLEAN
        /\ dir = "out" => wire.size > 0
    BY <1>2, <2>2, EpJobAssumption DEF Asked, Job
  <2>4. /\ w \in Wire /\ w.size = wire.size /\ w.short = wire.short /\ w.n = 0
        /\ ~w.closed
    BY <1>2 DEF NewWire, Wire
  <2>5. c \in States /\ c.job = job /\ c.dma = s.dma /\ c.irq = s.irq /\ c.line = <<>>
        /\ c.wire = w /\ c.last = last
    <3> HIDE DEF w
    <3>1. QED
      BY <1>3, <2>4 DEF States
  <2>6. a \in [size : Nat, short : BOOLEAN] /\ a.size = job.size /\ a.short = job.short
    BY <1>2 DEF Job
  <2> HIDE DEF a, c
  <2>7. /\ f \in States /\ f.job.busy /\ f.job.size = job.size /\ f.job.trans = 0
        /\ (f.job.short <=> job.short) /\ f.dma = s.dma /\ f.irq = s.irq
        /\ f.line = <<>> /\ f.wire = w /\ f.last = last
    BY <1>6, <2>5, <2>6, FilledIs
  <2> HIDE DEF f, t
  <2>8. Ready(f)
    <3> HIDE DEF w
    <3>1. CASE dir = "in"
      <4>1. ReadyIn(f)
        BY <1>2, <1>3, <1>4, <2>2, <2>3, <2>4, <2>7, <3>1, MultZero DEF ReadyIn
      <4>2. QED
        BY <3>1, <4>1 DEF Ready
    <3>2. CASE dir = "out"
      <4>1. ReadyOut(f)
        BY <1>3, <2>2, <2>3, <2>4, <2>7, <3>2 DEF ReadyOut
      <4>2. QED
        BY <3>2, <4>1 DEF Ready
    <3>3. QED
      BY <1>2, <3>1, <3>2
  <2>9. Good(t, "on", main) /\ Landed(f, t)
    <3> HIDE DEF w
    <3>1. [size |-> f.wire.size, short |-> f.wire.short] \in Asked
      BY <2>2, <2>4, <2>7
    <3>2. QED
      BY <1>1, <1>2, <1>4, <2>7, <2>8, <3>1, Outcome DEF Proper, t
  <2>10. t \in States
    BY <2>9 DEF Good
  <2>11. IInv'
    BY <1>1, <1>2, <2>1, <2>9, <2>10, Primed DEF IInv
  <2>12. w # wire => lost' # {}
    <3>1. lost' = lost \cup Forgotten
      BY <1>6 DEF Reallocate
    <3>2. wire.n \in Nat /\ wire.closed \in BOOLEAN
      BY <1>2 DEF Wire
    <3>3. CASE wire.n > 0 \/ wire.closed
      <4>1. "bytes" \in Forgotten \/ "end" \in Forgotten
        BY <3>3 DEF Forgotten
      <4>2. QED
        BY <3>1, <4>1
    <3>4. CASE ~(wire.n > 0 \/ wire.closed)
      <4>1. wire.n = 0 /\ wire.closed = FALSE
        BY <3>2, <3>4
      <4>2. w = wire
        BY <1>2, <4>1 DEF NewWire, Wire
      <4>3. QED
        BY <4>2
    <3>5. QED
      BY <3>3, <3>4
  <2>13. job.busy = TRUE /\ t.job.busy \in BOOLEAN /\ job' = t.job
    BY <1>2, <1>6, <2>1, <2>10 DEF Becomes, States, Job
  <2> SUFFICES ASSUME w = wire PROVE Promised
    BY <2>11, <2>12
  <2>14. CASE t.job.busy /\ t.wire = f.wire /\ t.last = f.last
    <3>1. job'.busy = job.busy /\ wire' = wire /\ last' = last
      BY <2>1, <2>7, <2>13, <2>14 DEF Becomes
    <3>2. QED
      BY <1>1, <3>1 DEF Promised, Transfer!transferVars
  <2>15. CASE IsOver(f, t)
    <3>1. job'.busy = FALSE /\ wire' = t.wire /\ last' = t.last
      BY <2>1, <2>13, <2>15 DEF Becomes, IsOver
    <3>2. QED
      BY <1>1, <2>7, <2>13, <2>15, <3>1 DEF IsOver, Promised, Transfer!Next, Transfer!Complete
  <2>16. QED
    BY <2>9, <2>14, <2>15 DEF Landed
<1>7. QED
  BY <1>5, <1>6

-----------------------------------------------------------------------------
(* The theorems                                                            *)

\* Every step keeps the invariant and is one of the caller's view, or none.
LEMMA StepHolds ==
  ASSUME Proper, IInv, [Next]_vars
  PROVE  IInv' /\ (Promised \/ lost' # {})
<1>1. ASSUME NEW a \in Asked, Run(a) PROVE IInv' /\ Promised
  BY <1>1, RunHolds
<1>2. ASSUME NEW a \in Asked, Claim(a) PROVE IInv' /\ Promised
  BY <1>2, ClaimHolds
<1>3. CASE Fill
  BY <1>3, FillHolds
<1>4. CASE Program
  BY <1>4, ProgramHolds
<1>5. CASE DmaIn
  BY <1>5, DmaInHolds
<1>6. CASE DmaOut
  BY <1>6, DmaOutHolds
<1>7. CASE DmaClose
  BY <1>7, DmaCloseHolds
<1>8. CASE NoteEmpty
  BY <1>8, NoteEmptyHolds
<1>9. ASSUME NEW n \in 0 .. EpSize, HostSend(n) PROVE IInv' /\ Promised
  BY <1>9, HostSendHolds
<1>10. CASE HostTake
  BY <1>10, HostTakeHolds
<1>11. CASE DmaInterrupt
  BY <1>11, DmaInterruptHolds
<1>12. CASE SendZlp
  BY <1>12, SendZlpHolds
<1>13. CASE Free
  BY <1>13, FreeHolds
<1>14. CASE Alloc \/ ClearHalt
  <2>1. /\ ep # "on" /\ ep' = "on"
        /\ UNCHANGED <<dir, job, dma, irq, line, main, wire, last>>
    BY <1>14 DEF Alloc, ClearHalt
  <2>2. QED
    BY <2>1, EnableHolds
<1>15. CASE Reallocate
  BY <1>15, ReallocateHolds
<1>16. CASE SetHalt
  BY <1>16, SetHaltHolds
<1>17. CASE UNCHANGED vars
  <2>1. Now' = Now /\ UNCHANGED <<dir, ep, job, main, wire, last>>
    BY <1>17 DEF vars, Now
  <2>2. Promised
    BY <2>1 DEF Promised, Transfer!transferVars
  <2>3. /\ Becomes(Now) /\ Good(Now, ep', main') /\ Now \in States
    BY <2>1, BecomesNow DEF IInv, Good
  <2>4. IInv'
    BY <2>1, <2>3, Primed DEF IInv
  <2>5. QED
    BY <2>2, <2>4
<1>18. QED
  BY <1>1, <1>2, <1>3, <1>4, <1>5, <1>6, <1>7, <1>8, <1>9, <1>10, <1>11, <1>12, <1>13,
     <1>14, <1>15, <1>16, <1>17 DEF Next

\* The phases of a transfer, and the sums that go with each, are the only states of
\* a job, whatever interrupts, control requests and empty packets come between its
\* steps.
THEOREM Invariant ==
  ASSUME Proper
  PROVE  Spec => []IInv
<1>1. Init => IInv
  BY InitHolds
<1>2. IInv /\ [Next]_vars => IInv'
  BY StepHolds
<1>3. QED
  BY <1>1, <1>2, PTL DEF Spec

LostOK == lost \subseteq {"bytes", "end"}

LEMMA LostType == Spec => []LostOK
<1>1. Init => LostOK
  BY DEF Init, LostOK
<1>2. LostOK /\ [Next]_vars => LostOK'
  BY DEF LostOK, Next, Run, Claim, Fill, Program, DmaIn, DmaOut, DmaClose, NoteEmpty, HostSend,
         HostTake, DmaInterrupt, SendZlp, Free, Alloc, Reallocate, Forgotten, SetHalt,
         ClearHalt, vars
<1>3. QED
  BY <1>1, <1>2, PTL DEF Spec

\* Counters stay in the buffer that was given, packets in the banks.
THEOREM TypeCorrect ==
  ASSUME Proper
  PROVE  Spec => []TypeOK
<1>1. IInv /\ LostOK => TypeOK
  <2> SUFFICES ASSUME IInv, LostOK PROVE TypeOK
    OBVIOUS
  <2>1. /\ Now \in States /\ job \in Job /\ dma \in Dma /\ irq \in Irq
        /\ line \in Seq(0 .. EpSize) /\ wire \in Wire /\ last \in Last
        /\ Len(line) <= Banks
    BY BasicsHold, NowIs DEF IInv, Good
  <2>2. ASSUME job.busy, main.pc = "idle"
        PROVE  job.trans <= job.size /\ job.size \in Sizes
    <3>1. job.size = wire.size /\ wire.size \in Sizes /\ Phase(Now)
      BY <2>2, NowIs DEF IInv, Good, Asked
    <3>2. job.trans <= job.size
      BY <2>1, <3>1, NowIs
      DEF Phase, Sending, ChunkSent, AwaitsBank, Receiving, Received, Job
    <3>3. QED
      BY <3>1, <3>2
  <2>3. ASSUME job.busy, main.pc = "program"
        PROVE  job.trans <= job.size /\ job.size \in Sizes
    BY <2>1, <2>3, NowIs, AskedIs DEF IInv, Good, Job
  <2>4. QED
    BY <2>1, <2>2, <2>3 DEF IInv, LostOK, TypeOK, Job, Dma, Irq, Wire, Last
<1>2. QED
  BY <1>1, Invariant, LostType, PTL

\* The channel goes on where the packets so far ended, and what is left of it and
\* nb_trans add up, through every cut of the transfer and every restart.
THEOREM ChannelAlwaysFollows ==
  ASSUME Proper
  PROVE  Spec => []ChannelFollows
<1>1. IInv => ChannelFollows
  <2> SUFFICES ASSUME IInv, dma.st # "off"
               PROVE  /\ dma.at = wire.n /\ job.trans = dma.at + dma.left
                      /\ job.trans <= wire.size
    BY DEF ChannelFollows
  <2>1. job \in Job /\ job.size = wire.size /\ Phase(Now)
    BY Working, BasicsHold
  <2>2. QED
    BY <2>1, NowIs DEF Phase, Sending, ChunkSent, AwaitsBank, Receiving, Received, Job
<1>2. QED
  BY <1>1, Invariant, PTL

\* A job is never left with nothing that would end it.
THEOREM JobAlwaysDriven ==
  ASSUME Proper
  PROVE  Spec => []JobIsDriven
<1>1. IInv => JobIsDriven
  <2> SUFFICES ASSUME IInv, job.busy, main.pc = "idle"
               PROVE  \/ dma.st # "off" /\ irq.dma
                      \/ dma.hit /\ irq.dma
                      \/ irq.ep /\ irq.send /\ (irq.txin \/ Len(line) = Banks)
    BY DEF JobIsDriven
  <2>1. Phase(Now) /\ Len(line) <= Banks /\ line \in Seq(0 .. EpSize)
    BY BasicsHold, NowIs DEF IInv, Good
  <2>2. Len(line) \in Nat /\ Banks \in Nat
    BY <2>1, LenProperties, Constants
  <2>3. ~(Len(line) < Banks) => Len(line) = Banks
    BY <2>1, <2>2
  <2>4. QED
    BY <2>1, <2>3, NowIs DEF Phase, Sending, ChunkSent, AwaitsBank, Receiving, Received
<1>2. QED
  BY <1>1, Invariant, PTL

\* The driver keeps what udd.h promises of udd_ep_run(): each of its steps is one of
\* EpTransfer's or leaves the caller's view as it was, but for a transfer that was
\* run again when packets of it had moved.
THEOREM KeepsPromise ==
  ASSUME Proper
  PROVE  Spec => IsTransfer
<1>1. Init => Transfer!Init
  BY InitHolds
<1>2. IInv /\ [Next]_vars => [lost' # {} \/ Transfer!Next]_(Transfer!transferVars)
  BY StepHolds DEF Promised
<1>3. QED
  BY <1>1, <1>2, Invariant, PTL DEF Spec, IsTransfer
=============================================================================
