---------------------------- MODULE CtrlEpProofs ----------------------------
(***************************************************************************)
(* Proofs about the control endpoint, for every packet size, every set of  *)
(* requests and every host.                                                *)
(***************************************************************************)
EXTENDS CtrlEp, TLAPS

(***************************************************************************)
(* What holds of the device alone.                                         *)
(***************************************************************************)

\* The bytes of a request with data are within its payload.
Within(d) ==
  /\ Possible(d.req)
  /\ d.req.ok /\ d.req.len > 0 => d.trans <= d.req.pay

\* Data are under way only for an accepted request with data.
DataSound(d) ==
  /\ Within(d)
  /\ d.state \in {"DATA_IN", "DATA_OUT"} =>
       d.req.ok /\ d.req.len > 0 /\ d.size = d.req.pay /\ d.trans <= d.size
  /\ d.state \in {"DATA_IN", "WAIT_OUT_ZLP"} => d.req.dir = "in"
  /\ d.state \in {"DATA_OUT", "WAIT_IN_ZLP"} => d.req.dir = "out"

\* A callback that is due is still registered, until it has run once.
CallSound(d) ==
  /\ d.calls <= 1 /\ d.last.calls <= 1
  /\ d.call => d.calls = 0
  /\ d.req.call /\ d.state # "SETUP" => d.call
  /\ d.req.call /\ d.status =>
       d.calls = 1 \/ (d.state = "WAIT_IN_ZLP" /\ d.txin)
  /\ d.last.call /\ d.last.status => d.last.calls = 1

\* The interrupt on a sent packet is enabled when one may be.
IntSound(d) ==
  /\ d.inE => d.state \in {"DATA_IN", "WAIT_IN_ZLP"}
  /\ d.state = "WAIT_IN_ZLP" => d.inE

Good(d) == d \in Device /\ DataSound(d) /\ CallSound(d)

\* Where host and device are when the device has seen the host's SETUP.
InPhase(d, h) ==
  /\ d.rxout => d.state # "SETUP"
  /\ d.rxstp => d.txin
  /\ h.stage # "idle" /\ ~d.rxstp =>
       /\ d.req = h.req
       /\ d.stall \/ d.state # "SETUP"
       /\ d.rxout => d.state \notin {"DATA_IN", "WAIT_OUT_ZLP"}
       /\ d.state = "WAIT_IN_ZLP" => ~d.txin
       /\ d.txin \/ d.stall \/ d.state \in {"DATA_IN", "WAIT_IN_ZLP"}

HostSound(h) ==
  /\ h \in [stage : Stages, req : Request, n : Nat, orderly : BOOLEAN]
  /\ Possible(h.req) /\ h.n <= h.req.len
  /\ h.stage \in {"in", "statusOut"} => h.req.dir = "in"
  /\ h.stage = "out" => h.req.dir = "out"
  /\ h.stage = "statusIn" => h.req.dir = "out" \/ h.req.len = 0

Sound(d, h) == Good(d) /\ IntSound(d) /\ InPhase(d, h) /\ HostSound(h)

IInv == Sound(dev, host)

(***************************************************************************)
(* The parts of the handlers keep the type.                                *)
(***************************************************************************)

LEMMA CtrlInitType ==
  ASSUME NEW d \in Device
  PROVE  CtrlInit(d) \in Device
  BY DEF CtrlInit, Device, States

LEMMA EndType ==
  ASSUME NEW d \in Device
  PROVE  EndOfRequest(d) \in Device
<1> [d EXCEPT !.calls = @ + 1] \in Device
  BY DEF Device
<1> QED
  BY DEF EndOfRequest

LEMMA EndGood ==
  ASSUME NEW d, Good(d)
  PROVE  /\ Good(CtrlInit(EndOfRequest(d)))
         /\ CtrlInit(EndOfRequest(d)).state = "SETUP"
<1> DEFINE e == EndOfRequest(d)
           c == CtrlInit(e)
<1>1. d \in Device /\ e \in Device /\ c \in Device
  BY EndType, CtrlInitType DEF Good
<1>2. /\ e.calls = d.calls + (IF d.call THEN 1 ELSE 0)
      /\ e.req = d.req /\ e.status = d.status /\ e.last = d.last /\ e.trans = d.trans
      /\ e.state = d.state /\ e.txin = d.txin
  BY <1>1 DEF EndOfRequest, Device
<1> HIDE DEF e
<1>3. /\ c.calls = e.calls /\ c.req = e.req /\ c.status = e.status /\ c.last = e.last
      /\ c.trans = e.trans /\ c.state = "SETUP" /\ c.call = FALSE /\ c.inE = FALSE
  BY <1>1 DEF CtrlInit, Device
<1> HIDE DEF c
<1>4. DataSound(c)
  BY <1>1, <1>2, <1>3 DEF Good, DataSound, Within, Possible
<1>5. CallSound(c)
  BY <1>1, <1>2, <1>3 DEF Good, CallSound, Device, Request
<1> QED
  BY <1>1, <1>3, <1>4, <1>5 DEF Good, c, e

LEMMA SendZlpInType ==
  ASSUME NEW d \in Device
  PROVE  SendZlpIn(d) \in Device
<1> DEFINE p == [req |-> d.req, off |-> 0, n |-> 0]
<1> p \in [req : Request, off : Nat, n : 0 .. CtrlSize]
  BY CtrlEpAssumption DEF Device
<1> HIDE DEF p
<1> [d EXCEPT !.state = "WAIT_IN_ZLP", !.txin = FALSE, !.inE = TRUE, !.pkt = p,
              !.nakout = FALSE, !.nakoutE = TRUE] \in Device
  BY DEF Device, States
<1> QED
  BY DEF SendZlpIn, p

LEMMA SendZlpOutType ==
  ASSUME NEW d \in Device
  PROVE  SendZlpOut(d) \in Device
  BY DEF SendZlpOut, Device, States

LEMMA StallType ==
  ASSUME NEW d \in Device
  PROVE  StallData(d) \in Device
  BY DEF StallData, Device, States

LEMMA SendPieceType ==
  ASSUME NEW d \in Device, d.trans <= d.size
  PROVE  SendPiece(d) \in Device
<1> DEFINE n == AtMost(d.size - d.trans, CtrlSize)
           p == [req |-> d.req, off |-> d.trans, n |-> n]
           s == n < CtrlSize
           c == [d EXCEPT !.short = s]
<1>1. n \in 0 .. CtrlSize
  BY CtrlEpAssumption DEF AtMost, Device
<1> HIDE DEF n
<1>2. s \in BOOLEAN /\ p \in [req : Request, off : Nat, n : 0 .. CtrlSize]
  BY <1>1, CtrlEpAssumption DEF Device
<1> HIDE DEF s, p
<1>3. c \in Device
  BY <1>2 DEF Device
<1> HIDE DEF c
<1>4. [c EXCEPT !.state = "WAIT_OUT_ZLP"] \in Device
  BY <1>3 DEF Device, States
<1> DEFINE t == c.trans + n
<1>5. t \in Nat
  BY <1>1, <1>3, CtrlEpAssumption DEF Device
<1> HIDE DEF t
<1>6. [c EXCEPT !.pkt = p, !.trans = t, !.txin = FALSE, !.inE = TRUE] \in Device
  BY <1>2, <1>3, <1>5 DEF Device
<1> QED
  BY <1>4, <1>6 DEF SendPiece, t, c, p, s, n

(***************************************************************************)
(* The handlers keep everything.                                           *)
(***************************************************************************)

LEMMA EndSound ==
  ASSUME NEW d, NEW h, Good(d), HostSound(h), h.stage = "idle" \/ d.rxstp,
         d.rxstp => d.txin
  PROVE  /\ Sound(CtrlInit(EndOfRequest(d)), h)
         /\ CtrlInit(EndOfRequest(d)).rxstp = d.rxstp
         /\ CtrlInit(EndOfRequest(d)).txin = d.txin
         /\ CtrlInit(EndOfRequest(d)).rxout = FALSE
<1> DEFINE e == EndOfRequest(d)
           c == CtrlInit(e)
<1>1. d \in Device /\ e \in Device /\ c \in Device
  BY EndType, CtrlInitType DEF Good
<1>2. /\ e.calls = d.calls + (IF d.call THEN 1 ELSE 0)
      /\ e.req = d.req /\ e.status = d.status /\ e.last = d.last /\ e.trans = d.trans
      /\ e.state = d.state /\ e.txin = d.txin /\ e.rxstp = d.rxstp
  BY <1>1 DEF EndOfRequest, Device
<1> HIDE DEF e
<1>3. /\ c.calls = e.calls /\ c.req = e.req /\ c.status = e.status /\ c.last = e.last
      /\ c.trans = e.trans /\ c.state = "SETUP" /\ c.call = FALSE /\ c.inE = FALSE
      /\ c.rxout = FALSE /\ c.txin = e.txin /\ c.rxstp = e.rxstp
  BY <1>1 DEF CtrlInit, Device
<1> HIDE DEF c
<1>4. DataSound(c)
  BY <1>1, <1>2, <1>3 DEF Good, DataSound, Within, Possible
<1>5. CallSound(c)
  BY <1>1, <1>2, <1>3 DEF Good, CallSound, Device, Request
<1>6. IntSound(c) /\ InPhase(c, h)
  BY <1>2, <1>3 DEF IntSound, InPhase
<1> QED
  BY <1>1, <1>2, <1>3, <1>4, <1>5, <1>6 DEF Sound, Good, c, e

LEMMA SendPieceSound ==
  ASSUME NEW d, NEW h, Good(d), InPhase(d, h), HostSound(h), d.state = "DATA_IN",
         d.rxstp = FALSE, d.inE = FALSE
  PROVE  Sound(SendPiece(d), h)
<1> DEFINE n == AtMost(d.size - d.trans, CtrlSize)
           e == SendPiece(d)
<1>1. d \in Device /\ d.trans <= d.size
  BY DEF Good, DataSound
<1>2. e \in Device
  BY <1>1, SendPieceType
<1>3. n \in Nat /\ n <= d.size - d.trans
  BY <1>1, CtrlEpAssumption DEF AtMost, Device
<1> HIDE DEF n
<1>4. /\ e.req = d.req /\ e.size = d.size /\ e.call = d.call /\ e.calls = d.calls
      /\ e.last = d.last /\ e.status = d.status /\ e.rxstp = d.rxstp
      /\ e.rxout = d.rxout /\ e.stall = d.stall
  BY <1>1 DEF SendPiece, Device
<1>5. IF d.rxout THEN e.state = "WAIT_OUT_ZLP" /\ e.trans = d.trans /\ e.inE = d.inE
                      /\ e.txin = d.txin
      ELSE e.state = "DATA_IN" /\ e.trans = d.trans + n /\ e.inE = TRUE /\ e.txin = FALSE
  BY <1>1 DEF SendPiece, Device, n
<1> HIDE DEF e
<1>6. DataSound(e)
  BY <1>1, <1>3, <1>4, <1>5 DEF Good, DataSound, Within, Possible, Device, Request
<1>7. CallSound(e)
  BY <1>1, <1>4, <1>5 DEF Good, DataSound, Within, CallSound, Possible, Device, Request
<1>8. IntSound(e) /\ InPhase(e, h)
  BY <1>4, <1>5 DEF IntSound, InPhase
<1> QED
  BY <1>2, <1>6, <1>7, <1>8 DEF Sound, Good, e

LEMMA InSentSound ==
  ASSUME NEW d, NEW h, Good(d), InPhase(d, h), HostSound(h), d.rxstp = FALSE,
         d.txin, d.state \in {"DATA_IN", "WAIT_IN_ZLP"}
  PROVE  Sound(InSent(d), h)
<1> DEFINE c == [d EXCEPT !.inE = FALSE]
           p == c.prev + c.trans
           e == [c EXCEPT !.prev = p]
<1>1. c \in Device /\ c.state = d.state /\ c.rxstp = FALSE /\ c.inE = FALSE
      /\ c.txin
  BY DEF Good, Device
<1>2. Good(c) /\ InPhase(c, h)
  <2>1. DataSound(c)
    BY DEF Good, DataSound, Within, Possible, Device
  <2>2. CallSound(c)
    BY DEF Good, CallSound, Device
  <2>3. InPhase(c, h)
    BY DEF Good, InPhase, Device
  <2> QED
    BY <1>1, <2>1, <2>2, <2>3 DEF Good
<1> HIDE DEF c
<1>3. p \in Nat
  BY <1>1 DEF Device
<1> HIDE DEF p
<1>4. /\ e \in Device /\ Good(e) /\ InPhase(e, h)
      /\ e.state = c.state /\ e.rxstp = FALSE /\ e.inE = FALSE /\ e.txin
  <2>1. e \in Device /\ e.state = c.state /\ e.rxstp = FALSE /\ e.inE = FALSE
         /\ e.txin
    BY <1>1, <1>3 DEF Device
  <2>2. DataSound(e)
    BY <1>1, <1>2 DEF Good, DataSound, Within, Possible, Device
  <2>3. CallSound(e)
    BY <1>1, <1>2 DEF Good, CallSound, Device
  <2>4. InPhase(e, h)
    BY <1>1, <1>2 DEF InPhase, Device
  <2> QED
    BY <2>1, <2>2, <2>3, <2>4 DEF Good
<1> HIDE DEF e
<1>5. CASE d.state = "WAIT_IN_ZLP"
  <2>1. h.stage = "idle"
    BY <1>5 DEF InPhase
  <2>2. InSent(d) = CtrlInit(EndOfRequest(c))
    BY <1>1, <1>5 DEF InSent, c
  <2> QED
    BY <1>1, <1>2, <2>1, <2>2, EndSound
<1>6. CASE d.state = "DATA_IN"
  <2>1. Sound(SendPiece(c), h) /\ Sound(SendPiece(e), h)
    BY <1>1, <1>2, <1>4, <1>6, SendPieceSound
  <2>2. Sound(SendZlpOut(e), h)
    <3> DEFINE z == SendZlpOut(e)
    <3>1. z \in Device
      BY <1>4, SendZlpOutType
    <3>2. DataSound(z)
      BY <1>4, <1>6, <1>1 DEF Good, DataSound, Within, Possible, Device, SendZlpOut
    <3>3. CallSound(z)
      BY <1>4, <1>6, <1>1 DEF Good, DataSound, Within, CallSound, Possible, Device, SendZlpOut
    <3>4. IntSound(z) /\ InPhase(z, h)
      BY <1>4, <1>6, <1>1 DEF IntSound, InPhase, Device, SendZlpOut
    <3> QED
      BY <3>1, <3>2, <3>3, <3>4 DEF Sound, Good
  <2>3. InSent(d) \in {SendPiece(c), SendPiece(e), SendZlpOut(e)}
    BY <1>1, <1>6 DEF InSent, c, e, p
  <2> QED
    BY <2>1, <2>2, <2>3
<1> QED
  BY <1>5, <1>6

LEMMA SendZlpInSound ==
  ASSUME NEW d \in Device, NEW h, CallSound(d), Within(d), HostSound(h), d.rxstp = FALSE,
         h.stage # "idle" => d.req = h.req,
         d.req.dir = "out", d.req.call => d.call,
         d.status /\ d.req.call => d.calls = 1
  PROVE  Sound(SendZlpIn(d), h)
<1> DEFINE z == SendZlpIn(d)
<1>1. d \in Device /\ z \in Device
  BY SendZlpInType
<1>2. /\ z.req = d.req /\ z.trans = d.trans /\ z.call = d.call /\ z.calls = d.calls
      /\ z.last = d.last /\ z.status = d.status /\ z.rxstp = FALSE
      /\ z.state = "WAIT_IN_ZLP" /\ z.inE = TRUE /\ z.txin = FALSE
  BY <1>1 DEF SendZlpIn, Device
<1> HIDE DEF z
<1>3. DataSound(z)
  BY <1>1, <1>2 DEF DataSound, Within
<1>4. CallSound(z)
  BY <1>1, <1>2 DEF CallSound
<1>5. IntSound(z) /\ InPhase(z, h)
  BY <1>2 DEF IntSound, InPhase
<1> QED
  BY <1>1, <1>3, <1>4, <1>5 DEF Sound, Good, z

LEMMA StallSound ==
  ASSUME NEW d \in Device, NEW h, CallSound(d), Within(d), HostSound(h), d.inE = FALSE,
         d.rxstp => d.txin,
         h.stage # "idle" /\ ~d.rxstp => d.req = h.req,
         d.req.call => d.call,
         d.status /\ d.req.call => d.calls = 1
  PROVE  Sound(StallData(d), h)
<1> DEFINE z == StallData(d)
<1>1. d \in Device /\ z \in Device
  BY StallType
<1>2. /\ z.req = d.req /\ z.trans = d.trans /\ z.call = d.call /\ z.calls = d.calls
      /\ z.last = d.last /\ z.status = d.status /\ z.rxstp = d.rxstp
      /\ z.state = "STALL_REQ" /\ z.inE = FALSE /\ z.txin = d.txin /\ z.stall = TRUE
  BY <1>1 DEF StallData, Device
<1> HIDE DEF z
<1>3. DataSound(z)
  BY <1>1, <1>2 DEF DataSound, Within
<1>4. CallSound(z)
  BY <1>1, <1>2 DEF CallSound
<1>5. IntSound(z) /\ InPhase(z, h)
  BY <1>2 DEF IntSound, InPhase
<1> QED
  BY <1>1, <1>3, <1>4, <1>5 DEF Sound, Good, z

LEMMA AcceptedSound ==
  ASSUME NEW d \in Device, NEW h, CallSound(d), Possible(d.req), HostSound(h),
         d.state = "SETUP", d.rxstp = FALSE, d.rxout = FALSE, d.txin, d.inE = FALSE,
         d.req = h.req, d.req.ok, d.size = d.req.pay, d.call = d.req.call,
         ~d.status, d.calls = 0
  PROVE  Sound(Accepted(d), h)
<1> DEFINE c == [d EXCEPT !.prev = 0, !.trans = 0]
           i == [c EXCEPT !.state = "DATA_IN"]
           o == [c EXCEPT !.state = "DATA_OUT", !.nakin = FALSE, !.nakinE = TRUE]
<1>1. d \in Device /\ Possible(d.req) /\ d.req \in Request
  BY DEF Device
<1>2. /\ c \in Device
      /\ c.req = d.req /\ c.trans = 0 /\ c.size = d.size /\ c.call = d.call
      /\ c.calls = 0 /\ c.last = d.last /\ c.status = d.status
      /\ c.rxstp = FALSE /\ c.rxout = FALSE /\ c.txin /\ c.inE = FALSE
      /\ c.stall = d.stall
  BY <1>1 DEF Device
<1> HIDE DEF c
<1>3. CASE d.req.dir = "in"
  <2>1. /\ i \in Device
        /\ i.req = d.req /\ i.trans = 0 /\ i.size = d.size /\ i.call = d.call
        /\ i.calls = 0 /\ i.last = d.last /\ i.status = d.status
        /\ i.rxstp = FALSE /\ i.rxout = FALSE /\ i.txin /\ i.inE = FALSE
        /\ i.stall = d.stall /\ i.state = "DATA_IN"
    BY <1>2 DEF Device, States
  <2> HIDE DEF i
  <2>2. DataSound(i)
    BY <1>1, <1>3, <2>1 DEF DataSound, Within, Possible, Request
  <2>3. CallSound(i)
    BY <1>1, <2>1 DEF CallSound, Good
  <2>4. InPhase(i, h)
    BY <2>1 DEF InPhase
  <2>5. Sound(InSent(i), h)
    BY <2>1, <2>2, <2>3, <2>4, InSentSound DEF Good
  <2>6. Accepted(d) = InSent(i)
    BY <1>3 DEF Accepted, i, c
  <2> QED
    BY <2>5, <2>6
<1>4. CASE d.req.dir # "in" /\ d.req.len = 0
  <2>1. d.req.dir = "out" /\ Accepted(d) = SendZlpIn(d)
    BY <1>1, <1>4 DEF Accepted, Request
  <2>2. Within(d)
    BY <1>1, <1>4 DEF Within
  <2> QED
    BY <2>1, <2>2, SendZlpInSound
<1>5. CASE d.req.dir # "in" /\ d.req.len # 0
  <2>1. /\ o \in Device
        /\ o.req = d.req /\ o.trans = 0 /\ o.size = d.size /\ o.call = d.call
        /\ o.calls = 0 /\ o.last = d.last /\ o.status = d.status
        /\ o.rxstp = FALSE /\ o.rxout = FALSE /\ o.txin /\ o.inE = FALSE
        /\ o.stall = d.stall /\ o.state = "DATA_OUT"
    BY <1>2 DEF Device, States
  <2>2. Accepted(d) = o
    BY <1>5 DEF Accepted, c
  <2> HIDE DEF o
  <2>3. DataSound(o)
    BY <1>1, <1>5, <2>1 DEF DataSound, Within, Possible, Request
  <2>4. CallSound(o)
    BY <1>1, <2>1 DEF CallSound, Good
  <2>5. IntSound(o) /\ InPhase(o, h)
    BY <2>1 DEF InPhase, IntSound
  <2> QED
    BY <2>1, <2>2, <2>3, <2>4, <2>5 DEF Sound, Good
<1> QED
  BY <1>3, <1>4, <1>5

\* A halt of endpoint 0 changes its interrupt's enable and its STALL only.
LEMMA HaltedIs ==
  ASSUME NEW d \in Device
  PROVE  /\ Halted(d) \in Device
         /\ Halted(d).state = d.state /\ Halted(d).req = d.req /\ Halted(d).size = d.size
         /\ Halted(d).trans = d.trans /\ Halted(d).call = d.call
         /\ Halted(d).rxstp = d.rxstp /\ Halted(d).rxout = d.rxout
         /\ Halted(d).txin = d.txin /\ Halted(d).inE = d.inE
         /\ Halted(d).calls = d.calls /\ Halted(d).status = d.status
         /\ Halted(d).last = d.last
         /\ Halted(d).stall = (d.stall \/ d.req.halt = "stall")
<1> DEFINE s == d.stall \/ d.req.halt = "stall"
           z == [d EXCEPT !.intE = FALSE, !.stall = s]
<1>1. CASE d.req.halt = "none"
  <2>1. Halted(d) = d
    BY <1>1 DEF Halted
  <2>2. d.stall = s
    BY <1>1 DEF Device
  <2> QED
    BY <2>1, <2>2
<1>2. CASE d.req.halt # "none"
  <2>1. Halted(d) = z
    BY <1>2 DEF Halted
  <2>2. s \in BOOLEAN
    BY DEF Device
  <2> HIDE DEF s
  <2>3. /\ z \in Device
        /\ z.state = d.state /\ z.req = d.req /\ z.size = d.size /\ z.trans = d.trans
        /\ z.call = d.call /\ z.rxstp = d.rxstp /\ z.rxout = d.rxout /\ z.txin = d.txin
        /\ z.inE = d.inE /\ z.calls = d.calls /\ z.status = d.status /\ z.last = d.last
        /\ z.stall = s
    BY <2>2 DEF Device
  <2> QED
    BY <2>1, <2>3 DEF s
<1> QED
  BY <1>1, <1>2

LEMMA SetupReceivedSound ==
  ASSUME NEW d, NEW h, Sound(d, h), d.rxstp
  PROVE  Sound(SetupReceived(d, h.req), h)
<1> DEFINE r == h.req
           a == IF d.state = "SETUP" THEN d ELSE CtrlInit(EndOfRequest(d))
           l == [call |-> a.req.call, calls |-> a.calls, status |-> a.status]
           b == [a EXCEPT !.req = r, !.size = r.pay, !.call = r.call,
                          !.rxstp = FALSE, !.calls = 0, !.status = FALSE, !.last = l]
<1>1. /\ Good(a) /\ a.state = "SETUP" /\ a.rxout = FALSE /\ a.inE = FALSE
      /\ a.txin /\ a.rxstp
  <2>1. CASE d.state = "SETUP"
    <3>1. a = d
      BY <2>1
    <3>2. d.rxout \in BOOLEAN /\ d.inE \in BOOLEAN
      BY DEF Sound, Good, Device
    <3> QED
      BY <2>1, <3>1, <3>2 DEF Sound, InPhase, IntSound
  <2>2. CASE d.state # "SETUP"
    <3>1. a = CtrlInit(EndOfRequest(d))
      BY <2>2
    <3>2. d.txin
      BY DEF Sound, InPhase
    <3>3. Sound(a, h) /\ a.rxstp /\ a.txin /\ a.rxout = FALSE
      BY <3>1, <3>2, EndSound DEF Sound
    <3>4. a.state = "SETUP" /\ a.inE = FALSE
      <4>1. d \in Device /\ EndOfRequest(d) \in Device
        BY EndType DEF Sound, Good
      <4> QED
        BY <3>1, <4>1 DEF CtrlInit, Device
    <3> QED
      BY <3>3, <3>4 DEF Sound
  <2> QED
    BY <2>1, <2>2
<1> HIDE DEF a
<1>2. r \in Request /\ Possible(r) /\ HostSound(h)
  BY DEF Sound, HostSound
<1>3. l \in [call : BOOLEAN, calls : Nat, status : BOOLEAN]
  BY <1>1 DEF Good, Device, Request
<1>4. l.calls <= 1 /\ (l.call /\ l.status => l.calls = 1)
  BY <1>1 DEF Good, CallSound
<1> HIDE DEF l, r
<1>5. /\ b \in Device
      /\ b.req = r /\ b.size = r.pay /\ b.call = r.call /\ b.rxstp = FALSE
      /\ b.calls = 0 /\ b.status = FALSE /\ b.last = l
      /\ b.state = "SETUP" /\ b.rxout = FALSE /\ b.inE = FALSE /\ b.txin /\ b.trans = a.trans
  BY <1>1, <1>2, <1>3 DEF Good, Device, Request
<1> HIDE DEF b
<1>6. CallSound(b)
  BY <1>2, <1>4, <1>5 DEF CallSound
<1>7. CASE r.ok
  <2> DEFINE z == Halted(b)
  <2>1. /\ z \in Device
        /\ z.req = r /\ z.size = r.pay /\ z.call = r.call /\ z.rxstp = FALSE
        /\ z.calls = 0 /\ z.status = FALSE /\ z.last = b.last
        /\ z.state = "SETUP" /\ z.rxout = FALSE /\ z.inE = FALSE /\ z.txin
    BY <1>5, HaltedIs
  <2>2. SetupReceived(d, r) = Accepted(z)
    BY <1>7 DEF SetupReceived, b, l, a
  <2> HIDE DEF z
  <2>3. CallSound(z)
    BY <1>5, <1>6, <2>1 DEF CallSound
  <2>4. Sound(Accepted(z), h)
    BY <1>2, <1>7, <2>1, <2>3, AcceptedSound DEF r
  <2> QED
    BY <2>2, <2>4 DEF r
<1>8. CASE ~r.ok
  <2>1. Within(b)
    BY <1>2, <1>5, <1>8 DEF Within
  <2>2. Sound(StallData(b), h)
    BY <1>2, <1>5, <1>6, <2>1, StallSound DEF r
  <2>3. SetupReceived(d, r) = StallData(b)
    BY <1>8 DEF SetupReceived, b, l, a
  <2> QED
    BY <2>2, <2>3 DEF r
<1> QED
  BY <1>7, <1>8

LEMMA DataReceivedSound ==
  ASSUME NEW d, NEW h, Sound(d, h), d.rxstp = FALSE, d.state = "DATA_OUT"
  PROVE  Sound(DataReceived(d), h)
<1> DEFINE n == AtMost(d.size - d.trans, d.outLen)
           t == d.trans + n
           c == [d EXCEPT !.trans = t, !.rxout = FALSE]
           z == [c EXCEPT !.size = c.trans]
           w == [c EXCEPT !.nakin = FALSE, !.nakinE = TRUE]
<1>1. /\ d \in Device /\ d.trans <= d.size /\ d.req.dir = "out" /\ d.size = d.req.pay
      /\ d.req.ok /\ d.req.len > 0 /\ Possible(d.req) /\ d.inE = FALSE
      /\ (d.req.call => d.call)
      /\ (d.status /\ d.req.call => d.calls = 1)
  BY DEF Sound, Good, DataSound, Within, CallSound, IntSound, Device
<1>2. t \in Nat /\ t <= d.size
  BY <1>1 DEF AtMost, Device
<1> HIDE DEF t, n
<1>3. /\ c \in Device
      /\ c.req = d.req /\ c.trans = t /\ c.size = d.size /\ c.call = d.call
      /\ c.calls = d.calls /\ c.last = d.last /\ c.status = d.status
      /\ c.rxstp = FALSE /\ c.rxout = FALSE /\ c.txin = d.txin /\ c.inE = FALSE
      /\ c.stall = d.stall /\ c.state = "DATA_OUT"
  BY <1>1, <1>2 DEF Device
<1> HIDE DEF c
<1>4. /\ z \in Device
      /\ z.req = d.req /\ z.trans = t /\ z.size = t /\ z.call = d.call
      /\ z.calls = d.calls /\ z.last = d.last /\ z.status = d.status
      /\ z.rxstp = FALSE /\ z.state = "DATA_OUT"
  BY <1>3 DEF Device
<1>5. /\ w \in Device
      /\ w.req = d.req /\ w.trans = t /\ w.size = d.size /\ w.call = d.call
      /\ w.calls = d.calls /\ w.last = d.last /\ w.status = d.status
      /\ w.rxstp = FALSE /\ w.rxout = FALSE /\ w.txin = d.txin /\ w.inE = FALSE
      /\ w.stall = d.stall /\ w.state = "DATA_OUT"
  BY <1>3 DEF Device
<1> HIDE DEF z, w
<1>6. Sound(SendZlpIn(z), h)
  <2>1. Within(z)
    BY <1>1, <1>2, <1>4 DEF Within
  <2>2. CallSound(z)
    BY <1>1, <1>4 DEF CallSound, Sound, Good
  <2>3. h.stage # "idle" => z.req = h.req
    BY <1>4 DEF Sound, InPhase
  <2> QED
    BY <1>1, <1>4, <2>1, <2>2, <2>3, SendZlpInSound DEF Sound
<1>7. Sound(StallData(c), h)
  <2>1. Within(c)
    BY <1>1, <1>2, <1>3 DEF Within
  <2>2. CallSound(c)
    BY <1>1, <1>3 DEF CallSound, Sound, Good
  <2>3. h.stage # "idle" => c.req = h.req
    BY <1>3 DEF Sound, InPhase
  <2> QED
    BY <1>1, <1>3, <2>1, <2>2, <2>3, StallSound DEF Sound
<1>8. Sound(w, h)
  <2>1. DataSound(w)
    BY <1>1, <1>2, <1>5 DEF DataSound, Within
  <2>2. CallSound(w)
    BY <1>1, <1>5 DEF CallSound, Sound, Good
  <2>3. IntSound(w) /\ InPhase(w, h)
    BY <1>5 DEF IntSound, Sound, InPhase
  <2> QED
    BY <1>5, <2>1, <2>2, <2>3 DEF Sound, Good
<1>9. DataReceived(d) \in {SendZlpIn(z), StallData(c), w}
  BY DEF DataReceived, z, w, c, t, n
<1> QED
  BY <1>6, <1>7, <1>8, <1>9

LEMMA OutReceivedSound ==
  ASSUME NEW d, NEW h, Sound(d, h), d.rxstp = FALSE, d.rxout, ~(d.txin /\ d.inE)
  PROVE  Sound(OutReceived(d), h)
<1>1. d \in Device /\ d.state \in States
  BY DEF Sound, Good, Device
<1>2. CASE d.state = "DATA_OUT"
  BY <1>2, DataReceivedSound DEF OutReceived
<1>3. CASE d.state \in {"DATA_IN", "WAIT_OUT_ZLP"}
  <2>1. h.stage = "idle"
    BY <1>3 DEF Sound, InPhase
  <2>2. OutReceived(d) = CtrlInit(EndOfRequest(d))
    BY <1>3 DEF OutReceived
  <2> QED
    BY <2>1, <2>2, EndSound DEF Sound
<1>4. CASE d.state \notin {"DATA_OUT", "DATA_IN", "WAIT_OUT_ZLP"}
  <2> DEFINE e == StallData(d)
             z == CtrlInit(e)
  <2>1. e \in Device /\ z \in Device
    BY <1>1, StallType, CtrlInitType
  <2>2. /\ e.req = d.req /\ e.trans = d.trans /\ e.calls = d.calls /\ e.last = d.last
        /\ e.status = d.status /\ e.rxstp = FALSE /\ e.txin = d.txin /\ e.stall = TRUE
    BY <1>1 DEF StallData, Device
  <2> HIDE DEF e
  <2>3. /\ z.req = d.req /\ z.trans = d.trans /\ z.calls = d.calls /\ z.last = d.last
        /\ z.status = d.status /\ z.rxstp = FALSE /\ z.txin = d.txin /\ z.stall = TRUE
        /\ z.state = "SETUP" /\ z.call = FALSE /\ z.inE = FALSE /\ z.rxout = FALSE
    BY <2>1, <2>2 DEF CtrlInit, Device
  <2> HIDE DEF z
  <2>4. DataSound(z)
    BY <2>3 DEF Sound, Good, DataSound, Within
  <2>5. CallSound(z)
    BY <2>3 DEF Sound, Good, CallSound, IntSound
  <2>6. IntSound(z) /\ InPhase(z, h)
    BY <2>3 DEF Sound, IntSound, InPhase
  <2>7. OutReceived(d) = z
    BY <1>4 DEF OutReceived, z, e
  <2> QED
    BY <2>1, <2>4, <2>5, <2>6, <2>7 DEF Sound, Good
<1> QED
  BY <1>2, <1>3, <1>4

LEMMA UnderflowSound ==
  ASSUME NEW d, NEW h, Sound(d, h), d.rxstp = FALSE
  PROVE  Sound(Underflow(d), h)
<1> DEFINE s == d.stall \/ d.state = "WAIT_OUT_ZLP"
           z == [d EXCEPT !.stall = s]
<1>1. d \in Device /\ d.stall \in BOOLEAN
  BY DEF Sound, Good, Device
<1>2. CASE d.state = "DATA_OUT"
  <2>1. /\ d.req.dir = "out" /\ Within(d) /\ CallSound(d)
        /\ (d.req.call => d.call) /\ (d.status /\ d.req.call => d.calls = 1)
        /\ (h.stage # "idle" => d.req = h.req) /\ HostSound(h)
    BY <1>2 DEF Sound, Good, DataSound, CallSound, InPhase
  <2> QED
    BY <1>1, <1>2, <2>1, SendZlpInSound DEF Underflow
<1>3. Sound(z, h)
  <2>1. s \in BOOLEAN /\ (d.stall => s)
    BY <1>1
  <2> HIDE DEF s
  <2>2. z \in Device
    BY <1>1, <2>1 DEF Device
  <2>3. DataSound(z)
    BY <1>1 DEF Sound, Good, DataSound, Within, Device
  <2>4. CallSound(z)
    BY <1>1 DEF Sound, Good, CallSound, Device
  <2>5. IntSound(z) /\ InPhase(z, h)
    BY <1>1, <2>1 DEF Sound, IntSound, InPhase, Device
  <2> QED
    BY <2>2, <2>3, <2>4, <2>5 DEF Sound, Good
<1>4. CASE d.state # "DATA_OUT"
  BY <1>3, <1>4 DEF Underflow
<1> QED
  BY <1>2, <1>4

LEMMA OverflowSound ==
  ASSUME NEW d, NEW h, Sound(d, h)
  PROVE  Sound(Overflow(d), h)
<1> DEFINE s == d.stall \/ d.state = "WAIT_IN_ZLP"
           z == [d EXCEPT !.stall = s]
<1>1. d \in Device /\ d.stall \in BOOLEAN
  BY DEF Sound, Good, Device
<1>2. Sound(z, h)
  <2>1. s \in BOOLEAN /\ (d.stall => s)
    BY <1>1
  <2> HIDE DEF s
  <2>2. z \in Device
    BY <1>1, <2>1 DEF Device
  <2>3. DataSound(z)
    BY <1>1 DEF Sound, Good, DataSound, Within, Device
  <2>4. CallSound(z)
    BY <1>1 DEF Sound, Good, CallSound, Device
  <2>5. IntSound(z) /\ InPhase(z, h)
    BY <1>1, <2>1 DEF Sound, IntSound, InPhase, Device
  <2> QED
    BY <2>2, <2>3, <2>4, <2>5 DEF Sound, Good
<1> QED
  BY <1>2 DEF Overflow

\* The NAK flags and the interrupts on NAK touch nothing of this.
LEMMA NakSound ==
  ASSUME NEW d, NEW h, Sound(d, h), NEW i \in BOOLEAN, NEW o \in BOOLEAN
  PROVE  /\ Sound([d EXCEPT !.nakin = i], h)
         /\ Sound([d EXCEPT !.nakout = o], h)
         /\ Sound(Quiet(d), h)
<1> DEFINE Alike(e) == /\ e \in Device
                       /\ e.state = d.state /\ e.req = d.req /\ e.size = d.size
                       /\ e.trans = d.trans /\ e.call = d.call /\ e.calls = d.calls
                       /\ e.last = d.last /\ e.status = d.status /\ e.rxstp = d.rxstp
                       /\ e.rxout = d.rxout /\ e.txin = d.txin /\ e.inE = d.inE
                       /\ e.stall = d.stall
<1>1. d \in Device
  BY DEF Sound, Good
<1>2. ASSUME NEW e, Alike(e)
      PROVE  Sound(e, h)
  <2>1. DataSound(e)
    BY <1>2 DEF Sound, Good, DataSound, Within
  <2>2. CallSound(e)
    BY <1>2 DEF Sound, Good, CallSound
  <2>3. IntSound(e) /\ InPhase(e, h)
    BY <1>2 DEF Sound, IntSound, InPhase
  <2> QED
    BY <1>2, <2>1, <2>2, <2>3 DEF Sound, Good
<1>3. Alike([d EXCEPT !.nakin = i]) /\ Alike([d EXCEPT !.nakout = o]) /\ Alike(Quiet(d))
  BY <1>1 DEF Device, Quiet
<1> QED
  BY <1>2, <1>3

(***************************************************************************)
(* The invariant.                                                          *)
(***************************************************************************)

LEMMA InitSound == Init => IInv
<1> SUFFICES ASSUME Init PROVE IInv
  OBVIOUS
<1>1. NoRequest \in Request /\ Possible(NoRequest)
  BY DEF NoRequest, Request, Possible, Halts
<1>2. NoPacket \in [req : Request, off : Nat, n : 0 .. CtrlSize]
  BY <1>1, CtrlEpAssumption DEF NoPacket
<1>3. dev \in Device
  BY <1>1, <1>2, CtrlEpAssumption DEF Init, Device, States
<1>4. DataSound(dev) /\ CallSound(dev) /\ IntSound(dev) /\ InPhase(dev, host)
  BY <1>1 DEF Init, DataSound, Within, CallSound, IntSound, InPhase, NoRequest
<1>5. HostSound(host)
  BY <1>1 DEF Init, HostSound, Stages, NoRequest
<1> QED
  BY <1>3, <1>4, <1>5 DEF IInv, Sound, Good

LEMMA InterruptSound == IInv /\ Interrupt => IInv'
<1> SUFFICES ASSUME Sound(dev, host), Interrupt PROVE Sound(dev', host')
  BY DEF IInv
<1> DEFINE q == Quiet(dev)
<1>1. /\ dev \in Device /\ Sound(q, host)
      /\ q.state = dev.state /\ q.rxstp = dev.rxstp /\ q.rxout = dev.rxout
      /\ q.txin = dev.txin /\ q.inE = dev.inE
      /\ dev.rxstp \in BOOLEAN
  <2>1. dev \in Device
    BY DEF Sound, Good
  <2> QED
    BY <2>1, NakSound DEF Quiet, Device
<1> HIDE DEF q
<1>2. CASE OnSetup
  <2>1. dev.rxstp /\ dev' = SetupReceived(q, host.req) /\ host' = host
    BY <1>2 DEF OnSetup, Handle, Event, q
  <2> QED
    BY <1>1, <2>1, SetupReceivedSound
<1>3. CASE OnInSent
  <2>1. ~dev.rxstp /\ dev.txin /\ dev.inE /\ dev' = InSent(q) /\ host' = host
    BY <1>3 DEF OnInSent, Handle, Event, q
  <2>2. q.state \in {"DATA_IN", "WAIT_IN_ZLP"}
    BY <1>1, <2>1 DEF Sound, IntSound
  <2> QED
    BY <1>1, <2>1, <2>2, InSentSound DEF Sound
<1>4. CASE OnOutReceived
  <2>1. ~dev.rxstp /\ ~(dev.txin /\ dev.inE) /\ dev.rxout
        /\ dev' = OutReceived(q) /\ host' = host
    BY <1>4 DEF OnOutReceived, Handle, Event, q
  <2> QED
    BY <1>1, <2>1, OutReceivedSound
<1>5. CASE OnNakOut
  <2>1. dev' = Overflow([q EXCEPT !.nakout = FALSE]) /\ host' = host
    BY <1>5 DEF OnNakOut, Handle, q
  <2> QED
    BY <1>1, <2>1, NakSound, OverflowSound
<1>6. CASE OnNakIn
  <2>1. ~dev.rxstp /\ dev' = Underflow([q EXCEPT !.nakin = FALSE]) /\ host' = host
    BY <1>6 DEF OnNakIn, Handle, Event, q
  <2>2. [q EXCEPT !.nakin = FALSE].rxstp = FALSE
    BY <1>1, <2>1 DEF Sound, Good, Device
  <2> QED
    BY <1>1, <2>1, <2>2, NakSound, UnderflowSound
<1> QED
  BY <1>2, <1>3, <1>4, <1>5, <1>6 DEF Interrupt

LEMMA SetupSound ==
  ASSUME NEW r \in Requests, IInv, Setup(r)
  PROVE  IInv'
<1>1. r \in Request /\ Possible(r) /\ NoRequest \in Request
  BY CtrlEpAssumption DEF NoRequest, Request, Halts
<1>2. NoPacket \in [req : Request, off : Nat, n : 0 .. CtrlSize]
  BY <1>1, CtrlEpAssumption DEF NoPacket
<1>3. /\ dev \in Device /\ dev' \in Device
      /\ dev'.req = dev.req /\ dev'.state = dev.state /\ dev'.size = dev.size
      /\ dev'.trans = dev.trans /\ dev'.call = dev.call /\ dev'.calls = dev.calls
      /\ dev'.last = dev.last /\ dev'.status = dev.status /\ dev'.rxstp = TRUE
      /\ dev'.rxout = dev.rxout /\ dev'.txin = TRUE /\ dev'.inE = dev.inE
  BY <1>2 DEF IInv, Sound, Good, Setup, Device
<1>4. DataSound(dev') /\ CallSound(dev') /\ IntSound(dev') /\ InPhase(dev', host')
  BY <1>3 DEF IInv, Sound, Good, DataSound, Within, CallSound, IntSound, InPhase
<1>5. HostSound(host')
  <2>1. /\ host'.stage = FirstStage(r) /\ host'.req = r /\ host'.n = 0
        /\ host' \in [stage : Stages, req : Request, n : Nat, orderly : BOOLEAN]
    BY <1>1 DEF Setup, FirstStage, Stages, Request
  <2> QED
    BY <1>1, <2>1 DEF HostSound, FirstStage, Request
<1> QED
  BY <1>3, <1>4, <1>5 DEF IInv, Sound, Good

\* Steps of the host that leave the device alone.
LEMMA StageSound == IInv /\ (Stalled \/ LeaveEarly \/ GoOn) => IInv'
<1> SUFFICES ASSUME IInv, Stalled \/ LeaveEarly \/ GoOn PROVE IInv'
  OBVIOUS
<1>1. /\ dev' = dev /\ host'.req = host.req
      /\ host'.stage # "idle" => host.stage # "idle"
  BY DEF IInv, Sound, HostSound, Stalled, LeaveEarly, GoOn
<1>2. InPhase(dev', host')
  BY <1>1 DEF IInv, Sound, InPhase
<1>3. HostSound(host')
  BY DEF IInv, Sound, HostSound, Stalled, LeaveEarly, GoOn, Stages, Request
<1> QED
  BY <1>1, <1>2, <1>3 DEF IInv, Sound

LEMMA NakHostSound == IInv /\ (NakIn \/ NakOut) => IInv'
<1>1. ASSUME IInv, NakIn
      PROVE  IInv'
  <2>1. Sound([dev EXCEPT !.nakin = TRUE], host)
    BY <1>1, NakSound DEF IInv
  <2> QED
    BY <1>1, <2>1 DEF IInv, NakIn
<1>2. ASSUME IInv, NakOut
      PROVE  IInv'
  <2>1. Sound([dev EXCEPT !.nakout = TRUE], host)
    BY <1>2, NakSound DEF IInv
  <2> QED
    BY <1>2, <2>1 DEF IInv, NakOut
<1> QED
  BY <1>1, <1>2

LEMMA TakeInSound == IInv /\ TakeIn => IInv'
<1> SUFFICES ASSUME IInv, TakeIn PROVE IInv'
  OBVIOUS
<1>1. NoPacket \in [req : Request, off : Nat, n : 0 .. CtrlSize]
  BY CtrlEpAssumption DEF NoPacket, NoRequest, Request, Halts
<1>2. /\ dev \in Device /\ dev.req = host.req /\ host.stage # "idle" /\ dev.rxstp = FALSE
      /\ dev.state \in {"DATA_IN", "WAIT_IN_ZLP"}
  BY DEF IInv, Sound, Good, InPhase, TakeIn, Device
<1>3. /\ dev' \in Device
      /\ dev'.req = dev.req /\ dev'.state = dev.state /\ dev'.size = dev.size
      /\ dev'.trans = dev.trans /\ dev'.call = dev.call /\ dev'.calls = dev.calls
      /\ dev'.last = dev.last /\ dev'.rxstp = FALSE
      /\ dev'.rxout = dev.rxout /\ dev'.txin = TRUE /\ dev'.inE = dev.inE
      /\ dev'.status = IF host.stage = "in" THEN dev.status ELSE TRUE
      /\ host.stage \in {"in", "statusIn"}
  <2>1. CASE host.stage = "in"
    <3>1. dev' = [dev EXCEPT !.txin = TRUE, !.pkt = NoPacket]
      BY <2>1 DEF TakeIn
    <3> QED
      BY <1>1, <1>2, <2>1, <3>1 DEF Device
  <2>2. CASE host.stage = "statusIn"
    <3>1. dev' = [dev EXCEPT !.txin = TRUE, !.pkt = NoPacket, !.status = TRUE]
      BY <2>2 DEF TakeIn
    <3> QED
      BY <1>1, <1>2, <2>2, <3>1 DEF Device
  <2> QED
    BY <2>1, <2>2 DEF TakeIn
<1>4. DataSound(dev') /\ IntSound(dev')
  BY <1>3 DEF IInv, Sound, Good, DataSound, Within, IntSound
<1>5. CallSound(dev')
  BY <1>2, <1>3 DEF IInv, Sound, Good, CallSound, DataSound, Within, Possible, Device, Request
<1>6. HostSound(host') /\ host'.req = host.req
      /\ (host.stage = "statusIn" => host'.stage = "idle")
  <2> DEFINE got == AtMost(host.req.len, host.n + dev.pkt.n)
  <2>1. got \in Nat /\ got <= host.req.len
    BY <1>2 DEF IInv, Sound, HostSound, AtMost, Request, Device
  <2> HIDE DEF got
  <2>2. host' \in {[host EXCEPT !.n = got, !.stage = "statusOut"], [host EXCEPT !.n = got],
                   [host EXCEPT !.stage = "idle"]}
        /\ (host.stage = "statusIn" => host' = [host EXCEPT !.stage = "idle"])
        /\ host.stage \in {"in", "statusIn"}
    BY DEF TakeIn, got, IInv, Sound, HostSound
  <2> QED
    BY <2>1, <2>2 DEF IInv, Sound, HostSound, Stages
<1>7. InPhase(dev', host')
  <2>1. host.stage = "statusIn" \/ dev.state = "DATA_IN"
    BY <1>2 DEF IInv, Sound, Good, DataSound, HostSound, TakeIn
  <2> QED
    BY <1>2, <1>3, <1>6, <2>1 DEF IInv, Sound, InPhase
<1> QED
  BY <1>3, <1>4, <1>5, <1>6, <1>7 DEF IInv, Sound, Good

LEMMA SendSound ==
  ASSUME IInv, (\E n \in 0 .. CtrlSize : SendOut(n)) \/ SendOut(Due) \/ SendStatus
  PROVE  IInv'
<1>1. Due \in 0 .. CtrlSize
  BY CtrlEpAssumption DEF IInv, Sound, HostSound, Due, AtMost, Request
<1>2. /\ dev \in Device /\ dev.rxstp = FALSE /\ dev.req = host.req
      /\ dev.state # "SETUP" /\ host.stage \in {"out", "statusOut"}
  BY DEF IInv, Sound, Good, InPhase, SendOut, SendStatus, Room, Device
<1>3. CASE SendStatus
  <2>1. /\ dev' \in Device
        /\ dev'.req = dev.req /\ dev'.state = dev.state /\ dev'.size = dev.size
        /\ dev'.trans = dev.trans /\ dev'.call = dev.call /\ dev'.calls = dev.calls
        /\ dev'.last = dev.last /\ dev'.rxstp = FALSE
        /\ dev'.txin = dev.txin /\ dev'.inE = dev.inE
    <3>1. 0 \in 0 .. CtrlSize
      BY CtrlEpAssumption
    <3> QED
      BY <1>2, <1>3, <3>1 DEF SendStatus, Device
  <2>2. DataSound(dev') /\ IntSound(dev')
    BY <2>1 DEF IInv, Sound, Good, DataSound, Within, IntSound
  <2>3. dev.req.call = FALSE
    BY <1>2, <1>3 DEF SendStatus, IInv, Sound, Good, HostSound, DataSound, Within, Possible,
                      Device, Request
  <2>4. CallSound(dev')
    BY <2>1, <2>3 DEF IInv, Sound, Good, CallSound
  <2>5. HostSound(host') /\ host'.stage = "idle"
    BY <1>3 DEF SendStatus, IInv, Sound, HostSound, Stages
  <2>6. InPhase(dev', host')
    BY <1>2, <2>1, <2>5 DEF InPhase
  <2> QED
    BY <2>1, <2>2, <2>4, <2>5, <2>6 DEF IInv, Sound, Good
<1>4. ASSUME NEW n \in 0 .. CtrlSize, SendOut(n)
      PROVE  IInv'
  <2>1. /\ dev' \in Device
        /\ dev'.req = dev.req /\ dev'.state = dev.state /\ dev'.size = dev.size
        /\ dev'.trans = dev.trans /\ dev'.call = dev.call /\ dev'.calls = dev.calls
        /\ dev'.last = dev.last /\ dev'.rxstp = FALSE /\ dev'.status = dev.status
        /\ dev'.txin = dev.txin /\ dev'.inE = dev.inE /\ dev'.stall = dev.stall
    BY <1>2, <1>4 DEF SendOut, Device
  <2>2. DataSound(dev') /\ IntSound(dev') /\ CallSound(dev')
    BY <2>1 DEF IInv, Sound, Good, DataSound, Within, IntSound, CallSound
  <2>3. HostSound(host') /\ host'.req = host.req
    <3> DEFINE sent == AtMost(host.req.len, host.n + n)
               over == n < Due \/ sent = host.req.len
               o == host.orderly /\ n = Due
    <3>1. sent \in Nat /\ sent <= host.req.len
      BY <1>4 DEF IInv, Sound, HostSound, AtMost, Request
    <3>2. o \in BOOLEAN /\ host.stage = "out"
          /\ host' = [host EXCEPT !.n = sent, !.orderly = o,
                                  !.stage = IF over THEN "statusIn" ELSE @]
      BY <1>4 DEF SendOut, IInv, Sound, HostSound
    <3> HIDE DEF sent, o, over
    <3> QED
      BY <3>1, <3>2 DEF IInv, Sound, HostSound, Stages
  <2>4. InPhase(dev', host')
    <3>1. dev.state \notin {"DATA_IN", "WAIT_OUT_ZLP"}
      BY <1>2, <1>4 DEF SendOut, IInv, Sound, Good, DataSound, HostSound
    <3> QED
      BY <1>2, <2>1, <2>3, <3>1 DEF IInv, Sound, InPhase
  <2> QED
    BY <2>1, <2>2, <2>3, <2>4 DEF IInv, Sound, Good
<1> QED
  BY <1>1, <1>3, <1>4

LEMMA BusResetSound == IInv /\ BusReset => IInv'
<1> SUFFICES ASSUME IInv, BusReset PROVE IInv'
  OBVIOUS
<1> DEFINE c == CtrlInit(Quiet(dev))
<1>1. NoRequest \in Request /\ Possible(NoRequest)
  BY DEF NoRequest, Request, Possible, Halts
<1>2. NoPacket \in [req : Request, off : Nat, n : 0 .. CtrlSize]
  BY <1>1, CtrlEpAssumption DEF NoPacket
<1>3. c \in Device /\ c.state = "SETUP" /\ c.inE = FALSE /\ c.rxout = FALSE
      /\ c.call = FALSE /\ c.last = dev.last
  <2>1. Quiet(dev) \in Device /\ Quiet(dev).last = dev.last
    BY DEF Quiet, IInv, Sound, Good, Device
  <2> QED
    BY <2>1, CtrlInitType DEF CtrlInit, Device
<1>4. dev' = [c EXCEPT !.rxstp = FALSE, !.txin = TRUE, !.pkt = NoPacket,
                       !.nakin = FALSE, !.nakout = FALSE, !.stall = FALSE,
                       !.intE = TRUE, !.req = NoRequest, !.calls = 0, !.status = FALSE]
  BY DEF BusReset
<1> HIDE DEF c
<1>5. /\ dev' \in Device
      /\ dev'.req = NoRequest /\ dev'.state = "SETUP" /\ dev'.call = FALSE
      /\ dev'.calls = 0 /\ dev'.last = dev.last /\ dev'.status = FALSE
      /\ dev'.rxstp = FALSE /\ dev'.rxout = FALSE /\ dev'.inE = FALSE
  BY <1>1, <1>2, <1>3, <1>4 DEF Device
<1>6. DataSound(dev') /\ IntSound(dev') /\ CallSound(dev')
  BY <1>1, <1>5 DEF IInv, Sound, Good, DataSound, Within, IntSound, CallSound, NoRequest
<1>7. HostSound(host') /\ host'.stage = "idle"
  BY <1>1 DEF BusReset, HostSound, Stages, NoRequest
<1>8. InPhase(dev', host')
  BY <1>5, <1>7 DEF InPhase
<1> QED
  BY <1>5, <1>6, <1>7, <1>8 DEF IInv, Sound, Good

LEMMA NextSound == IInv /\ [Next]_vars => IInv'
<1> SUFFICES ASSUME IInv, [Next]_vars PROVE IInv'
  OBVIOUS
<1>1. CASE Interrupt
  BY <1>1, InterruptSound
<1>2. CASE \E r \in Requests : Setup(r)
  BY <1>2, SetupSound
<1>3. CASE Stalled \/ LeaveEarly \/ GoOn
  BY <1>3, StageSound
<1>4. CASE NakIn \/ NakOut
  BY <1>4, NakHostSound
<1>5. CASE TakeIn
  BY <1>5, TakeInSound
<1>6. CASE (\E n \in 0 .. CtrlSize : SendOut(n)) \/ SendOut(Due) \/ SendStatus
  BY <1>6, SendSound
<1>7. CASE BusReset
  BY <1>7, BusResetSound
<1>8. CASE UNCHANGED vars
  BY <1>8 DEF vars, IInv
<1> QED
  BY <1>1, <1>2, <1>3, <1>4, <1>5, <1>6, <1>7, <1>8 DEF Next, Token

\* The inductive invariant: request, data, callback and interrupt of the driver
\* agree with each other and with the stage the host is in.
THEOREM Invariance == Spec => []IInv
  BY InitSound, NextSound, PTL DEF Spec

\* The state of the control endpoint keeps its type, for every packet size and
\* whatever the host does; no packet is longer than the endpoint.
THEOREM TypeCorrect == Spec => []TypeOK
<1>1. IInv => TypeOK
  BY DEF IInv, Sound, Good, HostSound, TypeOK, HostTyped
<1> QED
  BY <1>1, Invariance, PTL

\* The driver never leaves the payload of a request.
THEOREM PayloadKept == Spec => []StaysInPayload
<1>1. IInv => StaysInPayload
  BY DEF IInv, Sound, Good, DataSound, Within, StaysInPayload
<1> QED
  BY <1>1, Invariance, PTL

\* The assertion in udd_ctrl_in_sent() holds.
THEOREM AssertionHolds == Spec => []InSentExpected
<1>1. IInv => InSentExpected
  BY DEF IInv, Sound, IntSound, InSentExpected, Event
<1> QED
  BY <1>1, Invariance, PTL

\* Both: the handlers stay in their buffers and pass their assertion.
THEOREM HandlersAlwaysSafe == Spec => []HandlersSafe
<1> QED
  BY PayloadKept, AssertionHolds, PTL DEF HandlersSafe

\* The callback of a request runs once if its status stage took place, and never
\* twice, also when the next SETUP comes before the interrupt saw the status.
THEOREM CallbackRunsOnce == Spec => []CallbackOnce
<1>1. IInv => CallbackOnce
  BY DEF IInv, Sound, Good, CallSound, CallbackOnce
<1> QED
  BY <1>1, Invariance, PTL

(***************************************************************************)
(* An orderly host.                                                        *)
(***************************************************************************)

\* The piece of the answer to r that begins after n bytes.
PieceOf(r, n) == [req |-> r, off |-> n, n |-> AtMost(r.pay - n, CtrlSize)]

\* The device serves an accepted request to read.  Either a piece waits to be
\* sent, or one was taken and the next is due, or the last one was taken, or the
\* device waits for the status stage.
PieceWaits(d, h) ==
  /\ h.stage = "in" /\ d.state = "DATA_IN" /\ d.inE /\ ~d.txin
  /\ h.n <= d.size
  /\ d.pkt = PieceOf(h.req, h.n)
  /\ d.trans = h.n + d.pkt.n
  /\ d.short = (d.pkt.n < CtrlSize)
  /\ d.prev = 0 \/ d.pkt.n = 0

PieceTaken(d, h) ==
  /\ h.stage = "in" /\ d.state = "DATA_IN" /\ d.inE /\ d.txin
  /\ h.n = d.trans /\ h.n <= d.size /\ h.n < h.req.len
  /\ d.prev = 0 /\ ~d.short

LastTaken(d, h) ==
  /\ h.stage = "statusOut" /\ d.state = "DATA_IN" /\ d.inE /\ d.txin
  /\ h.n = d.trans /\ h.n = d.size
  /\ d.short \/ (d.prev = 0 /\ d.trans = h.req.len)

AwaitsStatus(d, h) ==
  /\ h.stage = "statusOut" /\ d.state = "WAIT_OUT_ZLP"
  /\ h.n = d.size /\ ~d.nakin

Answering(d, h) ==
  /\ ~d.stall /\ d.size = h.req.pay
  /\ PieceWaits(d, h) \/ PieceTaken(d, h) \/ LastTaken(d, h) \/ AwaitsStatus(d, h)

\* The device serves an accepted request to write whose data fit.  Either it
\* waits for data or has a full packet of them, or it has the last packet, or
\* its empty packet waits to be sent.
WantsData(d, h) ==
  /\ h.stage = "out" /\ d.state = "DATA_OUT" /\ ~d.nakin
  /\ d.size = h.req.len /\ d.prev = 0 /\ h.n < h.req.len
  /\ IF d.rxout THEN d.outLen = CtrlSize /\ h.n = d.trans + CtrlSize
                ELSE h.n = d.trans

HasLast(d, h) ==
  /\ h.stage = "statusIn" /\ d.state = "DATA_OUT" /\ d.rxout
  /\ d.size = h.req.len /\ d.prev = 0 /\ d.trans + d.outLen = h.req.len

StatusWaits(d, h) ==
  /\ h.stage = "statusIn" /\ d.state = "WAIT_IN_ZLP" /\ ~d.nakout /\ ~d.rxout

\* Only the request that halts endpoint 0 is accepted and stalled.
NoStall(d, h) == d.stall => h.req.halt = "stall"

Taking(d, h) == NoStall(d, h) /\ (WantsData(d, h) \/ HasLast(d, h) \/ StatusWaits(d, h))

\* Where device and host are in a request the host goes through in order.
Serves(d, h) ==
  IF d.rxstp THEN ~d.stall /\ h.n = 0 /\ h.stage = FirstStage(h.req)
  ELSE /\ ~h.req.ok => d.txin /\ h.stage # "statusOut"
       /\ h.req.ok /\ h.req.dir = "in" => Answering(d, h)
       /\ h.req.ok /\ h.req.dir = "out" /\ h.req.pay = h.req.len => Taking(d, h)

Served(d, h) == h.orderly /\ h.stage # "idle" => Serves(d, h)

\* A packet sent during a request to write is empty.
ZlpSound(d) == d.req.dir = "out" /\ ~d.txin => d.pkt.n = 0

Orderly(d, h) == ZlpSound(d) /\ Served(d, h)

OInv == IInv /\ Orderly(dev, host)

\* The next piece is sent from where the answer has come to.
LEMMA SendPieceServes ==
  ASSUME NEW d, NEW h, d \in Device, HostSound(h),
         h.req.ok, h.req.dir = "in", d.req = h.req, d.size = h.req.pay, ~d.stall,
         d.rxstp = FALSE, d.rxout = FALSE, h.stage = "in", d.state = "DATA_IN",
         h.n = d.trans, h.n <= d.size, d.prev = 0 \/ d.trans = d.size
  PROVE  Orderly(SendPiece(d), h)
<1> DEFINE n == AtMost(d.size - d.trans, CtrlSize)
           s == n < CtrlSize
           p == [req |-> d.req, off |-> d.trans, n |-> n]
           e == SendPiece(d)
<1>1. n \in Nat /\ (d.trans = d.size => n = 0)
  BY CtrlEpAssumption DEF AtMost, Device
<1>2. p = PieceOf(h.req, h.n) /\ p.n = n
  BY DEF PieceOf
<1>3. s \in BOOLEAN
  OBVIOUS
<1>4. /\ e.req = d.req /\ e.size = d.size /\ e.rxstp = FALSE /\ e.stall = d.stall
      /\ e.state = "DATA_IN" /\ e.trans = d.trans + n /\ e.prev = d.prev
      /\ e.inE = TRUE /\ e.txin = FALSE /\ e.pkt = p /\ e.short = s
  BY DEF SendPiece, Device
<1> HIDE DEF e, p
<1>5. PieceWaits(e, h)
  BY <1>1, <1>2, <1>4 DEF PieceWaits
<1> HIDE DEF s
<1>6. Serves(e, h)
  BY <1>4, <1>5 DEF Serves, Answering
<1> QED
  BY <1>4, <1>6 DEF Orderly, Served, ZlpSound, e

LEMMA SendZlpInIs ==
  ASSUME NEW d \in Device
  PROVE  /\ SendZlpIn(d).req = d.req /\ SendZlpIn(d).rxstp = d.rxstp
         /\ SendZlpIn(d).rxout = d.rxout /\ SendZlpIn(d).stall = d.stall
         /\ SendZlpIn(d).state = "WAIT_IN_ZLP" /\ SendZlpIn(d).txin = FALSE
         /\ SendZlpIn(d).pkt.n = 0 /\ SendZlpIn(d).nakout = FALSE
  BY DEF SendZlpIn, Device

LEMMA InSentServes ==
  ASSUME NEW d, NEW h, Sound(d, h), Orderly(d, h), d.rxstp = FALSE, d.txin, d.inE,
         d.state \in {"DATA_IN", "WAIT_IN_ZLP"}
  PROVE  Orderly(InSent(d), h)
<1> DEFINE c == [d EXCEPT !.inE = FALSE]
           p == c.prev + c.trans
           e == [c EXCEPT !.prev = p]
<1>1. /\ d \in Device /\ HostSound(h)
  BY DEF Sound, Good
<1>2. /\ c \in Device /\ c.req = d.req /\ c.size = d.size /\ c.trans = d.trans
      /\ c.prev = d.prev /\ c.short = d.short /\ c.state = d.state
      /\ c.rxstp = FALSE /\ c.rxout = d.rxout /\ c.stall = d.stall /\ c.txin = TRUE
      /\ c.call = d.call
  BY <1>1 DEF Device
<1> HIDE DEF c
<1>3. p \in Nat
  BY <1>2 DEF Device
<1>4. /\ e \in Device /\ e.req = d.req /\ e.size = d.size /\ e.trans = d.trans
      /\ e.prev = p /\ e.short = d.short /\ e.state = d.state
      /\ e.rxstp = FALSE /\ e.rxout = d.rxout /\ e.stall = d.stall /\ e.txin = TRUE
  <2> HIDE DEF p
  <2> QED
    BY <1>2, <1>3 DEF Device
<1> HIDE DEF e
<1>5. CASE d.state = "WAIT_IN_ZLP"
  <2> DEFINE f == EndOfRequest(c)
             z == CtrlInit(f)
  <2>1. h.stage = "idle"
    BY <1>5 DEF Sound, InPhase
  <2>2. InSent(d) = z
    BY <1>2, <1>5 DEF InSent, c
  <2>3. f \in Device /\ f.txin = TRUE
    BY <1>2, EndType DEF EndOfRequest, Device
  <2> HIDE DEF f
  <2>4. z.txin = TRUE
    BY <2>3 DEF CtrlInit, Device
  <2> QED
    BY <2>1, <2>2, <2>4 DEF Orderly, Served, ZlpSound
<1>6. CASE d.state = "DATA_IN"
  <2>1. /\ d.req.dir = "in" /\ d.req.ok /\ d.trans <= d.size /\ d.size = d.req.pay
        /\ (h.stage # "idle" => d.req = h.req /\ d.rxout = FALSE)
    BY <1>1, <1>6 DEF Sound, Good, DataSound, InPhase, Device
  <2>2. InSent(d) = IF c.size # c.trans THEN SendPiece(c)
                    ELSE IF c.req.len = e.prev \/ c.short THEN SendZlpOut(e)
                    ELSE SendPiece(e)
    <3>1. c.state # "WAIT_IN_ZLP"
      BY <1>2, <1>6
    <3> QED
      BY <3>1 DEF InSent, c, e, p
  <2>3. ZlpSound(InSent(d))
    <3>1. InSent(d) \in {SendPiece(c), SendPiece(e), SendZlpOut(e)}
      BY <2>2
    <3>2. SendPiece(c).req = d.req
      BY <1>2 DEF SendPiece, Device
    <3>3. SendPiece(e).req = d.req
      BY <1>4 DEF SendPiece, Device
    <3>4. SendZlpOut(e).req = d.req
      BY <1>4 DEF SendZlpOut, Device
    <3> QED
      BY <2>1, <3>1, <3>2, <3>3, <3>4 DEF ZlpSound
  <2>4. ASSUME h.orderly, h.stage # "idle"
        PROVE  Orderly(InSent(d), h)
    <3>1. Answering(d, h) /\ d.req = h.req /\ d.rxout = FALSE
      BY <2>1, <2>4 DEF Orderly, Served, Serves
    <3>2. PieceTaken(d, h) \/ LastTaken(d, h)
      BY <1>6, <3>1 DEF Answering, PieceWaits, AwaitsStatus
    <3>3. CASE PieceTaken(d, h) /\ d.size # d.trans
      <4>1. Orderly(SendPiece(c), h)
        BY <1>1, <1>2, <1>6, <2>1, <3>1, <3>3, SendPieceServes DEF Answering, PieceTaken
      <4> QED
        BY <1>2, <2>2, <3>3, <4>1
    <3>4. CASE PieceTaken(d, h) /\ d.size = d.trans
      <4>1. Orderly(SendPiece(e), h)
        BY <1>1, <1>4, <1>6, <2>1, <3>1, <3>4, SendPieceServes DEF Answering, PieceTaken
      <4>2. c.req.len # e.prev /\ ~c.short
        BY <1>1, <1>2, <1>4, <2>1, <3>1, <3>4 DEF PieceTaken, HostSound, Request, Device
      <4> QED
        BY <1>2, <2>2, <3>4, <4>1, <4>2
    <3>5. CASE LastTaken(d, h)
      <4>1. c.req.len = e.prev \/ c.short
        BY <1>1, <1>2, <1>4, <2>1, <3>1, <3>5 DEF LastTaken, HostSound, Request, Device
      <4>2. InSent(d) = SendZlpOut(e)
        BY <1>2, <2>2, <3>5, <4>1 DEF LastTaken
      <4> DEFINE z == SendZlpOut(e)
      <4>3. /\ z.rxstp = FALSE /\ z.stall = d.stall /\ z.size = d.size
            /\ z.state = "WAIT_OUT_ZLP" /\ z.nakin = FALSE
        BY <1>4 DEF SendZlpOut, Device
      <4> HIDE DEF z
      <4>4. AwaitsStatus(z, h)
        BY <3>5, <4>3 DEF LastTaken, AwaitsStatus
      <4>5. Serves(z, h)
        BY <2>1, <3>1, <4>3, <4>4 DEF Serves, Answering
      <4> QED
        BY <2>3, <4>2, <4>5 DEF Orderly, Served, z
    <3> QED
      BY <3>2, <3>3, <3>4, <3>5
  <2> QED
    BY <2>3, <2>4 DEF Orderly, Served
<1> QED
  BY <1>5, <1>6

LEMMA AcceptedServes ==
  ASSUME NEW d \in Device, NEW h, HostSound(h),
         d.rxstp = FALSE, d.rxout = FALSE, d.txin,
         d.req = h.req, d.req.ok, d.size = d.req.pay,
         h.orderly /\ h.stage # "idle" =>
           NoStall(d, h) /\ h.n = 0 /\ h.stage = FirstStage(h.req)
  PROVE  Orderly(Accepted(d), h)
<1> DEFINE c == [d EXCEPT !.prev = 0, !.trans = 0]
           i == [c EXCEPT !.state = "DATA_IN"]
           k == [i EXCEPT !.inE = FALSE]
           o == [c EXCEPT !.state = "DATA_OUT", !.nakin = FALSE, !.nakinE = TRUE]
<1>1. d.req \in Request /\ Possible(d.req)
  BY DEF HostSound
<1>2. /\ c \in Device /\ c.req = d.req /\ c.trans = 0 /\ c.prev = 0 /\ c.size = d.size
      /\ c.rxstp = FALSE /\ c.rxout = FALSE /\ c.txin = TRUE /\ c.stall = d.stall
  BY DEF Device
<1> HIDE DEF c
<1>3. CASE d.req.dir = "in"
  <2>1. /\ i \in Device /\ i.req = d.req /\ i.trans = 0 /\ i.prev = 0 /\ i.size = d.size
        /\ i.rxstp = FALSE /\ i.rxout = FALSE /\ i.stall = d.stall /\ i.state = "DATA_IN"
    BY <1>2 DEF Device, States
  <2> HIDE DEF i
  <2>2. /\ k \in Device /\ k.req = d.req /\ k.trans = 0 /\ k.prev = 0 /\ k.size = d.size
        /\ k.rxstp = FALSE /\ k.rxout = FALSE /\ k.stall = d.stall /\ k.state = "DATA_IN"
    BY <2>1 DEF Device
  <2> HIDE DEF k
  <2>3. d.size # 0 /\ h.req.len # 0
    BY <1>1, <1>3 DEF Possible, Request
  <2>4. Accepted(d) = InSent(i)
    BY <1>3 DEF Accepted, i, c
  <2>5. InSent(i) = SendPiece(k)
    BY <2>2, <2>3 DEF InSent, k
  <2>6. SendPiece(k).req.dir = "in"
    BY <1>3, <2>2 DEF SendPiece, Device
  <2>7. ASSUME h.orderly, h.stage # "idle"
        PROVE  Orderly(SendPiece(k), h)
    <3>1. ~k.stall /\ h.n = 0 /\ h.stage = "in"
      BY <1>3, <1>1, <2>2, <2>3, <2>7 DEF FirstStage, NoStall, Possible, Request
    <3>2. h.n <= k.size
      BY <2>2, <3>1 DEF Device
    <3> QED
      BY <1>3, <2>2, <3>1, <3>2, SendPieceServes
  <2> QED
    BY <2>4, <2>5, <2>6, <2>7 DEF Orderly, Served, ZlpSound
<1>4. CASE d.req.dir # "in" /\ d.req.len = 0
  <2>1. Accepted(d) = SendZlpIn(d)
    BY <1>4 DEF Accepted
  <2>2. ASSUME h.orderly, h.stage # "idle"
        PROVE  Serves(SendZlpIn(d), h)
    <3>1. NoStall(SendZlpIn(d), h) /\ h.stage = "statusIn"
      BY <1>4, <2>2, SendZlpInIs DEF FirstStage, NoStall
    <3>2. StatusWaits(SendZlpIn(d), h)
      BY <3>1, SendZlpInIs DEF StatusWaits
    <3> QED
      BY <1>4, <3>1, <3>2, SendZlpInIs DEF Serves, Taking
  <2> QED
    BY <2>1, <2>2, SendZlpInIs DEF Orderly, Served, ZlpSound
<1>5. CASE d.req.dir # "in" /\ d.req.len # 0
  <2>1. /\ o.req = d.req /\ o.trans = 0 /\ o.prev = 0 /\ o.size = d.size
        /\ o.rxstp = FALSE /\ o.rxout = FALSE /\ o.txin = TRUE
        /\ o.stall = d.stall /\ o.state = "DATA_OUT" /\ o.nakin = FALSE
    BY <1>2 DEF Device, States
  <2>2. Accepted(d) = o
    BY <1>5 DEF Accepted, c
  <2> HIDE DEF o
  <2>3. ASSUME h.orderly, h.stage # "idle"
        PROVE  Serves(o, h)
    <3>1. NoStall(o, h) /\ h.n = 0 /\ h.stage = "out"
      BY <1>1, <1>5, <2>1, <2>3 DEF FirstStage, Request, NoStall
    <3>2. h.req.pay = h.req.len => WantsData(o, h)
      BY <1>1, <1>5, <2>1, <3>1 DEF WantsData, Request
    <3> QED
      BY <1>1, <1>5, <2>1, <3>1, <3>2 DEF Serves, Taking
  <2> QED
    BY <2>1, <2>2, <2>3 DEF Orderly, Served, ZlpSound
<1> QED
  BY <1>3, <1>4, <1>5

LEMMA SetupReceivedServes ==
  ASSUME NEW d, NEW h, Sound(d, h), Orderly(d, h), d.rxstp
  PROVE  Orderly(SetupReceived(d, h.req), h)
<1> DEFINE r == h.req
           a == IF d.state = "SETUP" THEN d ELSE CtrlInit(EndOfRequest(d))
           l == [call |-> a.req.call, calls |-> a.calls, status |-> a.status]
           b == [a EXCEPT !.req = r, !.size = r.pay, !.call = r.call,
                          !.rxstp = FALSE, !.calls = 0, !.status = FALSE, !.last = l]
<1>1. d \in Device /\ HostSound(h) /\ d.txin = TRUE
  BY DEF Sound, Good, InPhase, Device
<1>2. a \in Device /\ a.txin = TRUE /\ a.rxout = FALSE /\ a.stall = d.stall
  <2>1. CASE d.state = "SETUP"
    <3>1. a = d
      BY <2>1
    <3>2. d.rxout = FALSE
      BY <1>1, <2>1 DEF Sound, InPhase, Device
    <3> QED
      BY <1>1, <3>1, <3>2
  <2>2. CASE d.state # "SETUP"
    <3> DEFINE e == EndOfRequest(d)
    <3>1. e \in Device /\ e.txin = TRUE /\ e.stall = d.stall
      BY <1>1, EndType DEF EndOfRequest, Device
    <3>2. a = CtrlInit(e)
      BY <2>2
    <3> HIDE DEF e, a
    <3> QED
      BY <3>1, <3>2, CtrlInitType DEF CtrlInit, Device
  <2> QED
    BY <2>1, <2>2
<1> HIDE DEF a
<1>3. /\ r \in Request
      /\ l \in [call : BOOLEAN, calls : Nat, status : BOOLEAN]
  BY <1>1, <1>2 DEF HostSound, Device, Request
<1> HIDE DEF l, r
<1>4. /\ b \in Device /\ b.req = r /\ b.size = r.pay /\ b.rxstp = FALSE
      /\ b.rxout = FALSE /\ b.txin = TRUE /\ b.stall = d.stall
  BY <1>2, <1>3 DEF Device, Request
<1> HIDE DEF b
<1>5. h.orderly /\ h.stage # "idle" =>
        ~d.stall /\ h.n = 0 /\ h.stage = FirstStage(h.req)
  BY DEF Orderly, Served, Serves
<1>6. CASE r.ok
  <2> DEFINE z == Halted(b)
  <2>1. /\ z \in Device /\ z.req = r /\ z.size = r.pay /\ z.rxstp = FALSE
        /\ z.rxout = FALSE /\ z.txin = TRUE
        /\ z.stall = (d.stall \/ r.halt = "stall")
    BY <1>4, HaltedIs
  <2>2. SetupReceived(d, r) = Accepted(z)
    BY <1>6 DEF SetupReceived, b, l, a
  <2> HIDE DEF z
  <2>3. h.orderly /\ h.stage # "idle" =>
          NoStall(z, h) /\ h.n = 0 /\ h.stage = FirstStage(h.req)
    BY <1>5, <2>1 DEF NoStall, r
  <2>4. Orderly(Accepted(z), h)
    BY <1>1, <1>6, <2>1, <2>3, AcceptedServes DEF r
  <2> QED
    BY <2>2, <2>4 DEF r
<1>7. CASE ~r.ok
  <2> DEFINE z == StallData(b)
  <2>1. SetupReceived(d, r) = z
    BY <1>7 DEF SetupReceived, b, l, a
  <2>2. z.txin = TRUE /\ z.rxstp = FALSE
    BY <1>4 DEF StallData, Device
  <2> HIDE DEF z
  <2>3. h.orderly /\ h.stage # "idle" => h.stage # "statusOut"
    BY <1>3, <1>5 DEF FirstStage, r, Request
  <2>4. Orderly(z, h)
    BY <1>7, <2>2, <2>3 DEF Orderly, Served, Serves, ZlpSound, r
  <2> QED
    BY <2>1, <2>4 DEF r
<1> QED
  BY <1>6, <1>7

\* What the device's part in a request depends on.  It minds a NAK only when
\* there is one.
LEMMA OrderlyAlike ==
  ASSUME NEW d, NEW e, NEW h, Orderly(d, h),
         e.state = d.state, e.req = d.req, e.size = d.size, e.trans = d.trans,
         e.prev = d.prev, e.short = d.short, e.rxstp = d.rxstp, e.rxout = d.rxout,
         e.txin = d.txin, e.inE = d.inE, e.stall = d.stall, e.pkt = d.pkt,
         e.outLen = d.outLen, e.nakin => d.nakin, e.nakout => d.nakout
  PROVE  Orderly(e, h)
<1>1. ZlpSound(e)
  BY DEF Orderly, ZlpSound
<1>2. Answering(d, h) => Answering(e, h)
  BY DEF Answering, PieceWaits, PieceTaken, LastTaken, AwaitsStatus
<1>3. Taking(d, h) => Taking(e, h)
  BY DEF Taking, NoStall, WantsData, HasLast, StatusWaits
<1> QED
  BY <1>1, <1>2, <1>3 DEF Orderly, Served, Serves

LEMMA DataReceivedServes ==
  ASSUME NEW d, NEW h, Sound(d, h), Orderly(d, h), d.rxstp = FALSE, d.rxout,
         d.state = "DATA_OUT"
  PROVE  Orderly(DataReceived(d), h)
<1> DEFINE n == AtMost(d.size - d.trans, d.outLen)
           t == d.trans + n
           c == [d EXCEPT !.trans = t, !.rxout = FALSE]
           z == [c EXCEPT !.size = c.trans]
           w == [c EXCEPT !.nakin = FALSE, !.nakinE = TRUE]
           done == n # CtrlSize \/ d.req.len <= c.prev + c.trans
<1>1. /\ d \in Device /\ d.trans <= d.size /\ d.req.dir = "out" /\ d.req.ok
      /\ HostSound(h) /\ (h.stage # "idle" => d.req = h.req) /\ CtrlSize \in Nat
  BY CtrlEpAssumption DEF Sound, Good, DataSound, InPhase
<1>2. n \in Nat /\ t = d.trans + n
  BY <1>1 DEF AtMost, Device
<1>3. ASSUME WantsData(d, h)
      PROVE  h.n = t /\ h.n < d.size /\ ~done /\ h.n < h.req.len /\ d.size = h.req.len
  <2>1. n = CtrlSize
    BY <1>1, <1>3 DEF WantsData, AtMost, Device, HostSound, Request
  <2>2. c.prev = 0 /\ c.trans = t
    BY <1>1, <1>3 DEF WantsData, Device
  <2> HIDE DEF n, t, c
  <2>3. h.n = t /\ h.n < d.size /\ h.n < h.req.len /\ h.stage # "idle" /\ d.size = h.req.len
    BY <1>1, <1>2, <1>3, <2>1 DEF WantsData
  <2>4. h.req.len \in Nat /\ t \in Nat
    BY <1>1, <1>2 DEF HostSound, Request, Device
  <2> QED
    BY <1>1, <2>1, <2>2, <2>3, <2>4
<1>4. ASSUME HasLast(d, h)
      PROVE  done
  <2>1. n = d.outLen /\ t = h.req.len /\ h.stage # "idle"
    BY <1>1, <1>4 DEF HasLast, AtMost, Device, HostSound, Request
  <2>2. c.prev = 0 /\ c.trans = t
    BY <1>1, <1>4 DEF HasLast, Device
  <2> HIDE DEF n, t, c
  <2> QED
    BY <1>1, <2>1, <2>2 DEF HostSound, Request
<1>5. h.orderly /\ h.stage # "idle" =>
        /\ h.req.dir = "out" /\ h.req.ok
        /\ h.req.pay = h.req.len => NoStall(d, h) /\ (WantsData(d, h) \/ HasLast(d, h))
  BY <1>1 DEF Orderly, Served, Serves, Taking, StatusWaits
<1>6. DataReceived(d) = IF done THEN SendZlpIn(z)
                        ELSE IF c.size = c.trans THEN StallData(c) ELSE w
  BY DEF DataReceived
<1> HIDE DEF done, n
<1>7. t \in Nat
  BY <1>1, <1>2 DEF Device
<1> HIDE DEF t
<1>8. /\ c \in Device /\ c.trans = t /\ c.size = d.size /\ c.state = "DATA_OUT"
      /\ c.rxout = FALSE /\ c.rxstp = FALSE /\ c.prev = d.prev /\ c.req = d.req
      /\ c.stall = d.stall /\ c.txin = d.txin /\ c.pkt = d.pkt
  BY <1>1, <1>7 DEF Device
<1> HIDE DEF c
<1>9. CASE done
  <2>1. /\ z \in Device /\ z.req = d.req /\ z.rxstp = FALSE /\ z.rxout = FALSE
        /\ z.stall = d.stall
    BY <1>7, <1>8 DEF Device
  <2> HIDE DEF z
  <2>2. ASSUME h.orderly, h.stage # "idle"
        PROVE  Serves(SendZlpIn(z), h)
    <3>1. h.req.pay = h.req.len => NoStall(d, h) /\ h.stage = "statusIn"
      BY <1>3, <1>5, <1>9, <2>2 DEF HasLast
    <3>2. h.req.pay = h.req.len => Taking(SendZlpIn(z), h)
      BY <1>5, <2>1, <3>1, SendZlpInIs DEF Taking, NoStall, StatusWaits
    <3> QED
      BY <1>5, <2>1, <2>2, <3>2, SendZlpInIs DEF Serves
  <2> QED
    BY <1>6, <1>9, <2>1, <2>2, SendZlpInIs DEF Orderly, Served, ZlpSound
<1>10. CASE ~done /\ c.size = c.trans
  <2> DEFINE s == StallData(c)
  <2>1. s.req = d.req /\ s.txin = d.txin /\ s.pkt = d.pkt /\ s.rxstp = FALSE
    BY <1>8 DEF StallData, Device
  <2> HIDE DEF s
  <2>2. ~(WantsData(d, h) \/ HasLast(d, h))
    BY <1>1, <1>3, <1>4, <1>8, <1>10 DEF Device
  <2>3. DataReceived(d) = s
    BY <1>6, <1>10 DEF s
  <2> QED
    BY <1>5, <2>1, <2>2, <2>3 DEF Orderly, Served, Serves, ZlpSound
<1>11. CASE ~done /\ c.size # c.trans
  <2>1. /\ w.req = d.req /\ w.txin = d.txin /\ w.pkt = d.pkt /\ w.rxstp = FALSE
        /\ w.state = "DATA_OUT" /\ w.nakin = FALSE /\ w.rxout = FALSE
        /\ w.stall = d.stall /\ w.size = d.size /\ w.prev = d.prev /\ w.trans = t
    BY <1>8 DEF Device
  <2>2. DataReceived(d) = w
    BY <1>6, <1>11
  <2> HIDE DEF w
  <2>3. ASSUME h.orderly, h.stage # "idle"
        PROVE  Serves(w, h)
    <3>1. h.req.pay = h.req.len => NoStall(w, h) /\ WantsData(w, h)
      BY <1>3, <1>4, <1>5, <1>11, <2>1, <2>3 DEF WantsData, NoStall
    <3> QED
      BY <1>5, <2>1, <2>3, <3>1 DEF Serves, Taking
  <2> QED
    BY <2>1, <2>2, <2>3 DEF Orderly, Served, ZlpSound
<1> QED
  BY <1>9, <1>10, <1>11

LEMMA OutReceivedServes ==
  ASSUME NEW d, NEW h, Sound(d, h), Orderly(d, h), d.rxstp = FALSE, d.rxout
  PROVE  Orderly(OutReceived(d), h)
<1>1. d \in Device
  BY DEF Sound, Good
<1>2. CASE d.state = "DATA_OUT"
  BY <1>2, DataReceivedServes DEF OutReceived
<1>3. CASE d.state \in {"DATA_IN", "WAIT_OUT_ZLP"}
  <2> DEFINE e == EndOfRequest(d)
             z == CtrlInit(e)
  <2>1. h.stage = "idle"
    BY <1>3 DEF Sound, InPhase
  <2>2. e \in Device /\ e.req = d.req /\ e.txin = d.txin /\ e.pkt = d.pkt
    BY <1>1, EndType DEF EndOfRequest, Device
  <2> HIDE DEF e
  <2>3. z.req = d.req /\ z.txin = d.txin /\ z.pkt = d.pkt
    BY <2>2 DEF CtrlInit, Device
  <2>4. OutReceived(d) = z
    BY <1>3 DEF OutReceived, e
  <2> HIDE DEF z
  <2> QED
    BY <2>1, <2>3, <2>4 DEF Orderly, Served, ZlpSound
<1>4. CASE d.state \notin {"DATA_OUT", "DATA_IN", "WAIT_OUT_ZLP"}
  <2> DEFINE e == StallData(d)
             z == CtrlInit(e)
  <2>1. e \in Device /\ e.req = d.req /\ e.txin = d.txin /\ e.pkt = d.pkt /\ e.rxstp = FALSE
    BY <1>1, StallType DEF StallData, Device
  <2> HIDE DEF e
  <2>2. z.req = d.req /\ z.txin = d.txin /\ z.pkt = d.pkt /\ z.rxstp = FALSE
    BY <2>1 DEF CtrlInit, Device
  <2>3. OutReceived(d) = z
    BY <1>4 DEF OutReceived, e
  <2> HIDE DEF z
  <2>4. ~Answering(d, h) /\ ~Taking(d, h)
    BY <1>4 DEF Answering, Taking, PieceWaits, PieceTaken, LastTaken, AwaitsStatus,
                WantsData, HasLast, StatusWaits
  <2> QED
    BY <2>2, <2>3, <2>4 DEF Orderly, Served, Serves, ZlpSound
<1> QED
  BY <1>2, <1>3, <1>4

\* e is d with its NAK on IN tokens acknowledged.
LEMMA UnderflowServes ==
  ASSUME NEW d, NEW e, NEW h, Sound(d, h), Orderly(d, h), Orderly(e, h), e \in Device,
         d.rxstp = FALSE, d.nakin, e.rxstp = FALSE,
         e.state = d.state, e.rxout = d.rxout, e.req = d.req
  PROVE  Orderly(Underflow(e), h)
<1>1. CASE e.rxout
  BY <1>1 DEF Underflow
<1>2. ~AwaitsStatus(d, h) /\ ~WantsData(d, h)
  BY DEF AwaitsStatus, WantsData
<1>3. h.orderly /\ h.stage # "idle" => Serves(d, h) /\ Serves(e, h)
  BY DEF Orderly, Served
<1>4. CASE ~e.rxout /\ e.state = "DATA_OUT"
  <2>1. d.req.dir = "out" /\ d.req.ok /\ (h.stage # "idle" => d.req = h.req)
    BY <1>4 DEF Sound, Good, DataSound, InPhase
  <2>2. ~Taking(d, h)
    BY <1>2, <1>4 DEF Taking, HasLast, StatusWaits
  <2>3. Underflow(e) = SendZlpIn(e)
    BY <1>4 DEF Underflow
  <2>4. h.orderly /\ h.stage # "idle" => Serves(SendZlpIn(e), h)
    BY <1>3, <2>1, <2>2, SendZlpInIs DEF Serves
  <2> QED
    BY <2>3, <2>4, SendZlpInIs DEF Orderly, Served, ZlpSound
<1>5. CASE ~e.rxout /\ e.state # "DATA_OUT"
  <2> DEFINE s == e.stall \/ e.state = "WAIT_OUT_ZLP"
             z == [e EXCEPT !.stall = s]
  <2>1. Underflow(e) = z
    BY <1>5 DEF Underflow
  <2>2. /\ z.state = e.state /\ z.req = e.req /\ z.size = e.size /\ z.trans = e.trans
        /\ z.prev = e.prev /\ z.short = e.short /\ z.rxstp = FALSE /\ z.rxout = e.rxout
        /\ z.txin = e.txin /\ z.inE = e.inE /\ z.pkt = e.pkt /\ z.outLen = e.outLen
        /\ z.nakin = e.nakin /\ z.nakout = e.nakout /\ z.stall = s
    BY DEF Device
  <2> HIDE DEF z
  <2>3. ZlpSound(z)
    BY <2>2 DEF Orderly, ZlpSound
  <2>4. CASE e.state # "WAIT_OUT_ZLP"
    <3>1. z.stall = e.stall
      BY <2>2, <2>4 DEF Device
    <3> QED
      BY <2>1, <2>2, <3>1, OrderlyAlike
  <2>5. CASE e.state = "WAIT_OUT_ZLP"
    <3>1. ~Answering(d, h) /\ ~Taking(d, h)
      BY <1>2, <2>5 DEF Answering, PieceWaits, PieceTaken, LastTaken, Taking,
                        HasLast, StatusWaits
    <3>2. h.orderly /\ h.stage # "idle" => Serves(z, h)
      BY <1>3, <2>2, <3>1 DEF Serves
    <3> QED
      BY <2>1, <2>3, <3>2 DEF Orderly, Served
  <2> QED
    BY <2>4, <2>5
<1> QED
  BY <1>1, <1>4, <1>5

\* e is d with its NAK on OUT tokens acknowledged.
LEMMA OverflowServes ==
  ASSUME NEW d, NEW e, NEW h, Orderly(d, h), Orderly(e, h), e \in Device,
         d.rxstp = FALSE, d.nakout, e.rxstp = FALSE, e.state = d.state
  PROVE  Orderly(Overflow(e), h)
<1> DEFINE s == e.stall \/ e.state = "WAIT_IN_ZLP"
           z == [e EXCEPT !.stall = s]
<1>1. Overflow(e) \in {e, z}
  BY DEF Overflow
<1>2. /\ z.state = e.state /\ z.req = e.req /\ z.size = e.size /\ z.trans = e.trans
      /\ z.prev = e.prev /\ z.short = e.short /\ z.rxstp = FALSE /\ z.rxout = e.rxout
      /\ z.txin = e.txin /\ z.inE = e.inE /\ z.pkt = e.pkt /\ z.outLen = e.outLen
      /\ z.nakin = e.nakin /\ z.nakout = e.nakout /\ z.stall = s
  BY DEF Device
<1> HIDE DEF z
<1>3. CASE e.state # "WAIT_IN_ZLP"
  <2>1. z.stall = e.stall
    BY <1>2, <1>3 DEF Device
  <2> QED
    BY <1>1, <1>2, <2>1, OrderlyAlike
<1>4. CASE e.state = "WAIT_IN_ZLP"
  <2>1. ~Answering(d, h) /\ ~Taking(d, h)
    BY <1>4 DEF Answering, PieceWaits, PieceTaken, LastTaken, AwaitsStatus, Taking,
                WantsData, HasLast, StatusWaits
  <2>2. h.orderly /\ h.stage # "idle" => Serves(d, h) /\ Serves(e, h)
    BY DEF Orderly, Served
  <2>3. h.orderly /\ h.stage # "idle" => Serves(z, h)
    BY <1>2, <2>1, <2>2 DEF Serves
  <2>4. ZlpSound(z)
    BY <1>2 DEF Orderly, ZlpSound
  <2> QED
    BY <1>1, <2>3, <2>4 DEF Orderly, Served
<1> QED
  BY <1>3, <1>4

LEMMA InterruptOrderly == OInv /\ Interrupt => Orderly(dev', host')
<1> SUFFICES ASSUME Sound(dev, host), Orderly(dev, host), Interrupt
             PROVE  Orderly(dev', host')
  BY DEF OInv, IInv
<1> DEFINE q == Quiet(dev)
<1>1. /\ dev \in Device /\ q \in Device /\ dev.rxstp \in BOOLEAN
      /\ q.state = dev.state /\ q.req = dev.req /\ q.size = dev.size
      /\ q.trans = dev.trans /\ q.prev = dev.prev /\ q.short = dev.short
      /\ q.rxstp = dev.rxstp /\ q.rxout = dev.rxout /\ q.txin = dev.txin
      /\ q.inE = dev.inE /\ q.stall = dev.stall /\ q.pkt = dev.pkt
      /\ q.outLen = dev.outLen /\ q.nakin = dev.nakin /\ q.nakout = dev.nakout
  <2>1. dev \in Device
    BY DEF Sound, Good
  <2> QED
    BY <2>1 DEF Quiet, Device
<1>2. Sound(q, host) /\ Orderly(q, host)
  BY <1>1, NakSound, OrderlyAlike DEF q
<1> HIDE DEF q
<1>3. CASE OnSetup
  <2>1. dev.rxstp /\ dev' = SetupReceived(q, host.req) /\ host' = host
    BY <1>3 DEF OnSetup, Handle, Event, q
  <2> QED
    BY <1>1, <1>2, <2>1, SetupReceivedServes
<1>4. CASE OnInSent
  <2>1. ~dev.rxstp /\ dev.txin /\ dev.inE /\ dev' = InSent(q) /\ host' = host
    BY <1>4 DEF OnInSent, Handle, Event, q
  <2>2. q.state \in {"DATA_IN", "WAIT_IN_ZLP"}
    BY <1>1, <2>1 DEF Sound, IntSound
  <2> QED
    BY <1>1, <1>2, <2>1, <2>2, InSentServes
<1>5. CASE OnOutReceived
  <2>1. ~dev.rxstp /\ dev.rxout /\ dev' = OutReceived(q) /\ host' = host
    BY <1>5 DEF OnOutReceived, Handle, Event, q
  <2> QED
    BY <1>1, <1>2, <2>1, OutReceivedServes
<1>6. CASE OnNakOut
  <2> DEFINE e == [q EXCEPT !.nakout = FALSE]
  <2>1. ~dev.rxstp /\ dev.nakout /\ dev' = Overflow(e) /\ host' = host
    BY <1>6 DEF OnNakOut, Handle, Event, q
  <2>2. /\ e \in Device
        /\ e.state = q.state /\ e.req = q.req /\ e.size = q.size /\ e.trans = q.trans
        /\ e.prev = q.prev /\ e.short = q.short /\ e.rxstp = q.rxstp
        /\ e.rxout = q.rxout /\ e.txin = q.txin /\ e.inE = q.inE /\ e.stall = q.stall
        /\ e.pkt = q.pkt /\ e.outLen = q.outLen /\ e.nakin = q.nakin
        /\ e.nakout = FALSE
    BY <1>1 DEF Device
  <2> HIDE DEF e
  <2>3. Orderly(e, host)
    BY <1>2, <2>2, OrderlyAlike
  <2> QED
    BY <1>1, <1>2, <2>1, <2>2, <2>3, OverflowServes
<1>7. CASE OnNakIn
  <2> DEFINE e == [q EXCEPT !.nakin = FALSE]
  <2>1. ~dev.rxstp /\ dev.nakin /\ dev' = Underflow(e) /\ host' = host
    BY <1>7 DEF OnNakIn, Handle, Event, Pending, q
  <2>2. /\ e \in Device
        /\ e.state = q.state /\ e.req = q.req /\ e.size = q.size /\ e.trans = q.trans
        /\ e.prev = q.prev /\ e.short = q.short /\ e.rxstp = q.rxstp
        /\ e.rxout = q.rxout /\ e.txin = q.txin /\ e.inE = q.inE /\ e.stall = q.stall
        /\ e.pkt = q.pkt /\ e.outLen = q.outLen /\ e.nakin = FALSE
        /\ e.nakout = q.nakout
    BY <1>1 DEF Device
  <2> HIDE DEF e
  <2>3. Orderly(e, host)
    BY <1>2, <2>2, OrderlyAlike
  <2> QED
    BY <1>1, <1>2, <2>1, <2>2, <2>3, UnderflowServes
<1> QED
  BY <1>3, <1>4, <1>5, <1>6, <1>7 DEF Interrupt

LEMMA SetupOrderly ==
  ASSUME NEW r \in Requests, OInv, Setup(r)
  PROVE  Orderly(dev', host')
<1>1. dev \in Device
  BY DEF OInv, IInv, Sound, Good
<1>2. /\ dev'.rxstp = TRUE /\ dev'.stall = FALSE /\ dev'.txin = TRUE
      /\ host'.n = 0 /\ host'.stage = FirstStage(r) /\ host'.req = r
  BY <1>1 DEF Setup, Device
<1> QED
  BY <1>2 DEF Orderly, Served, Serves, ZlpSound

\* Steps after which the host is not in a request it goes through in order.
LEMMA AwayOrderly ==
  ASSUME OInv, Stalled \/ LeaveEarly \/ GoOn \/ SendStatus \/ BusReset
  PROVE  Orderly(dev', host')
<1>1. dev \in Device /\ HostSound(host)
  BY DEF OInv, IInv, Sound, Good
<1>2. host'.stage = "idle" \/ ~host'.orderly
  <2>1. Stalled \/ SendStatus \/ BusReset => host'.stage = "idle"
    BY <1>1 DEF Stalled, SendStatus, BusReset, HostSound
  <2>2. LeaveEarly => ~host'.orderly
    BY <1>1 DEF LeaveEarly, HostSound
  <2>3. GoOn => ~host'.orderly
    BY <1>1 DEF GoOn, HostSound
  <2> QED
    BY <2>1, <2>2, <2>3
<1>3. CASE Stalled \/ LeaveEarly \/ GoOn
  BY <1>2, <1>3 DEF Stalled, LeaveEarly, GoOn, OInv, Orderly, Served
<1>4. CASE SendStatus
  <2>1. dev'.req = dev.req /\ dev'.txin = dev.txin /\ dev'.pkt = dev.pkt
    BY <1>1, <1>4 DEF SendStatus, Device
  <2> QED
    BY <1>2, <2>1 DEF OInv, Orderly, Served, ZlpSound
<1>5. CASE BusReset
  <2> DEFINE c == CtrlInit(Quiet(dev))
  <2>1. Quiet(dev) \in Device
    BY <1>1 DEF Quiet, Device
  <2>2. c \in Device
    BY <2>1, CtrlInitType
  <2>3. dev' = [c EXCEPT !.rxstp = FALSE, !.txin = TRUE, !.pkt = NoPacket,
                         !.nakin = FALSE, !.nakout = FALSE, !.stall = FALSE,
                         !.intE = TRUE, !.req = NoRequest, !.calls = 0, !.status = FALSE]
    BY <1>5 DEF BusReset
  <2> HIDE DEF c
  <2>4. dev'.txin = TRUE
    BY <2>2, <2>3 DEF Device
  <2> QED
    BY <1>2, <2>4 DEF Orderly, Served, ZlpSound
<1> QED
  BY <1>3, <1>4, <1>5

LEMMA NakOrderly == OInv /\ (NakIn \/ NakOut) => Orderly(dev', host')
<1> SUFFICES ASSUME OInv, NakIn \/ NakOut PROVE Orderly(dev', host')
  OBVIOUS
<1>1. dev \in Device /\ host' = host
  BY DEF OInv, IInv, Sound, Good, NakIn, NakOut
<1>2. /\ dev'.state = dev.state /\ dev'.req = dev.req /\ dev'.size = dev.size
      /\ dev'.trans = dev.trans /\ dev'.prev = dev.prev /\ dev'.short = dev.short
      /\ dev'.rxstp = dev.rxstp /\ dev'.rxout = dev.rxout /\ dev'.txin = dev.txin
      /\ dev'.inE = dev.inE /\ dev'.stall = dev.stall /\ dev'.pkt = dev.pkt
      /\ dev'.outLen = dev.outLen
      /\ dev'.nakin # dev.nakin => NakIn
      /\ dev'.nakout # dev.nakout => NakOut
  BY <1>1 DEF NakIn, NakOut, Device
<1>3. ZlpSound(dev')
  BY <1>2 DEF OInv, Orderly, ZlpSound
<1>4. Answering(dev, host) => Answering(dev', host)
  BY <1>2 DEF Answering, PieceWaits, PieceTaken, LastTaken, AwaitsStatus, NakIn
<1>5. Taking(dev, host) => Taking(dev', host)
  BY <1>2 DEF Taking, NoStall, WantsData, HasLast, StatusWaits, NakIn, NakOut
<1> QED
  BY <1>1, <1>2, <1>3, <1>4, <1>5 DEF OInv, Orderly, Served, Serves

LEMMA TakeInOrderly == OInv /\ TakeIn => Orderly(dev', host')
<1> SUFFICES ASSUME OInv, TakeIn PROVE Orderly(dev', host')
  OBVIOUS
<1>1. dev \in Device /\ HostSound(host) /\ dev.rxstp = FALSE /\ dev.txin = FALSE
  BY DEF OInv, IInv, Sound, Good, TakeIn, Device
<1>2. dev'.txin = TRUE /\ dev'.rxstp = FALSE
  BY <1>1 DEF TakeIn, Device
<1>3. CASE host.stage = "statusIn"
  <2>1. host'.stage = "idle"
    BY <1>1, <1>3 DEF TakeIn, HostSound
  <2> QED
    BY <1>2, <2>1 DEF Orderly, Served, ZlpSound
<1>4. CASE host.stage = "in"
  <2> DEFINE got == AtMost(host.req.len, host.n + dev.pkt.n)
             over == dev.pkt.n < CtrlSize \/ got = host.req.len
  <2>1. /\ dev' = [dev EXCEPT !.txin = TRUE, !.pkt = NoPacket]
        /\ host' = [host EXCEPT !.n = got, !.stage = IF over THEN "statusOut" ELSE @]
    BY <1>4 DEF TakeIn
  <2>2. /\ dev'.state = dev.state /\ dev'.size = dev.size
        /\ dev'.trans = dev.trans /\ dev'.prev = dev.prev /\ dev'.short = dev.short
        /\ dev'.inE = dev.inE /\ dev'.stall = dev.stall
    BY <1>1, <2>1 DEF Device
  <2>3. /\ host'.req = host.req /\ host'.orderly = host.orderly /\ host'.n = got
        /\ host'.stage = IF over THEN "statusOut" ELSE "in"
    <3> HIDE DEF got, over
    <3> QED
      BY <1>1, <1>4, <2>1 DEF HostSound
  <2>4. ASSUME host.orderly
        PROVE  Serves(dev', host')
    <3>1. host.req.dir = "in" /\ host.req.ok
      BY <1>1, <1>4, <2>4 DEF HostSound, OInv, Orderly, Served, Serves
    <3>2. ~dev.stall /\ dev.size = host.req.pay /\ PieceWaits(dev, host)
      BY <1>1, <1>4, <2>4, <3>1 DEF OInv, Orderly, Served, Serves, Answering, PieceTaken,
                               LastTaken, AwaitsStatus
    <3>3. host.req.pay \in 1 .. host.req.len /\ host.req.len \in Nat /\ host.req.pay \in Nat
          /\ host.n \in Nat /\ host.n <= host.req.pay /\ CtrlSize \in Nat \ {0}
      BY <1>1, <3>1, <3>2, CtrlEpAssumption DEF HostSound, Possible, Request, PieceWaits
    <3>4. /\ dev.pkt.n = AtMost(host.req.pay - host.n, CtrlSize)
          /\ dev.trans = host.n + dev.pkt.n /\ dev.state = "DATA_IN" /\ dev.inE
          /\ dev.short = (dev.pkt.n < CtrlSize)
          /\ dev.prev = 0 \/ dev.pkt.n = 0
      BY <3>2 DEF PieceWaits, PieceOf
    <3>5. got = dev.trans /\ got \in Nat /\ got <= host.req.pay
      BY <3>3, <3>4 DEF AtMost
    <3>6. over => got = host.req.pay
      BY <3>3, <3>4, <3>5 DEF AtMost
    <3>7. dev.pkt.n \in Nat /\ (dev.pkt.n # 0 => dev.prev = 0)
      BY <1>1, <3>4 DEF Device
    <3>8. /\ dev.pkt.n < CtrlSize => dev.short
          /\ ~(dev.pkt.n < CtrlSize) => ~dev.short /\ dev.prev = 0
      <4>1. ~(dev.pkt.n < CtrlSize) => dev.prev = 0
        BY <3>3, <3>7
      <4> QED
        BY <3>4, <4>1
    <3>9. CASE over
      <4>1. dev.short \/ (dev.prev = 0 /\ dev.trans = host.req.len)
        BY <3>5, <3>8, <3>9
      <4> HIDE DEF got, over
      <4>2. LastTaken(dev', host')
        BY <1>2, <2>2, <2>3, <3>2, <3>4, <3>5, <3>6, <3>9, <4>1 DEF LastTaken
      <4> QED
        BY <1>2, <2>2, <2>3, <3>1, <3>2, <4>2 DEF Serves, Answering
    <3>10. CASE ~over
      <4>1. dev.prev = 0 /\ ~dev.short /\ got < host.req.len
        BY <3>3, <3>5, <3>8, <3>10
      <4> HIDE DEF got, over
      <4>2. PieceTaken(dev', host')
        BY <1>2, <2>2, <2>3, <3>2, <3>4, <3>5, <3>10, <4>1 DEF PieceTaken
      <4> QED
        BY <1>2, <2>2, <2>3, <3>1, <3>2, <4>2 DEF Serves, Answering
    <3> QED
      BY <3>9, <3>10
  <2> QED
    BY <1>2, <2>3, <2>4 DEF Orderly, Served, ZlpSound
<1> QED
  BY <1>3, <1>4 DEF TakeIn

LEMMA SendOutOrderly ==
  ASSUME NEW n \in 0 .. CtrlSize, OInv, SendOut(n)
  PROVE  Orderly(dev', host')
<1> DEFINE sent == AtMost(host.req.len, host.n + n)
           last == n < Due \/ sent = host.req.len
           o == host.orderly /\ n = Due
<1>1. /\ dev \in Device /\ HostSound(host) /\ dev.rxstp = FALSE /\ dev.rxout = FALSE
      /\ host.stage = "out" /\ host.req.dir = "out"
  BY DEF OInv, IInv, Sound, Good, HostSound, SendOut, Room, Device
<1>2. /\ dev'.state = dev.state /\ dev'.req = dev.req /\ dev'.size = dev.size
      /\ dev'.trans = dev.trans /\ dev'.prev = dev.prev /\ dev'.rxstp = FALSE
      /\ dev'.rxout = TRUE /\ dev'.outLen = n /\ dev'.txin = dev.txin
      /\ dev'.pkt = dev.pkt /\ dev'.stall = dev.stall /\ dev'.nakin = dev.nakin
      /\ dev'.nakout = dev.nakout
  BY <1>1 DEF SendOut, Device
<1>3. host' = [host EXCEPT !.n = sent, !.orderly = o,
                           !.stage = IF last THEN "statusIn" ELSE @]
  BY DEF SendOut
<1>4. /\ host'.req = host.req /\ host'.n = sent /\ host'.orderly = o
      /\ host'.stage = IF last THEN "statusIn" ELSE "out"
  <2> HIDE DEF sent, last, o
  <2> QED
    BY <1>1, <1>3 DEF HostSound
<1>5. ZlpSound(dev')
  BY <1>2 DEF OInv, Orderly, ZlpSound
<1>6. ASSUME host.orderly, n = Due
      PROVE  Serves(dev', host')
  <2>1. Serves(dev, host)
    BY <1>1, <1>6 DEF OInv, Orderly, Served
  <2>2. ASSUME host.req.ok, host.req.pay = host.req.len
        PROVE  Taking(dev', host')
    <3>1. NoStall(dev, host) /\ WantsData(dev, host)
      BY <1>1, <2>1, <2>2 DEF Serves, Taking, HasLast, StatusWaits
    <3>2. /\ host.n \in Nat /\ host.req.len \in Nat /\ CtrlSize \in Nat
          /\ host.n < host.req.len /\ host.n = dev.trans
      BY <1>1, <3>1, CtrlEpAssumption DEF HostSound, Request, WantsData
    <3>3. n = AtMost(CtrlSize, host.req.len - host.n)
      BY <1>1, <1>6, <3>2 DEF Due
    <3>4. sent = dev.trans + n /\ (n < CtrlSize => sent = host.req.len)
          /\ sent <= host.req.len /\ n \in Nat
      BY <3>2, <3>3 DEF AtMost
    <3>5. last <=> sent = host.req.len
      BY <1>6, <3>2, <3>4
    <3>6. CASE sent = host.req.len
      <4>1. HasLast(dev', host')
        BY <1>2, <1>4, <3>1, <3>4, <3>5, <3>6 DEF HasLast, WantsData
      <4> QED
        BY <1>2, <1>4, <3>1, <4>1 DEF Taking, NoStall
    <3>7. CASE sent # host.req.len
      <4>1. n = CtrlSize /\ sent < host.req.len
        BY <3>2, <3>3, <3>4, <3>7 DEF AtMost
      <4>2. WantsData(dev', host')
        BY <1>2, <1>4, <3>1, <3>4, <3>5, <3>7, <4>1 DEF WantsData
      <4> QED
        BY <1>2, <1>4, <3>1, <4>2 DEF Taking, NoStall
    <3> QED
      BY <3>6, <3>7
  <2> QED
    BY <1>1, <1>2, <1>4, <2>1, <2>2 DEF Serves
<1> QED
  BY <1>4, <1>5, <1>6 DEF Orderly, Served

LEMMA InitOrderly == Init => OInv
<1> SUFFICES ASSUME Init PROVE Orderly(dev, host)
  BY InitSound DEF OInv
<1> QED
  BY DEF Init, Orderly, Served, ZlpSound

LEMMA NextOrderly == OInv /\ [Next]_vars => OInv'
<1> SUFFICES ASSUME OInv, [Next]_vars PROVE Orderly(dev', host')
  BY NextSound DEF OInv
<1>1. CASE Interrupt
  BY <1>1, InterruptOrderly
<1>2. CASE \E r \in Requests : Setup(r)
  BY <1>2, SetupOrderly
<1>3. CASE Stalled \/ LeaveEarly \/ GoOn \/ SendStatus \/ BusReset
  BY <1>3, AwayOrderly
<1>4. CASE NakIn \/ NakOut
  BY <1>4, NakOrderly
<1>5. CASE TakeIn
  BY <1>5, TakeInOrderly
<1>6. CASE (\E n \in 0 .. CtrlSize : SendOut(n)) \/ SendOut(Due)
  <2>1. Due \in 0 .. CtrlSize
    BY CtrlEpAssumption DEF OInv, IInv, Sound, HostSound, Due, AtMost, Request
  <2> QED
    BY <1>6, <2>1, SendOutOrderly
<1>7. CASE UNCHANGED vars
  BY <1>7 DEF vars, OInv
<1> QED
  BY <1>1, <1>2, <1>3, <1>4, <1>5, <1>6, <1>7 DEF Next, Token

\* The second inductive invariant: through a request an orderly host makes,
\* device and host agree on how far the answer or the data have come.
THEOREM OrderlyInvariance == Spec => []OInv
  BY InitOrderly, NextOrderly, PTL DEF Spec

\* Whatever the host did before, the packet it is about to take is the next piece
\* of the answer to the request it makes now, and none is missing at the end.
THEOREM AnswerAlwaysSent == Spec => []AnswerSent
<1>1. ASSUME OInv
      PROVE  NextPieceOfAnswer
  <2> SUFFICES ASSUME host.orderly, ~dev.rxstp, ~dev.txin,
                      host.stage \in {"in", "statusIn"}
               PROVE  /\ host.stage = "in" => dev.pkt = PieceOf(host.req, host.n)
                      /\ host.stage = "statusIn" => dev.pkt.n = 0
    BY DEF NextPieceOfAnswer, PieceOf
  <2>1. HostSound(host) /\ dev.req = host.req /\ Serves(dev, host) /\ ZlpSound(dev)
    BY <1>1 DEF OInv, IInv, Sound, InPhase, Orderly, Served
  <2>2. host.req.ok
    BY <2>1 DEF Serves
  <2>3. CASE host.stage = "in"
    <3>1. Answering(dev, host)
      BY <2>1, <2>2, <2>3 DEF Serves, HostSound
    <3> QED
      BY <2>3, <3>1 DEF Answering, PieceWaits, PieceTaken, LastTaken, AwaitsStatus
  <2>4. CASE host.stage = "statusIn"
    <3>1. host.req.dir = "out"
      BY <2>1, <2>2, <2>4 DEF HostSound, Possible, Request
    <3> QED
      BY <2>1, <2>4, <3>1 DEF ZlpSound
  <2> QED
    BY <2>3, <2>4
<1>2. ASSUME OInv
      PROVE  AnswerWhole
  <2> SUFFICES ASSUME host.orderly, host.stage = "statusOut"
               PROVE  host.n = host.req.pay
    BY DEF AnswerWhole
  <2>1. HostSound(host) /\ Serves(dev, host)
    BY <1>2 DEF OInv, IInv, Sound, Orderly, Served
  <2>2. host.req.dir = "in" /\ host.req.ok /\ Answering(dev, host)
    BY <2>1 DEF HostSound, Serves, FirstStage
  <2> QED
    BY <2>2 DEF Answering, PieceWaits, PieceTaken, LastTaken, AwaitsStatus
<1>3. OInv => AnswerSent
  BY <1>1, <1>2 DEF AnswerSent
<1> QED
  BY <1>3, OrderlyInvariance, PTL

\* An accepted request whose data fit is never stalled on a host that keeps to
\* the protocol, however it was left by the requests before; but for the request
\* that halts endpoint 0 itself.
THEOREM AcceptedNeverStalled == Spec => []AcceptedNotStalled
<1>1. ASSUME OInv
      PROVE  AcceptedNotStalled
  <2>1. HostSound(host)
    BY <1>1 DEF OInv, IInv, Sound
  <2> QED
    BY <1>1, <2>1 DEF AcceptedNotStalled, OInv, Orderly, Served, Serves, Answering, Taking,
                      NoStall, HostSound, Request
<1> QED
  BY <1>1, OrderlyInvariance, PTL
=============================================================================
