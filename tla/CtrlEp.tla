------------------------------- MODULE CtrlEp -------------------------------
(***************************************************************************)
(* The control endpoint (usbb_device.c): the state machine that takes a    *)
(* request from its SETUP packet through its data stage to its status      *)
(* stage, driven by one interrupt that looks at the endpoint's flags in a  *)
(* fixed order.  The host may do as the protocol says, stop a stage early, *)
(* go on with one that is over, or start another request at any time.      *)
(*                                                                         *)
(* A request carries what udc_process_setup() will make of it.  A call of  *)
(* the interrupt is one step; the host's packets come between the calls.   *)
(***************************************************************************)
EXTENDS Integers, FiniteSets

CONSTANTS
  CtrlSize,   \* USB_DEVICE_EP_CTRL_SIZE: bytes in a full packet
  Requests,   \* the requests the host may send
  Liberties   \* what the host may do beyond an orderly request, see below

VARIABLES
  dev,    \* the driver's statics, the request, and the endpoint's registers
  host    \* stage, request, bytes of its data stage, and whether it is orderly

vars == <<dev, host>>

States == {"SETUP", "DATA_OUT", "DATA_IN", "WAIT_IN_ZLP", "WAIT_OUT_ZLP", "STALL_REQ"}

Stages == {"idle", "in", "out", "statusIn", "statusOut"}

AtMost(a, b) == IF a < b THEN a ELSE b

\* SET_FEATURE(ENDPOINT_HALT) is taken for endpoint 0 as for any other.  The job
\* of endpoint 0 is read before the start of udd_ep_job[]: as what stands there
\* says, the endpoint stalls, or it is taken to be halted already.
Halts == {"none", "stall", "already"}

\* len: wLength.  ok: accepted.  pay: the payload's size.  call: a callback is
\* registered.  halt: what the request does to endpoint 0 itself.
Request == [dir : {"in", "out"}, len : Nat, ok : BOOLEAN, pay : Nat,
            call : BOOLEAN, halt : Halts]

\* What the handlers of this firmware make of a request: an answer is never
\* empty nor longer than was asked for, data have a buffer of their length or
\* none at all, only requests that write register a callback, and a halt comes
\* without data or callback.
Possible(r) ==
  /\ \/ ~r.ok /\ r.pay = 0 /\ ~r.call
     \/ r.ok /\ r.dir = "in" /\ r.pay \in 1 .. r.len /\ ~r.call
     \/ r.ok /\ r.dir = "out" /\ (r.pay = r.len \/ (r.pay = 0 /\ ~r.call))
  /\ r.halt # "none" => r.ok /\ r.dir = "out" /\ r.len = 0 /\ ~r.call

ASSUME CtrlEpAssumption ==
  /\ CtrlSize \in Nat \ {0}
  /\ Requests \subseteq Request
  /\ \A r \in Requests : Possible(r)
  \* "early": leave a data stage before its end.  "extra": return to it.
  \* "abort": send a SETUP before the last request ended.
  /\ Liberties \subseteq {"early", "extra", "abort"}

NoRequest == [dir |-> "out", len |-> 0, ok |-> FALSE, pay |-> 0, call |-> FALSE,
              halt |-> "none"]

NoPacket == [req |-> NoRequest, off |-> 0, n |-> 0]

-----------------------------------------------------------------------------
(* The handlers, as functions of the device's record d: state, req, size,  *)
(* trans, prev, short and call are the statics and udd_g_ctrlreq; rxstp,   *)
(* rxout, txin, nakin and nakout the flags of UESTA0; inE, nakinE, nakoutE *)
(* and stall the bits of UECON0; intE endpoint 0's bit of UDINTE; pkt and  *)
(* outLen what is in the bank.                                             *)
(* txin says that no packet waits to be sent.  calls counts the callback's *)
(* calls, status says that the status stage took place, last keeps both    *)
(* for the request before: ghosts.                                         *)

\* Mutant of CtrlInit: the interrupt on a sent packet stays enabled.
CtrlInitKeepsIn(d) == [d EXCEPT !.rxout = FALSE, !.call = FALSE,
                                !.size = 0, !.state = "SETUP"]

CtrlInit(d) == [d EXCEPT !.inE = FALSE, !.rxout = FALSE, !.call = FALSE,
                         !.size = 0, !.state = "SETUP"]

EndOfRequest(d) == IF d.call THEN [d EXCEPT !.calls = @ + 1] ELSE d

StallData(d) == [d EXCEPT !.state = "STALL_REQ", !.stall = TRUE]

\* Mutant of SendZlpIn: the empty packet is not handed to the controller.
SendZlpInUnsent(d) == [d EXCEPT !.state = "WAIT_IN_ZLP", !.inE = TRUE,
                                !.nakout = FALSE, !.nakoutE = TRUE]

SendZlpIn(d) == [d EXCEPT !.state = "WAIT_IN_ZLP",
                          !.txin = FALSE, !.inE = TRUE,
                          !.pkt = [req |-> d.req, off |-> 0, n |-> 0],
                          !.nakout = FALSE, !.nakoutE = TRUE]

SendZlpOut(d) == [d EXCEPT !.state = "WAIT_OUT_ZLP",
                           !.nakin = FALSE, !.nakinE = TRUE]

\* Mutants of SendPiece: a piece may be longer than a packet; the count of bytes
\* sent is not updated.
SendPieceLong(d) ==
  LET n == d.size - d.trans
      c == [d EXCEPT !.short = n < CtrlSize]
  IN  IF d.rxout
      THEN [c EXCEPT !.state = "WAIT_OUT_ZLP"]
      ELSE [c EXCEPT !.pkt = [req |-> d.req, off |-> d.trans, n |-> n],
                     !.trans = @ + n, !.txin = FALSE, !.inE = TRUE]

SendPieceAgain(d) ==
  LET n == AtMost(d.size - d.trans, CtrlSize)
      c == [d EXCEPT !.short = n < CtrlSize]
  IN  IF d.rxout
      THEN [c EXCEPT !.state = "WAIT_OUT_ZLP"]
      ELSE [c EXCEPT !.pkt = [req |-> d.req, off |-> d.trans, n |-> n],
                     !.txin = FALSE, !.inE = TRUE]

\* The next piece of the answer; an empty one when the payload is used up but
\* the host asked for more and has not seen a short packet.
SendPiece(d) ==
  LET n == AtMost(d.size - d.trans, CtrlSize)
      c == [d EXCEPT !.short = n < CtrlSize]
  IN  IF d.rxout
      THEN [c EXCEPT !.state = "WAIT_OUT_ZLP"]
      ELSE [c EXCEPT !.pkt = [req |-> d.req, off |-> d.trans, n |-> n],
                     !.trans = @ + n, !.txin = FALSE, !.inE = TRUE]

InSent(d) ==
  LET c == [d EXCEPT !.inE = FALSE]
      e == [c EXCEPT !.prev = @ + c.trans]
  IN  IF c.state = "WAIT_IN_ZLP" THEN CtrlInit(EndOfRequest(c))
      ELSE IF c.size # c.trans THEN SendPiece(c)
      ELSE IF c.req.len = e.prev \/ c.short THEN SendZlpOut(e)
      ELSE SendPiece(e)                        \* over_under_run is NULL

\* Mutants of Accepted: the count of the request before goes on; an old NAK is
\* taken for one of this request.
AcceptedCountsOn(d) ==
  LET c == [d EXCEPT !.prev = 0]
  IN  IF d.req.dir = "in" THEN InSent([c EXCEPT !.state = "DATA_IN"])
      ELSE IF d.req.len = 0 THEN SendZlpIn(d)
      ELSE [c EXCEPT !.state = "DATA_OUT", !.nakin = FALSE, !.nakinE = TRUE]

AcceptedOldNak(d) ==
  LET c == [d EXCEPT !.prev = 0, !.trans = 0]
  IN  IF d.req.dir = "in" THEN InSent([c EXCEPT !.state = "DATA_IN"])
      ELSE IF d.req.len = 0 THEN SendZlpIn(d)
      ELSE [c EXCEPT !.state = "DATA_OUT", !.nakinE = TRUE]

Accepted(d) ==
  LET c == [d EXCEPT !.prev = 0, !.trans = 0]
  IN  IF d.req.dir = "in" THEN InSent([c EXCEPT !.state = "DATA_IN"])
      ELSE IF d.req.len = 0 THEN SendZlpIn(d)
      ELSE [c EXCEPT !.state = "DATA_OUT", !.nakin = FALSE, !.nakinE = TRUE]

\* Halting an endpoint aborts it first, which switches its interrupt off; for
\* endpoint 0 nothing but a bus reset switches it on again.
Halted(d) ==
  IF d.req.halt = "none" THEN d
  ELSE [d EXCEPT !.intE = FALSE, !.stall = @ \/ d.req.halt = "stall"]

\* Mutant of SetupReceived: a status stage that the SETUP hides is forgotten.
SetupReceivedForgets(d, r) ==
  LET a == IF d.state = "SETUP" THEN d ELSE CtrlInit(d)
      b == [a EXCEPT !.req = r, !.size = r.pay, !.call = r.call,
                     !.rxstp = FALSE, !.calls = 0, !.status = FALSE,
                     !.last = [call |-> a.req.call, calls |-> a.calls,
                               status |-> a.status]]
  IN  IF r.ok THEN Accepted(Halted(b)) ELSE StallData(b)

\* A packet of another length than 8 has the effects of a refused request.
SetupReceived(d, r) ==
  LET a == IF d.state = "SETUP" THEN d ELSE CtrlInit(EndOfRequest(d))
      b == [a EXCEPT !.req = r, !.size = r.pay, !.call = r.call,
                     !.rxstp = FALSE, !.calls = 0, !.status = FALSE,
                     !.last = [call |-> a.req.call, calls |-> a.calls,
                               status |-> a.status]]
  IN  IF r.ok THEN Accepted(Halted(b)) ELSE StallData(b)

\* Mutant of DataReceived: a packet larger than the rest of the buffer is taken.
DataReceivedAll(d) ==
  LET c    == [d EXCEPT !.trans = @ + d.outLen, !.rxout = FALSE]
      done == d.outLen # CtrlSize \/ d.req.len <= c.prev + c.trans
  IN  IF done THEN SendZlpIn([c EXCEPT !.size = c.trans])
      ELSE IF c.size = c.trans THEN StallData(c)
      ELSE [c EXCEPT !.nakin = FALSE, !.nakinE = TRUE]

DataReceived(d) ==
  LET n    == AtMost(d.size - d.trans, d.outLen)
      c    == [d EXCEPT !.trans = @ + n, !.rxout = FALSE]
      done == n # CtrlSize \/ d.req.len <= c.prev + c.trans
  IN  IF done THEN SendZlpIn([c EXCEPT !.size = c.trans])
      ELSE IF c.size = c.trans THEN StallData(c)      \* over_under_run is NULL
      ELSE [c EXCEPT !.nakin = FALSE, !.nakinE = TRUE]

OutReceived(d) ==
  IF d.state = "DATA_OUT" THEN DataReceived(d)
  ELSE IF d.state \in {"DATA_IN", "WAIT_OUT_ZLP"} THEN CtrlInit(EndOfRequest(d))
  ELSE CtrlInit(StallData(d))

Underflow(d) ==
  IF d.rxout THEN d
  ELSE IF d.state = "DATA_OUT" THEN SendZlpIn(d)
  ELSE [d EXCEPT !.stall = @ \/ d.state = "WAIT_OUT_ZLP"]

Overflow(d) ==
  IF d.txin THEN d
  ELSE [d EXCEPT !.stall = @ \/ d.state = "WAIT_IN_ZLP"]

-----------------------------------------------------------------------------
(* The interrupt: udd_ctrl_interrupt().                                    *)

Pending(d) ==
  \/ d.rxstp
  \/ d.rxout
  \/ d.txin /\ d.inE
  \/ d.nakin /\ d.nakinE
  \/ d.nakout /\ d.nakoutE

\* The order in which the interrupt looks at the flags.
Event(d) ==
  IF d.rxstp THEN "setup"
  ELSE IF d.txin /\ d.inE THEN "in"
  ELSE IF d.rxout THEN "out"
  ELSE IF d.nakout THEN "nakout"
  ELSE "nakin"

\* The handler looks at endpoint 0 whatever interrupt of the USB called it, so an
\* event is handled, by chance, while endpoint 0's own interrupt is off.
Handle(e, next) ==
  /\ Pending(dev)
  /\ Event(dev) = e
  /\ dev' = next
  /\ UNCHANGED host

\* By default the interrupts on NAK are disabled.
Quiet(d) == [d EXCEPT !.nakinE = FALSE, !.nakoutE = FALSE]

OnSetup == Handle("setup", SetupReceived(Quiet(dev), host.req))

OnInSent == Handle("in", InSent(Quiet(dev)))

OnOutReceived == Handle("out", OutReceived(Quiet(dev)))

OnNakOut == Handle("nakout", Overflow([Quiet(dev) EXCEPT !.nakout = FALSE]))

OnNakIn == Handle("nakin", Underflow([Quiet(dev) EXCEPT !.nakin = FALSE]))

Interrupt == OnSetup \/ OnInSent \/ OnOutReceived \/ OnNakOut \/ OnNakIn

-----------------------------------------------------------------------------
(* The host and the controller's side of the bus.                          *)

FirstStage(r) == IF r.len = 0 THEN "statusIn" ELSE r.dir

\* The controller accepts a SETUP whatever the endpoint does: it drops the
\* packet that waits to be sent and takes back the STALL.
Setup(r) ==
  /\ host.stage = "idle" \/ "abort" \in Liberties
  /\ host' = [stage |-> FirstStage(r), req |-> r, n |-> 0, orderly |-> TRUE]
  /\ dev' = [dev EXCEPT !.rxstp = TRUE, !.txin = TRUE, !.pkt = NoPacket,
                      !.stall = FALSE]

Stalled ==
  /\ host.stage # "idle"
  /\ dev.stall
  /\ host' = [host EXCEPT !.stage = "idle"]
  /\ UNCHANGED dev

\* The host asks for a packet and there is none, or the SETUP is in the bank.
NakIn ==
  /\ host.stage \in {"in", "statusIn"}
  /\ ~dev.stall /\ (dev.txin \/ dev.rxstp)
  /\ dev' = [dev EXCEPT !.nakin = TRUE]
  /\ UNCHANGED host

TakeIn ==
  /\ host.stage \in {"in", "statusIn"}
  /\ ~dev.stall /\ ~dev.txin /\ ~dev.rxstp
  /\ LET got  == AtMost(host.req.len, host.n + dev.pkt.n)
         over == dev.pkt.n < CtrlSize \/ got = host.req.len
     IN  IF host.stage = "in"
         THEN /\ host' = [host EXCEPT !.n = got, !.stage = IF over THEN "statusOut" ELSE @]
              /\ dev' = [dev EXCEPT !.txin = TRUE, !.pkt = NoPacket]
         ELSE /\ host' = [host EXCEPT !.stage = "idle"]
              /\ dev' = [dev EXCEPT !.txin = TRUE, !.pkt = NoPacket, !.status = TRUE]

\* Bytes of the next OUT packet of an orderly host; a host that goes on after
\* the last byte sends full packets.
Due == IF host.stage = "statusOut" THEN 0
       ELSE IF host.n = host.req.len THEN CtrlSize
       ELSE AtMost(CtrlSize, host.req.len - host.n)

\* A packet that waits to be sent leaves no room for OUT data; an empty packet
\* needs none.
Room(n) == ~dev.rxstp /\ ~dev.rxout /\ (dev.txin \/ n = 0)

NakOut ==
  /\ host.stage \in {"out", "statusOut"}
  /\ ~dev.stall /\ ~Room(Due)
  /\ dev' = [dev EXCEPT !.nakout = TRUE]
  /\ UNCHANGED host

SendOut(n) ==
  /\ host.stage = "out"
  /\ \/ n = Due
     \/ n < Due /\ "early" \in Liberties
     \/ n > Due /\ "extra" \in Liberties
  /\ ~dev.stall /\ Room(n)
  /\ dev' = [dev EXCEPT !.rxout = TRUE, !.outLen = n]
  /\ LET sent == AtMost(host.req.len, host.n + n)
     IN  host' = [host EXCEPT !.n = sent, !.orderly = @ /\ n = Due,
                              !.stage = IF n < Due \/ sent = host.req.len
                                        THEN "statusIn" ELSE @]

SendStatus ==
  /\ host.stage = "statusOut"
  /\ ~dev.stall /\ Room(0)
  /\ dev' = [dev EXCEPT !.rxout = TRUE, !.outLen = 0, !.status = TRUE]
  /\ host' = [host EXCEPT !.stage = "idle"]

\* What becomes of the next token of an orderly host.
Token == Stalled \/ NakIn \/ TakeIn \/ NakOut \/ SendOut(Due) \/ SendStatus

LeaveEarly ==
  /\ "early" \in Liberties
  /\ host.stage \in {"in", "out"}
  /\ host' = [host EXCEPT !.orderly = FALSE,
                          !.stage = IF @ = "in" THEN "statusOut" ELSE "statusIn"]
  /\ UNCHANGED dev

GoOn ==
  /\ "extra" \in Liberties
  /\ host.stage \in {"statusIn", "statusOut"}
  /\ host.req.len > 0
  /\ host' = [host EXCEPT !.orderly = FALSE, !.stage = host.req.dir]
  /\ UNCHANGED dev

\* A bus reset clears the endpoint; udd_interrupt() then initialises it and
\* switches its interrupt on.  The request is not read again before the next
\* SETUP and is forgotten here.
BusReset ==
  /\ dev' = [CtrlInit(Quiet(dev)) EXCEPT
               !.rxstp = FALSE, !.txin = TRUE, !.pkt = NoPacket, !.nakin = FALSE, !.nakout = FALSE,
               !.stall = FALSE, !.intE = TRUE, !.req = NoRequest, !.calls = 0,
               !.status = FALSE]
  /\ host' = [stage |-> "idle", req |-> NoRequest, n |-> 0, orderly |-> TRUE]

-----------------------------------------------------------------------------
Init ==
  /\ dev = [state |-> "SETUP", req |-> NoRequest, size |-> 0, trans |-> 0,
            prev |-> 0, short |-> FALSE, call |-> FALSE,
            rxstp |-> FALSE, rxout |-> FALSE, txin |-> TRUE,
            nakin |-> FALSE, nakout |-> FALSE,
            inE |-> FALSE, nakinE |-> FALSE, nakoutE |-> FALSE, stall |-> FALSE,
            intE |-> TRUE, pkt |-> NoPacket, outLen |-> 0, calls |-> 0, status |-> FALSE,
            last |-> [call |-> FALSE, calls |-> 0, status |-> FALSE]]
  /\ host = [stage |-> "idle", req |-> NoRequest, n |-> 0, orderly |-> TRUE]

Next ==
  \/ Interrupt
  \/ \E r \in Requests : Setup(r)
  \/ Token
  \/ \E n \in 0 .. CtrlSize : SendOut(n)
  \/ LeaveEarly \/ GoOn \/ BusReset

Spec == Init /\ [][Next]_vars

\* The interrupt is taken when it is pending and enabled, and a host that has
\* begun a stage repeats its tokens until they are answered.
Fairness == WF_vars(dev.intE /\ Interrupt) /\ WF_vars(Token)

FairSpec == Spec /\ Fairness

-----------------------------------------------------------------------------
(* Properties.                                                             *)

Device ==
  [state : States, req : Request, size : Nat, trans : Nat, prev : Nat,
   short : BOOLEAN, call : BOOLEAN,
   rxstp : BOOLEAN, rxout : BOOLEAN, txin : BOOLEAN,
   nakin : BOOLEAN, nakout : BOOLEAN,
   inE : BOOLEAN, nakinE : BOOLEAN, nakoutE : BOOLEAN, stall : BOOLEAN,
   intE : BOOLEAN, pkt : [req : Request, off : Nat, n : 0 .. CtrlSize], outLen : 0 .. CtrlSize,
   calls : Nat, status : BOOLEAN,
   last : [call : BOOLEAN, calls : Nat, status : BOOLEAN]]

HostTyped == host \in [stage : Stages, req : Request, n : Nat, orderly : BOOLEAN]

\* The statics, the endpoint's registers and the host have their types; no
\* packet is longer than the endpoint.
TypeOK == dev \in Device /\ HostTyped

\* The driver neither reads past the payload it was given to send nor writes past
\* the buffer it was given to fill, whatever the host sends.
StaysInPayload ==
  dev.req.ok /\ dev.req.len > 0 => dev.trans <= dev.req.pay

\* The assertion at the head of udd_ctrl_in_sent(): when the interrupt finds a
\* packet sent, the driver is in a data stage IN or waits for its empty packet.
InSentExpected ==
  Pending(dev) /\ Event(dev) = "in" => dev.state \in {"DATA_IN", "WAIT_IN_ZLP"}

\* No handler leaves its buffers or fails its assertion.
HandlersSafe == StaysInPayload /\ InSentExpected

\* Whatever happened before, the packet an orderly host is about to take is the
\* next piece of the answer to its own request, and the status packet is empty.
NextPieceOfAnswer ==
  (host.orderly /\ ~dev.rxstp /\ ~dev.txin) =>
     /\ host.stage = "in" =>
          dev.pkt = [req |-> host.req, off |-> host.n,
                     n |-> AtMost(host.req.pay - host.n, CtrlSize)]
     /\ host.stage = "statusIn" => dev.pkt.n = 0

\* An orderly host has the whole answer when it begins the status stage.
AnswerWhole ==
  (host.orderly /\ host.stage = "statusOut") => host.n = host.req.pay

\* The answer of an orderly request is whole, piece by piece.
AnswerSent == NextPieceOfAnswer /\ AnswerWhole

\* The callback runs at most once for a request, and it has run when the next
\* request is taken up if the status stage took place.
CallbackOnce ==
  /\ dev.calls <= 1 /\ dev.last.calls <= 1
  /\ dev.last.call /\ dev.last.status => dev.last.calls = 1

\* A request that was accepted, and whose data fit the buffer, is not stalled as
\* long as the host keeps to the protocol, whatever it did before; save the
\* request that halts endpoint 0, which the firmware accepts and then stalls.
AcceptedNotStalled ==
  (/\ host.orderly /\ host.stage # "idle"
   /\ host.req.ok /\ (host.req.pay = host.req.len \/ host.req.dir = "in")
   /\ host.req.halt # "stall")
  => ~dev.stall

\* A request the host goes through in order ends: with its status stage or with
\* a STALL.  (A host may abort requests for ever, but then it sends SETUPs.)
\* After a halt of endpoint 0 nothing is promised until a bus reset.
RequestEnds ==
  []<>(host.stage = "idle" \/ ~host.orderly \/ dev.rxstp \/ ~dev.intE)
=============================================================================
