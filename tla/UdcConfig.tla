----------------------------- MODULE UdcConfig -----------------------------
(***************************************************************************)
(* The device's configuration (udc.c): which interfaces are enabled, the   *)
(* endpoints they allocate in the controller (udd_ep_alloc, udd_ep_free),  *)
(* the transfers that run on them, and what becomes of all that under the  *)
(* host's requests, a bus reset and the main loop's own udd_ep_run().      *)
(*                                                                         *)
(* Requests and transfer ends are handled in the USB interrupt, a step     *)
(* each.  The main loop starts the serial port's reception outside any     *)
(* critical section: udd_ep_run() looks at the endpoint in one step and    *)
(* takes its job in another.  What a transfer carries is in the modules of *)
(* the interfaces.                                                         *)
(***************************************************************************)
EXTENDS Integers, FiniteSets

CONSTANTS
  NumIfaces,  \* USB_DEVICE_NB_INTERFACE; interfaces are 0 .. NumIfaces - 1
  MaxEp,      \* USB_DEVICE_MAX_EP; the control endpoint is not among them
  EpsOf,      \* EpsOf[i]: the endpoints in interface i's descriptor
  Listens,    \* endpoints on which enable() starts a reception
  Reports,    \* endpoints of reports, sent when there is one
  Data,       \* the serial port's data interface,
  TxEp,       \* its endpoint to the host
  RxEp,       \* and the one from the host
  Word        \* 2^8: udi_cdc_nb_data_enabled wraps here

Ifaces == 0 .. NumIfaces - 1
Eps == 1 .. MaxEp

EpsIn(I) == UNION {EpsOf[i] : i \in I}

ASSUME UdcConfigAssumption ==
  /\ NumIfaces \in Nat /\ MaxEp \in Nat
  /\ EpsOf \in [Ifaces -> SUBSET Eps]
  /\ \A i, j \in Ifaces : i # j => EpsOf[i] \cap EpsOf[j] = {}
  /\ Data \in Ifaces
  /\ TxEp \in EpsOf[Data] /\ RxEp \in EpsOf[Data] /\ TxEp # RxEp
  /\ Listens \subseteq EpsIn(Ifaces) /\ RxEp \in Listens /\ TxEp \notin Listens
  /\ Reports \subseteq Eps \ {TxEp} /\ Reports \cap Listens = {}
  /\ Word \in Nat /\ Word > 2

VARIABLES
  dev,   \* the device: see Device
  main,  \* the main loop in udi_cdc_rx_start(): "idle", "run" (bound to call
         \* udd_ep_run()) or "claim" (past that one's check)
  ok     \* ghost: the last request was accepted

vars == <<dev, main, ok>>

\* cfg: udc_num_configuration.  addr: an address is set.  on: endpoints enabled
\* in the controller.  halt: endpoints with STALLRQ.  busy: udd_ep_job[].busy.
\* nb, running: udi_cdc_nb_data_enabled and udi_cdc_data_running.  tx:
\* udi_cdc_tx_trans_ongoing.  rx: "new" since power on; "going" while
\* udi_cdc_rx_trans_ongoing; "ready" when it is not and both buffers hold bytes.
Device ==
  [cfg : {0, 1}, addr : BOOLEAN, on : SUBSET Eps, halt : SUBSET Eps,
   busy : SUBSET Eps, nb : 0 .. Word - 1, running : BOOLEAN, tx : BOOLEAN,
   rx : {"new", "going", "ready"}]

-----------------------------------------------------------------------------
(* The driver's endpoints.                                                 *)

\* udd_ep_run()'s check.
CanRun(d, e) == e \in d.on /\ e \notin d.halt

\* udd_ep_run() where nothing comes between its check and its claim.
Run(d, e) == IF CanRun(d, e) THEN [d EXCEPT !.busy = @ \cup {e}] ELSE d

\* Mutant of Free: the loop ends after the first endpoint.
FreeFirst(d, S) ==
  LET F == {e \in S : \A k \in S : e <= k}
  IN  [d EXCEPT !.on = @ \ F, !.halt = @ \ F, !.busy = @ \ F]

\* Disabling an endpoint resets its registers, the STALL request with them.
\* The callback of an aborted job finds the endpoint off and starts no other.
Free(d, S) == [d EXCEPT !.on = @ \ S, !.halt = @ \ S, !.busy = @ \ S]

\* Mutant of Alloc: the jobs of the endpoints above are not run again.
AllocNoRerun(d, A) ==
  [d EXCEPT !.on = @ \cup A,
            !.halt = {e \in @ : \A a \in A : e < a},
            !.busy = {e \in @ : \A a \in A : e < a}]

\* The controller's memory is handed out in the order of the endpoints: those
\* above the new ones are turned off and on again, which takes back their STALL
\* requests, and their jobs are run anew.
Alloc(d, A) ==
  [d EXCEPT !.on = @ \cup A,
            !.halt = {e \in @ : \A a \in A : e < a}]

-----------------------------------------------------------------------------
(* Interfaces, off and on.                                                 *)

\* Mutants of IfaceDisable: the count is not a byte; the port is still said to run.
IfaceDisableSigned(d, I) ==
  IF Data \in I
  THEN [Free(d, EpsIn(I)) EXCEPT !.nb = @ - 1, !.running = FALSE]
  ELSE Free(d, EpsIn(I))

IfaceDisableRuns(d, I) ==
  IF Data \in I
  THEN [Free(d, EpsIn(I)) EXCEPT !.nb = (@ - 1) % Word]
  ELSE Free(d, EpsIn(I))

IfaceDisable(d, I) ==
  IF Data \in I
  THEN [Free(d, EpsIn(I)) EXCEPT !.nb = (@ - 1) % Word, !.running = FALSE]
  ELSE Free(d, EpsIn(I))

\* An endpoint is on already, or a job of before would be run again and keep
\* enable() from starting its own.
Refuses(d, i) ==
  \/ EpsOf[i] \cap d.on # {}
  \/ EpsOf[i] \cap Listens \cap d.busy # {}

\* The endpoints of i up to one that is on already, which ends the loop.
Taken(d, i) == {e \in EpsOf[i] : \A k \in EpsOf[i] \cap d.on : e < k}

\* Mutant of DataEnable: the count starts from where it was.
DataEnableCounts(d, whole, zlp) ==
  LET c == [d EXCEPT !.tx = zlp, !.rx = "going"]
      n == IF whole THEN (d.nb + 1) % Word ELSE d.nb
      r == IF zlp THEN Run(c, TxEp) ELSE c
  IN  [r EXCEPT !.nb = n, !.running = @ \/ (whole /\ n = 1)]

\* udi_cdc_data_enable(): the count is set to 0, and to 1 once the reception
\* runs; the transmitter may find it time for an empty packet.
DataEnable(d, whole, zlp) ==
  LET c == [d EXCEPT !.tx = zlp, !.rx = "going"]
      r == IF zlp THEN Run(c, TxEp) ELSE c
  IN  [r EXCEPT !.nb = IF whole THEN 1 ELSE 0,
                !.running = IF whole THEN TRUE ELSE @]

\* Interfaces I are enabled in order, up to the first that refuses.
IfaceEnable(d, I, zlp) ==
  LET R      == {i \in I : Refuses(d, i)}
      whole  == {i \in I : \A r \in R : i < r}
      tried  == {i \in I : \A r \in R : i <= r}
      called == {i \in tried : EpsOf[i] \cap d.on = {}}
      a      == Alloc(d, UNION {Taken(d, i) : i \in tried})
      b      == [a EXCEPT !.busy = @ \cup (Listens \cap EpsIn(called))]
  IN  IF Data \in called THEN DataEnable(b, Data \in whole, zlp) ELSE b

Accepts(d, I) == \A i \in I : ~Refuses(d, i)

\* Mutant of UdcReset: the loop stops before the last interface.
UdcResetShort(d) ==
  [(IF d.cfg # 0 THEN IfaceDisable(d, Ifaces \ {NumIfaces - 1}) ELSE d) EXCEPT !.cfg = 0]

UdcReset(d) ==
  [(IF d.cfg # 0 THEN IfaceDisable(d, Ifaces) ELSE d) EXCEPT !.cfg = 0]

-----------------------------------------------------------------------------
(* Requests.                                                               *)

Answer(b, d) == ok' = b /\ dev' = d /\ UNCHANGED main

\* Bad lengths and numbers, no address, not configured: nothing is touched.
Refuse == Answer(FALSE, dev)

SetAddress(b) == Answer(TRUE, [dev EXCEPT !.addr = b])

Unconfigure == dev.addr /\ Answer(TRUE, UdcReset(dev))

SetConfiguration(zlp) ==
  LET d == [UdcReset(dev) EXCEPT !.cfg = 1]
  IN  /\ dev.addr
      /\ Answer(Accepts(d, Ifaces), IfaceEnable(d, Ifaces, zlp))

SetInterface(i, zlp) ==
  LET d == IfaceDisable(dev, {i})
  IN  /\ dev.cfg # 0
      /\ Answer(Accepts(d, {i}), IfaceEnable(d, {i}, zlp))

\* The setting is looked for after the interface has been disabled.
SetBadSetting(i) ==
  /\ dev.cfg # 0
  /\ Answer(FALSE, IfaceDisable(dev, {i}))

\* So is the number of a test mode, after the device has been unconfigured.  (The
\* test modes themselves end with power off and are left out.)
BadTestMode == Answer(FALSE, UdcReset(dev))

\* Mutant of SetHalt: the job is not aborted.
SetHaltRuns(e) ==
  /\ e \in dev.on
  /\ Answer(TRUE, [dev EXCEPT !.halt = @ \cup {e}])

\* udd_ep_abort() kills the job and the banks, so that the STALL comes at once.
\* The callback of a report sends the report that waits, if one does, and the
\* request is refused.
SetHalt(e) ==
  /\ e \in dev.on
  /\ \/ Answer(TRUE, [dev EXCEPT !.halt = @ \cup {e}, !.busy = @ \ {e}])
     \/ /\ e \in Reports \cap dev.busy /\ CanRun(dev, e)
        /\ Answer(FALSE, dev)

-----------------------------------------------------------------------------
(* The end of a transfer.                                                  *)

\* What is left behind: the bootloader apart, the display's callback always runs
\* another transfer; the serial port's unless the other buffer is in use.
Ended(d, e) ==
  LET c == [d EXCEPT !.busy = @ \ {e}]
  IN  CASE e = RxEp -> {[c EXCEPT !.rx = "ready"], Run([c EXCEPT !.rx = "going"], e)}
        [] e = TxEp -> {[c EXCEPT !.tx = FALSE]}
        [] e \in Listens \ {RxEp} -> {Run(c, e)}
        [] OTHER -> {c, Run(c, e)}

TransferDone(e) ==
  /\ CanRun(dev, e) /\ e \in dev.busy
  /\ dev' \in Ended(dev, e)
  /\ UNCHANGED <<main, ok>>

\* A job is taken for one that waits for the end of the halt.  call_nohalt is the
\* transfer's callback, called without arguments: it may see any status and length.
ClearHalt(e) ==
  LET d == [dev EXCEPT !.halt = @ \ {e}]
  IN  /\ e \in dev.halt
      /\ ok' = TRUE
      /\ IF e \in d.busy
         THEN dev' \in Ended(d, e) \cup {[d EXCEPT !.busy = @ \ {e}]}
         ELSE dev' = d
      /\ UNCHANGED main

\* udi_hid_touch_move(), in a critical section.
SendReport(e) ==
  /\ e \in Reports \ dev.busy
  /\ dev' = Run(dev, e)
  /\ UNCHANGED <<main, ok>>

\* A start of frame finds it time for an empty packet.
StartOfFrame ==
  /\ dev.cfg # 0 /\ ~dev.tx
  /\ dev' = Run([dev EXCEPT !.tx = TRUE], TxEp)
  /\ UNCHANGED <<main, ok>>

\* The controller turns its endpoints off; jobs are killed, the device is
\* unconfigured, and the address is lost.
BusReset ==
  LET d == [dev EXCEPT !.on = {}, !.halt = {}, !.busy = {}, !.addr = FALSE]
  IN  /\ dev' = UdcReset(d)
      /\ UNCHANGED <<main, ok>>

-----------------------------------------------------------------------------
(* The main loop: udi_cdc_rx_start() after the last byte of a buffer.      *)

MainStart ==
  /\ main = "idle" /\ dev.rx = "ready"
  /\ dev' = [dev EXCEPT !.rx = "going"]
  /\ main' = "run"
  /\ UNCHANGED ok

MainCheck ==
  /\ main = "run"
  /\ main' = IF CanRun(dev, RxEp) THEN "claim" ELSE "idle"
  /\ UNCHANGED <<dev, ok>>

\* In a critical section; a job under way is left alone.
MainClaim ==
  /\ main = "claim"
  /\ dev' = [dev EXCEPT !.busy = @ \cup {RxEp}]
  /\ main' = "idle"
  /\ UNCHANGED ok

-----------------------------------------------------------------------------
Init ==
  /\ dev = [cfg |-> 0, addr |-> FALSE, on |-> {}, halt |-> {}, busy |-> {},
            nb |-> 0, running |-> FALSE, tx |-> FALSE, rx |-> "new"]
  /\ main = "idle"
  /\ ok = TRUE

Next ==
  \/ Refuse \/ Unconfigure \/ BadTestMode \/ BusReset
  \/ \E b \in BOOLEAN : SetAddress(b) \/ SetConfiguration(b)
  \/ \E i \in Ifaces : SetBadSetting(i) \/ \E b \in BOOLEAN : SetInterface(i, b)
  \/ \E e \in Eps : SetHalt(e) \/ ClearHalt(e) \/ TransferDone(e) \/ SendReport(e)
  \/ StartOfFrame
  \/ MainStart \/ MainCheck \/ MainClaim

Spec == Init /\ [][Next]_vars

-----------------------------------------------------------------------------
(* Properties.                                                             *)

\* The device, the main loop's place and the answer have their types.
TypeOK == dev \in Device /\ main \in {"idle", "run", "claim"} /\ ok \in BOOLEAN

\* Without a configuration every endpoint is off, the port is not running, and
\* nothing is under way but a reception the main loop began too late.
UnconfiguredMeansOff ==
  dev.cfg = 0 => dev.on = {} /\ ~dev.running /\ dev.busy \subseteq {RxEp}

\* However interfaces were switched, an interface has all its endpoints or none.
EndpointsTogether ==
  \A i \in Ifaces : EpsOf[i] \subseteq dev.on \/ EpsOf[i] \cap dev.on = {}

\* udi_cdc_getc() spins while the port is said to run: it is only said to run
\* when its endpoints are on and the one data interface is counted.
RunningIsTrue ==
  dev.running => EpsOf[Data] \subseteq dev.on /\ dev.nb = 1

\* A job is under way only on an endpoint that can move it.  (The serial port's
\* reception is the exception: the main loop may claim it too late.)
JobsUsable ==
  \A e \in dev.busy \ {RxEp} : CanRun(dev, e)

\* Whatever sequence of requests, settings, halts and resets came before, nothing
\* is left half-way: these four together.
NothingStranded ==
  UnconfiguredMeansOff /\ EndpointsTogether /\ RunningIsTrue /\ JobsUsable

\* Switching one interface moves the endpoints of others, and leaves each on or
\* off as it was, with its job.
OthersKeepRunning ==
  [][\A i \in Ifaces :
       (SetBadSetting(i) \/ \E b \in BOOLEAN : SetInterface(i, b)) =>
          /\ dev'.on \ EpsOf[i] = dev.on \ EpsOf[i]
          /\ dev'.busy \ EpsOf[i] = dev.busy \ EpsOf[i]]_vars

\* A configuration that is accepted is there as a whole, whatever state an earlier
\* one, or an interface switched off by a bad setting, left behind.
AcceptedIsWhole ==
  [][(\E b \in BOOLEAN : SetConfiguration(b)) /\ ok' =>
       /\ EpsIn(Ifaces) \subseteq dev'.on /\ dev'.halt = {}
       /\ dev'.running
       /\ Listens \subseteq dev'.busy]_vars

\* A device that has an address takes its configuration, and a configured one its
\* interfaces' settings: nothing left over from before stands in the way, but a
\* reception the main loop claimed while no configuration was set.
NeverRefused ==
  [][/\ (\E b \in BOOLEAN : SetConfiguration(b))
          => ok' \/ (dev.cfg = 0 /\ RxEp \in dev.busy)
     /\ \A i \in Ifaces, b \in BOOLEAN : SetInterface(i, b) => ok']_vars

\* udd.h says of the callback that ClearHalt calls: "Registered by routine
\* udd_ep_wait_stall_clear()", which no code calls; it is never called.
NoHaltCallback ==
  \A e \in Eps : ~(e \in dev.busy /\ e \in dev.halt)
=============================================================================
