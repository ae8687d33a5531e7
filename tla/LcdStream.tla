------------------------------ MODULE LcdStream ------------------------------
(***************************************************************************)
(* The vendor interface of the composite device (udi_vendor.c): the host   *)
(* drives the panel through one bulk OUT endpoint.  A transfer is either a *)
(* command, which the USB controller's DMA puts in one of two receive      *)
(* buffers and the transfer callback interprets, or pixels a bitblt        *)
(* command announced, which the DMA writes straight to the panel.  Nothing *)
(* in a packet says which of the two it is: the firmware decides when it   *)
(* arms the DMA, from the count of bytes the bitblt still has to receive.  *)
(*                                                                         *)
(* It arms 512 bytes at either speed.  At high speed that is one packet;   *)
(* at full speed a packet has 64, and a transfer goes on from full packet  *)
(* to full packet until a short one ends it, all of them to one target.    *)
(*                                                                         *)
(* The steps are those that interleave in the hardware: the host puts a    *)
(* packet in an endpoint bank, the DMA moves the oldest packet to its      *)
(* target, and the USB interrupt handles one event (the end of a transfer, *)
(* a control request, a bus reset).  Handlers do not nest.                 *)
(***************************************************************************)
EXTENDS Integers, Sequences

CONSTANTS
  PacketSize,  \* bytes in a full packet: UDI_VENDOR_EPS_SIZE_BULK_HS at high
               \* speed, UDI_VENDOR_EPS_SIZE_BULK_FS at full speed
  XferSize,    \* UDI_VENDOR_EPS_SIZE_BULK_HS: bytes of a receive buffer, and of
               \* every transfer
  Banks,       \* banks of the endpoint: packets accepted ahead of the DMA
  BltLen,      \* bytes of a bitblt header
  AreaOff,     \* offset of its width, the first of the fields that matter
  BootLen,     \* bytes of a bootloader command
  Areas,       \* products width * height * 2 a bitblt header can carry
  Word,        \* 2^32: the byte counter wraps here
  HostKinds,   \* how the host may use the endpoint, see below
  DrawnBound   \* BOUND: the host starts no command when the panel got more bytes

ASSUME LcdStreamAssumption ==
  /\ PacketSize \in Nat /\ XferSize \in Nat
  /\ \E k \in 1 .. XferSize : XferSize = k * PacketSize
  /\ BltLen \in Nat /\ AreaOff \in Nat
  /\ BootLen \in Nat
  /\ 0 < AreaOff /\ AreaOff < BootLen /\ BootLen <= BltLen /\ BltLen <= PacketSize
  /\ Banks \in Nat \ {0}
  /\ Word \in Nat /\ XferSize < Word
  /\ Areas \subseteq Nat
  /\ 0 \in Areas
  /\ DrawnBound \in Nat
  \* "framed": every command in a transfer of its own, then exactly the pixels it
  \* announced, in transfers it ends: with a packet that is not full, or by the
  \* 512th byte.  At high speed every packet ends one.  "zlp": the same, but it ends
  \* them as USB has it, after a full packet always with an empty one.  "wild": any
  \* packet.
  /\ HostKinds \subseteq {"framed", "zlp", "wild"}

VARIABLES
  rx,     \* the file's statics: ongoing, sel, pos, nb and toGo
  rxBuf,  \* contents of rx_buffer[0..1], as the callback reads them
  ep,     \* the endpoint as the controller sees it: off, on or halted
  job,    \* the endpoint's udd_ep_job entry: busy, its DMA target, the bytes moved,
          \* and whether the transfer has ended and its interrupt is pending
  line,   \* packets in the endpoint's banks, in order
  owed,   \* pixel bytes the host still has to send for its last bitblt
  open,   \* bytes the host has sent of a transfer that it has not ended
  panel,  \* bytes of the window opened last, and bytes written to it since
  host,   \* ghost: the kind of host, chosen once
  cpu     \* "run", "boot" (left for the bootloader) or "spin" (stuck)

vars == <<rx, rxBuf, ep, job, line, owed, open, panel, host, cpu>>

\* "other" stands for CMD_SET_BACKLIGHT, which only sets the duty cycle of the
\* light, and for every command byte the firmware ignores.
Ops == {"blt", "boot", "other"}
Buffers == {0, 1}
Lcd == 2                             \* the DMA target LCD_DATA

\* What a buffer holds: the command byte, the product of its width and height
\* fields times two, and whether the bytes after the command are the magic.
Contents == [op : Ops \cup {"pix"}, area : Areas, magic : BOOLEAN]

\* "before" and "at" are what the host owed, and had sent of its transfer, when it
\* sent the packet: ghosts.
Packets == [op : Ops \cup {"pix"}, area : Areas, magic : BOOLEAN,
            n : 0 .. PacketSize, before : Nat, at : 0 .. XferSize]

\* What a host may put at the head of a packet.
Commands == {c \in Contents : /\ c.op # "pix"
                              /\ c.op # "blt" => c.area = 0
                              /\ c.op # "boot" => ~c.magic}

Blank == [op |-> "other", area |-> 0, magic |-> FALSE]

Packet(c, n) == [op |-> c.op, area |-> c.area, magic |-> c.magic,
                 n |-> n, before |-> owed, at |-> open]

\* A packet of n bytes that comes after "at" bytes ends the transfer.
Ends(at, n) == n < PacketSize \/ at + n = XferSize

NoJob == [busy |-> FALSE, target |-> Lcd, fill |-> 0, ended |-> FALSE]

-----------------------------------------------------------------------------
(* The host                                                                *)

\* The bytes of a transfer the host has yet to end, after a packet of n bytes: one
\* that ends as USB has it does not know of the 512.
LeftOpen(at, n) == CASE host = "wild" \/ n < PacketSize -> 0
                     [] host = "zlp" /\ n = PacketSize -> PacketSize
                     [] OTHER -> IF Ends(at, n) THEN 0 ELSE at + n

\* The endpoint takes a packet while one of its banks is free.
Accept(p) ==
  /\ ep = "on"
  /\ Len(line) < Banks
  /\ line' = Append(line, p)
  /\ open' = LeftOpen(open, p.n)
  /\ UNCHANGED <<rx, rxBuf, ep, job, panel, host, cpu>>

ProperLen(op) == CASE op = "blt" -> BltLen
                   [] op = "boot" -> BootLen
                   [] OTHER -> 1

HostCommand(c, n) ==
  /\ 0 < n
  /\ panel.drawn <= DrawnBound \* BOUND
  /\ host # "wild" => /\ owed = 0 /\ n >= ProperLen(c.op) /\ c.area < Word
                      /\ open = 0 /\ LeftOpen(0, n) = 0
  /\ Accept(Packet(c, n))
  /\ owed' = IF host = "wild" \/ c.op # "blt" THEN owed ELSE c.area

\* The next pixels of the bitblt, however the host cuts them up.
HostPixels(n) ==
  /\ 0 < n /\ n <= owed
  /\ Accept(Packet([Blank EXCEPT !.op = "pix"], n))
  /\ owed' = owed - n

\* An empty packet, to end a transfer that full packets left open.
HostZlp ==
  /\ host # "wild" => open > 0
  /\ Accept(Packet(Blank, 0))
  /\ UNCHANGED owed

-----------------------------------------------------------------------------
(* The DMA                                                                 *)

\* The first packet of a transfer overwrites its n bytes of the buffer: an empty
\* one nothing, a short one not all of the width and height.  The magic is read
\* only in a transfer that brought it.  What follows a full packet lies beyond.
Overwritten(old, p, fill) ==
  IF p.n = 0 \/ fill > 0 THEN {old}
  ELSE [op : {p.op},
        area : IF p.n >= BltLen THEN {p.area}
               ELSE IF p.n <= AreaOff THEN {old.area} ELSE Areas,
        magic : {p.n >= BootLen /\ p.magic}]

\* The oldest packet goes where the transfer was aimed.  One that is not full or
\* the last byte asked for ends the transfer.
DmaMove ==
  LET p == Head(line)
  IN /\ cpu = "run" /\ job.busy /\ ~job.ended /\ line # <<>>
     /\ job' = [job EXCEPT !.fill = @ + p.n, !.ended = Ends(job.fill, p.n)]
     /\ line' = Tail(line)
     /\ IF job.target = Lcd
        THEN /\ panel' = [panel EXCEPT !.drawn = @ + p.n]
             /\ UNCHANGED rxBuf
        ELSE /\ \E c \in Overwritten(rxBuf[job.target], p, job.fill) :
                  rxBuf' = [rxBuf EXCEPT ![job.target] = c]
             /\ UNCHANGED panel
     /\ UNCHANGED <<rx, ep, owed, open, host, cpu>>

-----------------------------------------------------------------------------
(* The firmware, in the USB interrupt                                      *)

NextBuffer(i) == IF i = 0 THEN 1 ELSE 0

RxFree(s) == ~s.ongoing /\ s.pos >= s.nb[s.sel]

\* Mutant of RxStart: the buffers are not swapped.
RxStartSameBuffer(s) ==
  IF RxFree(s) THEN [s EXCEPT !.pos = 0, !.ongoing = TRUE] ELSE s

\* Mutant of RxJob: the transfer is armed with the buffer selected after the swap.
RxJobNewBuffer(s, e) ==
  IF RxFree(s) /\ e = "on"
  THEN [NoJob EXCEPT !.busy = TRUE,
                     !.target = IF s.toGo = 0 THEN NextBuffer(s.sel) ELSE Lcd]
  ELSE NoJob

\* udi_lcd_rx_start(): the statics after it, and the job udd_ep_run() leaves.
RxStart(s) ==
  IF RxFree(s)
  THEN [s EXCEPT !.pos = 0, !.sel = NextBuffer(@), !.ongoing = TRUE]
  ELSE s

RxJob(s, e) ==
  IF RxFree(s) /\ e = "on"
  THEN [NoJob EXCEPT !.busy = TRUE, !.target = IF s.toGo = 0 THEN s.sel ELSE Lcd]
  ELSE NoJob

\* Mutant of Less: a signed counter.
LessSigned(togo, n) == togo - n

\* uint32_t arithmetic on udi_lcd_blt_bytes_to_go.
Less(togo, n) == IF n <= togo THEN togo - n ELSE togo + Word - n

\* The command branches of the callback: c is the buffer, n the transfer's length.
StartsBlt(s, c) == s.toGo = 0 /\ c.op = "blt"

StartsBoot(s, c, n) == s.toGo = 0 /\ c.op = "boot" /\ n >= BootLen /\ c.magic

\* Mutants of Received: the transfer is not marked ended when a bitblt starts; a
\* transfer of pixels is taken to be full; a short one is not counted.
ReceivedStillOngoing(s, c, n) ==
  [s EXCEPT !.toGo = IF StartsBlt(s, c) THEN c.area % Word
                     ELSE IF s.toGo = 0 THEN 0 ELSE Less(s.toGo, n),
            !.ongoing = StartsBlt(s, c)]

ReceivedFullPackets(s, c, n) ==
  [s EXCEPT !.toGo = IF StartsBlt(s, c) THEN c.area % Word
                     ELSE IF s.toGo <= XferSize THEN 0 ELSE s.toGo - XferSize,
            !.ongoing = FALSE]

ReceivedOnlyFull(s, c, n) ==
  [s EXCEPT !.toGo = IF StartsBlt(s, c) THEN c.area % Word
                     ELSE IF s.toGo = 0 \/ n < XferSize THEN s.toGo
                     ELSE Less(s.toGo, n),
            !.ongoing = FALSE]

\* The statics once the transfer is interpreted, before the endpoint is re-armed.
Received(s, c, n) ==
  [ongoing |-> FALSE, sel |-> s.sel, pos |-> s.pos,
   nb |-> [s.nb EXCEPT ![NextBuffer(s.sel)] = 0],
   toGo |-> IF StartsBlt(s, c) THEN c.area % Word
            ELSE IF s.toGo = 0 THEN 0 ELSE Less(s.toGo, n)]

\* udi_lcd_data_recevied() with status UDD_EP_TRANSFER_OK.  The bootloader
\* command sets the ISP fuse, masks interrupts and waits for the watchdog.
DataReceived ==
  LET n == job.fill
      c == rxBuf[NextBuffer(rx.sel)]
      s == Received(rx, c, n)
  IN /\ cpu = "run" /\ job.busy /\ job.ended
     /\ panel' = IF StartsBlt(rx, c) THEN [size |-> c.area, drawn |-> 0] ELSE panel
     /\ IF StartsBoot(rx, c, n)
        THEN /\ cpu' = "boot"
             /\ job' = NoJob
             /\ UNCHANGED rx
        ELSE /\ rx' = RxStart(s)
             /\ job' = RxJob(s, ep)
             /\ UNCHANGED cpu
     /\ UNCHANGED <<rxBuf, ep, line, owed, open, host>>

\* Bus reset, SET_CONFIGURATION 0: udd_ep_free() of the endpoint.  An aborted
\* transfer calls back with an error status, which changes nothing.
Disable ==
  /\ cpu = "run"
  /\ ep' = "off"
  /\ job' = NoJob /\ line' = <<>>
  /\ owed' = 0 /\ open' = 0
  /\ UNCHANGED <<rx, rxBuf, panel, host, cpu>>

\* SET_CONFIGURATION, SET_INTERFACE: the endpoint is freed and allocated, then
\* udi_vendor_enable().  The host starts its stream over.
Enable ==
  LET s == [ongoing |-> FALSE, sel |-> 0, pos |-> 0, nb |-> [rx.nb EXCEPT ![0] = 0],
            toGo |-> 0]
  IN /\ cpu = "run"
     /\ ep' = "on"
     /\ rx' = RxStart(s)
     /\ job' = RxJob(s, "on") /\ line' = <<>>
     /\ owed' = 0 /\ open' = 0
     /\ UNCHANGED <<rxBuf, panel, host, cpu>>

\* SET_FEATURE(ENDPOINT_HALT): udd_ep_abort(), then udd_ep_set_halt().  A transfer
\* that has ended is forgotten with its interrupt.  Packets still in a bank keep
\* udd_ep_abort() in its loop, unless killing an IN bank empties an OUT one too.
SetHalt ==
  /\ cpu = "run" /\ ep = "on"
  /\ \/ /\ ep' = "halted"
        /\ job' = NoJob /\ line' = <<>>
        /\ UNCHANGED cpu
     \/ /\ line # <<>>
        /\ cpu' = "spin"
        /\ UNCHANGED <<ep, job, line>>
  /\ UNCHANGED <<rx, rxBuf, owed, open, panel, host>>

\* CLEAR_FEATURE(ENDPOINT_HALT): no job waits for it, nothing else restarts.
ClearHalt ==
  /\ cpu = "run" /\ ep = "halted"
  /\ ep' = "on"
  /\ UNCHANGED <<rx, rxBuf, job, line, owed, open, panel, host, cpu>>

-----------------------------------------------------------------------------
Init ==
  /\ rx = [ongoing |-> FALSE, sel |-> 0, pos |-> 0, nb |-> [b \in Buffers |-> 0],
           toGo |-> 0]
  /\ rxBuf = [b \in Buffers |-> Blank]
  /\ ep = "off"
  /\ job = NoJob /\ line = <<>>
  /\ owed = 0 /\ open = 0
  /\ panel = [size |-> 0, drawn |-> 0]
  /\ host \in HostKinds
  /\ cpu = "run"

Host ==
  \/ \E c \in Commands, n \in 0 .. PacketSize : HostCommand(c, n)
  \/ \E n \in 0 .. PacketSize : HostPixels(n)
  \/ HostZlp

Next ==
  \/ Host
  \/ DmaMove
  \/ DataReceived
  \/ Disable
  \/ Enable
  \/ SetHalt
  \/ ClearHalt

Spec == Init /\ [][Next]_vars

\* The host sends the pixels it announced and ends their transfer, the controller
\* moves packets and raises its interrupt, and the interrupt is taken: nothing
\* masks it for long.
Fairness ==
  /\ WF_vars(\E n \in 0 .. PacketSize : HostPixels(n))
  /\ WF_vars(HostZlp)
  /\ WF_vars(DmaMove)
  /\ WF_vars(DataReceived)

FairSpec == Spec /\ Fairness

-----------------------------------------------------------------------------
(* Properties                                                              *)

TypeOK ==
  /\ rx \in [ongoing : BOOLEAN, sel : Buffers, pos : {0},
             nb : [Buffers -> {0}], toGo : 0 .. Word - 1]
  /\ rxBuf \in [Buffers -> Contents]
  /\ ep \in {"off", "on", "halted"}
  /\ job \in [busy : BOOLEAN, target : Buffers \cup {Lcd}, fill : 0 .. XferSize,
              ended : BOOLEAN]
  /\ line \in Seq(Packets)
  /\ owed \in Nat /\ open \in 0 .. XferSize
  /\ panel \in [size : Areas, drawn : Nat]
  /\ host \in HostKinds
  /\ cpu \in {"run", "boot", "spin"}

\* The transfer that is armed goes where its callback will look for it: the
\* buffer not selected when a command is due, the panel when pixels are.  The
\* two sides decide it at different times from the same count.
TargetIsWhatCallbackReads ==
  job.busy =>
    /\ rx.ongoing
    /\ job.target = IF rx.toGo = 0 THEN NextBuffer(rx.sel) ELSE Lcd

\* What both rest on: a transfer that is armed, on an endpoint that is on, and no
\* bytes in it at its start.
ArmedAndOn ==
  /\ job.busy => ep = "on"
  /\ ~job.busy => job = NoJob

\* What the host owed, and had sent of its transfer, before the packet the DMA moves
\* next.
Due == IF line = <<>> THEN owed ELSE Head(line).before

DueAt == IF line = <<>> THEN open ELSE Head(line).at

StepsAgree ==
  job.busy =>
    /\ DueAt = IF job.ended THEN 0 ELSE job.fill
    /\ rx.toGo > 0 => rx.toGo = job.fill + Due
    /\ rx.toGo = 0 /\ ~job.ended => job.fill = 0 /\ Due = 0
    /\ ~job.ended /\ line # <<>> /\ Head(line).n > 0 =>
         (Head(line).op = "pix") = (rx.toGo > 0)

PixelsFit ==
  /\ panel.drawn <= panel.size
  /\ job.busy /\ rx.toGo > 0 => panel.size = panel.drawn + rx.toGo - job.fill

\* With a framed host, the firmware and the host agree on the pixels still to
\* come and on where a transfer ends, whatever is in the banks: no pixel is read as
\* a command, no command drawn as pixels.  The bytes on the panel and the bytes
\* awaited make up the window of the bitblt, and the panel never gets a byte
\* beyond it.  At full speed this takes a host that ends its transfers: after
\* pixels whose last packet is full it must send an empty one, but not after 512
\* bytes.
InStep == host = "framed" => StepsAgree /\ PixelsFit

\* A bitblt the callback starts is one the host sent, in the transfer at hand, and
\* whose pixels it now owes, unless the host sends anything:
\* the "New cmd" of udi_vendor.c:211 is not what an earlier transfer left behind.
OnlyNewCommands ==
  LET c == rxBuf[NextBuffer(rx.sel)]
  IN host # "wild" /\ job.busy /\ job.ended /\ StartsBlt(rx, c) =>
       job.fill >= BltLen /\ c.area = Due

\* What is written to the panel after a bitblt's header are its pixels,
\* "[width*height*16bit pixels]" (displaycommands.h:34), and not the next command.
OnlyPixelsDrawn ==
  host # "wild" /\ job.busy /\ ~job.ended /\ job.target = Lcd /\ line # <<>> =>
    Head(line).op = "pix" \/ Head(line).n = 0

\* The firmware stops listening only when the endpoint is halted or freed, or
\* the firmware is left: every callback re-arms the endpoint.
StaysArmed ==
  [][job.busy /\ ep' = "on" /\ cpu' = "run" => job'.busy]_vars

\* A bitblt comes to its end, unless the endpoint is taken away from it.
BltFinishes ==
  host = "framed" /\ rx.toGo > 0 /\ job.busy ~> rx.toGo = 0 \/ ~job.busy \/ cpu # "run"

-----------------------------------------------------------------------------
(* Why StepsAgree is inductive for a framed host: the packets in the banks *)
(* are a chain, each sent when the host owed what the one before it left.  *)

PacketOK(p) ==
  CASE p.op = "pix" -> 0 < p.n /\ p.n <= p.before
    [] p.op # "pix" /\ p.n = 0 -> p.at > 0
    [] OTHER -> /\ p.before = 0 /\ p.n >= ProperLen(p.op) /\ p.area < Word
                /\ p.at = 0 /\ Ends(0, p.n)

After(p) == CASE p.op = "pix" -> p.before - p.n
              [] p.op # "pix" /\ p.n = 0 -> p.before
              [] OTHER -> IF p.op = "blt" THEN p.area ELSE 0

AfterAt(p) == IF Ends(p.at, p.n) THEN 0 ELSE p.at + p.n

Chain ==
  /\ \A i \in 1 .. Len(line) : PacketOK(line[i])
  /\ \A i \in 1 .. Len(line) - 1 : /\ line[i + 1].before = After(line[i])
                                   /\ line[i + 1].at = AfterAt(line[i])
  /\ line # <<>> => owed = After(line[Len(line)]) /\ open = AfterAt(line[Len(line)])

\* Transfers are made of full packets but for the last.
Whole(n) == \E k \in 0 .. XferSize : n = k * PacketSize

FullPackets ==
  /\ Whole(open) /\ (host = "framed" => open < XferSize)
  /\ job.busy /\ ~job.ended => Whole(job.fill) /\ job.fill < XferSize

\* The buffer the callback will read holds the command the host sent.
ReadsWhatWasSent ==
  job.busy /\ job.ended /\ job.target # Lcd =>
    LET c == rxBuf[job.target]
    IN /\ c.op # "pix" /\ job.fill >= ProperLen(c.op)
       /\ Due = IF c.op = "blt" THEN c.area ELSE 0
       /\ c.op = "blt" => c.area < Word

FramedInv ==
  /\ TypeOK /\ ArmedAndOn /\ TargetIsWhatCallbackReads /\ FullPackets
  /\ Chain /\ ReadsWhatWasSent /\ StepsAgree /\ PixelsFit

=============================================================================
