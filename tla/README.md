# A TLA+ model of the USB display's firmware

The repository is the firmware of a composite USB device on an AVR32 UC3: a
colour panel driven over a vendor interface, a serial port (CDC), a touch panel
(HID) and an unused generic HID interface. One file of this directory models one
part of it; TLC checks the models on small instances, and TLAPS proves the most
important properties for every value of their constants.

Paths below are relative to `src/Composite/src/`; `ASF/` is the part of Atmel's
framework the project carries and has modified.

## The system

There is one processor, no operating system, and two contexts:

* the **main program** (`main.cpp`), an endless loop that polls the touch panel
  and drains the serial port;
* the **USB interrupt** (`udd_interrupt()`), which runs everything else: control
  requests, the end of transfers, start-of-frame, bus reset. A second, short
  **touch interrupt** ends a read of the touch controller. Both have level 0, so
  handlers do not nest, and critical sections of the main program are
  `cpu_irq_save()` ... `cpu_irq_restore()`.

The USB controller's DMA moves packets on its own between the endpoints' banks
and memory, or, for pixels, straight to the panel's data port.

| Component | State it keeps | Operations | Talks to |
|---|---|---|---|
| Display stream, `udi_vendor.c` | two buffers, which is selected, bytes of the bitblt to come, transfer on-going | enable; transfer callback; re-arm | endpoint 1 OUT, panel, bootloader |
| Serial port RX, `udi_cdc.c` | two buffers, counts, selection, position, on-going, running | enable/disable; callback; `is_rx_ready`, `getc` | endpoint 4 OUT, main loop |
| Serial port TX, `udi_cdc.c` | two buffers, counts, selection, on-going, both-to-send, frame number | callback; start-of-frame; `putc`, `write_buf` | endpoint 3 IN, start-of-frame |
| Serial port control, `udi_cdc.c` | line coding, serial state, counters of enabled ports | class requests, notifications | endpoint 2 IN |
| Touch panel, `touch.c` | busy and complete flags, the last reading | start a read; interrupt; the two tests | SPI and its DMA, main loop |
| HID touch, `udi_hid_touch.c` | report waiting, report being sent, valid, on-going | move; send; sent-callback; enable | endpoint 5 IN, main loop |
| HID generic, `udi_hid_generic.c` | a report, on-going | send; set-report | endpoint 6 IN |
| USB device controller, `udc.c` | configuration number, device status, descriptors | standard requests; reset; start-of-frame | all interfaces, driver |
| USB driver, `usbb_device.c` | a job per endpoint, state of the control endpoint, sleep and clock flags | run, abort, allocate, free, halt; the interrupt | controller, DMA, callbacks |
| Panel, `lcdif*.h`, `lcdtext.h` | address window, cursor, fonts, colours | draw, bitblt, write text | panel's bus |
| Clocks, sleep, flash, GPIO, SPI, timers | registers, counters | set-up | - |

**What is hard here.** The two contexts share the serial port's and the HID
interface's statics, with critical sections around some accesses and not around
others. The DMA's target is decided before the packet exists and interpreted
after it arrived. Every callback may come from the end of a transfer, or from an
abort in the midst of a control request. Enabling one interface tears down and
restarts the transfers of others. Nothing in the display's stream marks a packet
as command or pixels.

**What makes each part correct.**

* Display stream: firmware and host agree on how many pixels are to come; what
  was armed is what the callback reads; pixels stay in their window; it never
  stops listening.
* Serial port, RX: a queue: nothing lost, repeated or out of order; reader and
  DMA never in the same buffer; reception never stops for good; `getc` returns.
* Serial port, TX: the same in the other direction; both-buffers-full keeps the
  order; a start-of-frame does not send half a buffer twice.
* Touch: no wait for a read that is not under way; the report being sent is not
  overwritten; the last move is not lost; one report per packet.
* USB device controller: an interface is disabled once for each time it was
  enabled; its endpoints are on exactly while it is; other interfaces' transfers
  survive its restart.
* USB driver: a job calls back exactly once; the control endpoint follows SETUP,
  data, status whatever the host does.

PROJECT.json lists every component, and under "hazards" the lines where these can
go wrong with the property that would catch it.

## The modules

### `LcdStream` (with `MCLcdStream`): the display stream

`rx` holds the file's statics (`ongoing`, `sel`, `pos`, `nb`, `toGo` for
`udi_lcd_blt_bytes_to_go`), `job` the endpoint's job: its DMA target, the bytes
moved so far (`fill`), and whether the transfer has ended and its interrupt is
pending (`ended`). `line` has the packets in the endpoint's banks, `panel` counts
the bytes of the window opened last and those drawn since. A packet is its
command, the product of width and height, whether the bootloader's magic is in
it, and its length.

A transfer is not a packet. The code arms `UDI_VENDOR_EPS_SIZE_BULK_HS` bytes
(512, here `XferSize`) at either speed (`udi_vendor.c:184,193`). At high speed
that is one full packet; at full speed a packet has 64 (`PacketSize`), and the
transfer goes on, to one target and with one callback, until a packet that is not
full or the 512th byte ends it (`Ends`).

`RxStart`/`RxJob` are the two halves of `udi_lcd_rx_start()`, `Received` and
`DataReceived` the callback, `Enable` is `udi_vendor_enable()` after the
endpoint was freed and allocated, `Disable` a reset, `SetHalt` and `ClearHalt`
the endpoint requests. `host`, chosen once among `HostKinds`, says what the host
does. "framed" sends each command in a transfer of its own and then exactly the
pixels it announced, cut up as it likes, and ends their last transfer: where full
packets left it open (`open`), with an empty one, and nowhere else. At high speed
this asks for no empty packet ever; at full speed it asks for one where the
pixels end on a 64-byte boundary that is not a 512-byte one. That is stricter
than what a driver does by itself, and the firmware needs it (see "What the
models show besides"). "zlp" ends its transfers as USB has it, after a last full
packet always with an empty one; "wild" sends anything. So one run asks of every
host what holds for every host, and of the framed one what holds for it. (Pixels
appended to the header's packet, as the comment of `displaycommands.h:34` may be
read, would be thrown away: a framed host does not send them.)

### `CdcRx` and `CdcFifo`: the receiving serial port

`CdcRx` has the RX statics (`rx`), the two buffers with their bytes, the job and
DMA, and the main loop (`main`), cut where interrupts may come: at the poll, the
check (the critical section of `udi_cdc_multi_getc()`), the read of the buffer,
the store of the position, the swap (critical section of `udi_cdc_rx_start()`)
and `udd_ep_run()`. `DataReceived` is the callback in the interrupt, `Enable`
and `Disable` are `udi_cdc_data_enable()`/`_disable()` with what is done to the
endpoint, `Reallocate` what `udd_ep_alloc()` of an endpoint of a lower number
does to this one.

`CdcFifo` is what either half of the port promises: bytes come out in the order
they were put in, each once, until the host takes the endpoint away. A receiver
then forgets the latest bytes (`Lost = "latest"`). `CdcRx` implements it:
`Pipe` maps the selected buffer from the position on, the other buffer if it was
received, what the DMA moved, and the banks to one sequence. The property
`IsFifo` is `CdcFifo`'s specification under that mapping.

The host may restart the port at any moment, also in the midst of
`udi_cdc_getc()`, between its check and its last use of its locals (`Midst`).
What happens then is the finding `cdc_stale`: bytes are lost and the count of
received bytes wraps. The ghost `stale` is true from such a restart, or stop, to
the next restart outside `getc`. `ReaderAndDmaApart`, `IsFifo` and `BytesMoveOn`
are stated for the time it is false, so they also say that one later restart
mends everything; `TypeOK`, `ReceptionAlive` and `GetcReturns` hold throughout.
`BytesMoveOn` says that `getc` comes to the store of a byte over and over while
the port has something to read and is on, and is not `stale`; that these are the
right bytes, each once, is `IsFifo`.

The line coding decides whether `getc` reads one byte or two. The host may
change it whenever the port is on, so each `getc` may find either (`TwoBytes`).

### `CdcTx`: the sending serial port

`tx` has the TX statics and the two buffers with their bytes, `sof` the frame's
number and its interrupt, `job` and `line` the transfer and the banks, `main` the
application's call, cut between the two critical sections of `udi_cdc_putc()`
and `udi_cdc_write_buf()`: the test for space (`Check`) and the store (`Store`).
`TxSend` is `udi_cdc_tx_send()`, an operator on the statics and the job, for the
start-of-frame, the end of a transfer and the enabling of the port call it:
`Waits` and `Rests` are its early returns, `Chosen` the choice between the two
buffers, `Stamp` the frame number that keeps short transfers one per frame.
`FreeSpace` is `udi_cdc_get_free_tx_buffer()`, which may swap the buffers.

`CdcTx` implements the same `CdcFifo`, with what the application wrote going in
and the packets the host fetched coming out; a restart takes the oldest bytes
(`Lost = "oldest"`), and those of a transfer that is run again may come twice.

This firmware's own calls of `udi_cdc_putc()` are commented out in `main.cpp`;
the model's application calls the interface as `udi_cdc.h` offers it.

### `EpJob` and `EpTransfer`: a transfer on an endpoint

`EpJob` opens `udd_ep_run()`, which the modules above take as one step: the job,
the DMA channel with its offset, its byte count, its end-of-transfer status and
its interrupt's flag, the interrupt enables, the banks. `Filled` and `TransDone`
are the fields `udd_ep_run()` sets and `udd_ep_trans_done()`, `Finish` is
`udd_ep_finish_job()`, `Counted` what `udd_ep_interrupt()` makes of a short
packet. Handlers are one step; the main program's call is three (`Claim`, `Fill`,
`Program`), because it runs them with interrupts on. `AwaitBank` and `SendZlp`
are the empty packet that closes an IN transfer, `NoteEmpty` one that arrives
while the channel is off, `Reallocate` the move of the endpoint's memory by
`udd_ep_alloc()` of a lower one, which runs the job again.

`EpTransfer` is what `udd.h` promises a caller: bytes in order, each once, a
short or empty packet at the end exactly when it is due, one callback with the
number of bytes or an abort. `IsTransfer` is its specification with the ghost
`wire`, what caller and host have seen of the transfer, as its state. One clause
of the promise no caller would guess: an empty packet that came before a transfer
ends it at once (`BeginAndEnd`), because it is a short packet that ends an OUT
transfer.

The code breaks the promise in two places. One is the gap in the main program's
call (`Crossing`, below). The other: when `udd_ep_alloc()` of a lower
endpoint moves this one's memory it runs the job again from its start, whatever
had moved (the finding `ep_moved`). The ghost `lost` says that this befell the
transfer under way, and what it took: bytes that were moved ("bytes") or the
closing packet that had gone over the bus ("end"). `IsTransfer` promises
nothing more of such a transfer until the next begins; of all others it promises
everything. `AllReported`, the sentence of `udd.h:135` about the callback's
count, is what `ep_moved` finds violated.

`FreeStops` is an assumption on the controller: `udd_ep_free()` disables the
endpoint without stopping its DMA channel, and the source does not tell whether
the controller stops it. `Crossing` lets an interrupt handler run a job on the
endpoint the main program is setting up; it is FALSE in the run (see "What the
models show besides").

### `Panel` (with `MCPanel`): main and the interrupt on one bus

`panel` is the SSD1963: the command and how many parameters it got, the window,
the RAM pointer and the memory. `StartUp` is the sequence of bus writes `main()`
makes after `udc_attach()`: `ClearScreen`, then `WriteString` with the cursor of
`lcdtext.h` (`TextCursor`) and a `DrawChar` per character. `MainWrites` does one
of them; `BltBegins` is `LCD_BltStart()` in the interrupt, between any two;
`PixelMoved` one write of the DMA; `BltAbandoned` a bus reset. The controller's
behaviour (`Take`, `Advanced`, `WithParam`) is modelled from how the driver uses
it, one write at a time; `Received` is what a whole sequence of writes leaves.
`expect` is a ghost: what a user may rely on in each cell. `StartUpPicture`
states the text's layout without a cursor: which characters end a line
(`LineEnds`), and how many do before the k-th (`LineOf`), so that run and proof
compare the code's cursor with a definition that does not share it.

### `Touch`: from the pen to the host

The touch controller's read (`adc`), the two flags, the main loop cut at each
flag it reads, the statics of `udi_hid_touch.c` (`hid`), its endpoint, job and
bank. A reading is its number. `SendReport`, `ReportSent` and `Aborted` are
operators on the statics and the job, because the code calls them from the main
loop, the interrupt and the abort alike; the actions say from where.

### `CtrlEp` (with `MCCtrlEp`): the control endpoint

`dev` holds the driver's statics (`state` for `udd_ep_control_state`, `size`,
`trans` and `prev` for the three counts, `short`, `call` for the registered
callback), the flags of endpoint 0's status register (`rxstp`, `rxout`, `txin`,
`nakin`, `nakout`), the interrupt enables that change (`inE`, `nakinE`,
`nakoutE`), the STALL request and the bank. `calls`, `status` and `last` count
callbacks and note status stages, for the properties. A request carries what
`udc_process_setup()` makes of it: accepted or not, the payload's size, whether a
callback is registered (`Possible` says which combinations the handlers of this
firmware produce), and whether it halts endpoint 0 itself.

That last is a request the firmware takes by oversight. SET_FEATURE(ENDPOINT_HALT)
is not refused for endpoint 0 (`udc.c:572-574`). `udd_ep_abort()` switches
endpoint 0's interrupt off (`usbb_device.c:1071`), and nothing but a bus reset
switches it on again; `udd_ep_set_halt()` reads the job of endpoint 0, one before
the start of `udd_ep_job[]`, and unless the bit it finds there says that a halt
was requested already, sets STALLRQ (`:972`). Either way it reports success, and
the driver goes on to send the empty packet of the status stage. `Halted` has
both outcomes (`halt` is "stall" or "already"). The reading of a busy bit from
there, which would have `udd_ep_abort_job()` call whatever address follows, is
not modelled. With the interrupt off (`intE`) an event of endpoint 0 is still
handled if another interrupt of the USB happens to call the handler, which looks
at endpoint 0 first and at its flag only (`:1558`): the events stay enabled and
lose their fairness.

The handlers are functions of `dev` with the names of the code's; `Interrupt` is
`udd_ctrl_interrupt()`, one action per event, `Event` the order in which it looks
for them. The host's stage is in `host`; its tokens come between two calls of
the interrupt. `Liberties` says what it may do besides an orderly request:
"early" leaves a data stage before its end, "extra" returns to one that is over,
"abort" sends a SETUP at any time. `host.orderly` is true as long as the request
under way was not disturbed so.

What the controller does is taken from the code's use of it and its comments: it
accepts a SETUP always, which frees the IN bank and takes back a STALL; while the
SETUP is pending IN and OUT tokens are answered with NAK, and so is OUT data
while a packet waits to be sent, but not the empty OUT packet of the status
stage; a NAK sets its flag whether or not its interrupt is enabled.

### `UdcConfig` (with `MCUdcConfig`): the device's configuration

`dev` has what `udc.c` and the driver know of the configuration: its number
(`cfg`), whether there is an address, which endpoints are on (`on`), halted
(`halt`) and have a job (`busy`), and of `udi_cdc.c` the counter of enabled data
interfaces (`nb`), the running flag and how far transmitter (`tx`) and receiver
(`rx`) are. `main` is the main loop's place in `udi_cdc_rx_start()`, `ok` whether
the last request was accepted. `EpsOf` gives each interface its endpoints,
`Listens`, `Reports` and `TxEp` say what is run on them.

The helpers have the names of the code's functions: `Run`, `Free` and `Alloc` are
`udd_ep_run()`, `udd_ep_free()` and `udd_ep_alloc()` on a set of endpoints;
`IfaceDisable`, `IfaceEnable` and `UdcReset` are loops over interfaces, which the
first refusal ends. Each request is an action, answered and done in one step of
the interrupt; `SetBadSetting` and `BadTestMode` are those that undo something
before they find that they must refuse. `TransferDone`, `SendReport` and
`StartOfFrame` run transfers, so that requests find endpoints in every state.
`MainStart`, `MainCheck` and `MainClaim` are the main loop's `udd_ep_run()`,
whose check and claim other steps may come between.

Taken as given: disabling an endpoint resets its registers, the STALL request
with them; a bus reset turns all endpoints off; `udd_ep_abort()` leaves no bank
busy, so that `stall_requested` (a STALL delayed until the banks are empty) is
never set; the host halts endpoints that exist and are on: the code does not look
(`udc.c:572-574`), and for an endpoint that is off, or beyond the last, it would
write registers whose effect the source does not tell; endpoint 0 is in
`CtrlEp`. `udd_ep_alloc()` takes
back the halts of endpoints above the new one, those of other interfaces
included: the model does the same, and `OthersKeepRunning` does not speak of
halts.

## What the runs check

Deadlock checking is on in `udc_any` and `udc_claim`. It is off in the others,
which may stop: the host need not go on, main is done once it has drawn, and the
bounds on data end the rest.

| Run | Bounds | Shows |
|---|---|---|
| `lcd` | packets of 3 bytes, transfers of 6, 1 bank, areas of 0, 6 and 9 bytes, counter of 3 bits, framed and wild hosts, no new command after more than 6 bytes drawn | `TypeOK`, `TargetIsWhatCallbackReads`, `StaysArmed` whatever the host sends; `InStep`, `BltFinishes` for a host that frames its transfers, through halt, reset and restart |
| `cdc` | packets of 1, buffers of 2, 1 bank, bytes numbered modulo 2, restarts at any moment | `TypeOK`, `ReceptionAlive`, `GetcReturns`; `ReaderAndDmaApart`, `IsFifo`, `BytesMoveOn` but for a restart in the midst of `getc` |
| `cdc_tx` | packets of 1, buffers of 2, bytes and frames numbered modulo 2, empty transfers after 2 idle frames, writes of 1 or 2 bytes | `TypeOK`, `SenderAndWriterApart`, `IsFifo`, `BytesMoveOn`, `TransferCloses`, `WriteReturns` |
| `ep_job` | packets of 2, at most 4 bytes per DMA transfer, 2 banks, IN of 0 to 7 bytes, OUT of 2 and 4, counters modulo 16 | `TypeOK`, `ChannelFollows`, `JobIsDriven`, `IsTransfer`, `TransferEnds` |
| `touch_reports` | 3 readings, reports of 3 bytes in packets of 2 | `TypeOK`, `ReadUnderWay`, `OngoingHasJob`, `EachOnceInOrder`, `LatestIsSeen` |
| `ctrl_any` | packets of 2 bytes, eight requests (below), all three liberties | `TypeOK`, `HandlersSafe`, `AnswerSent`, `CallbackOnce`, `AcceptedNotStalled`, `RequestEnds` |
| `udc_any` | three interfaces (display, serial data, touch), four endpoints, a counter of 2 bits | `TypeOK`, `NothingStranded`, `OthersKeepRunning`, `AcceptedIsWhole`, `NeverRefused` |
| `panel` | a screen of 4 by 2, characters of 2 by 1, parameters of two halves of one bit, one bitblt during start-up and three in all | `TypeOK`, `ScreenAsExpected` |
| `lcd_zlp`, `cdc_stale`, `ep_moved`, `udc_claim` | as above (`lcd_zlp`: transfers of one packet, one kind of host; `cdc_stale`: packets of 2) | violations, see below |

Properties that are conjunctions have named parts: `InStep` is `StepsAgree` and
`PixelsFit`; `HandlersSafe` is `StaysInPayload` and `InSentExpected`;
`AnswerSent` is `NextPieceOfAnswer` and `AnswerWhole`; `NothingStranded` is
`UnconfiguredMeansOff`, `EndpointsTogether`, `RunningIsTrue` and `JobsUsable`.

Why the bounds are enough: the buffers are two in the code too. Two banks are
what endpoint 1 has (`UDD_BULK_NB_BANK`), one what endpoints 3 and 4 have; `lcd`
has one too, because transfers of two packets with two banks are beyond it, and
what a second bank adds, a packet sent before the one before it is interpreted,
it has between the end of a transfer and its interrupt. A packet of three bytes
can be empty, short of the header, short, or full, a transfer one packet or two,
and an area nothing, exactly one transfer, more than one, and wider than the
counter; cut up by the host its pixels end inside a packet, on a packet's end and
on a transfer's. Two byte numbers tell a lost
or doubled byte from none, because a buffer holds two. Three readings give one
report being sent, one waiting and one that replaces it; control requests are
not bounded. The counter's width (32 bits in the code) is a constant, and small
in `lcd`, so that a wild host makes it wrap. The requests of `ctrl_any` are an answer of two
full packets, one shorter than was asked for that fills its last packet (so an
empty one must follow), data of two packets with a callback, data nobody wants,
a request without data with a callback, a refused one, and the two outcomes of
halting endpoint 0; the number of
requests and the host's liberties are not bounded. `udc_any` leaves out the
interfaces that own one endpoint each and never run a transfer (CDC control,
generic HID); it has one endpoint below, two in and one above the port's
interface, a listener and a reporter among the others, and its states are not
bounded. `Word` stands for the 256 of the counter's byte, which the requests can
take down one by one. All proofs hold for the whole device. In `cdc_tx` a
transfer can be empty, short and a multiple of the packet (an empty packet must
follow), or full; frames modulo 2 include the number 0 that the code takes for
"do not wait"; both buffers can be full with and without one being sent. In
`ep_job` an IN transfer can be empty, shorter than a packet, a whole DMA
transfer, and cut into two with a full or a short last packet. OUT buffers are
not longer than a DMA transfer because none in this firmware is (see below). In
`panel` a character is as high as a line and a line holds two, the message has
a line break, a line that wraps and a character the font lacks, and the
bitblts are empty, of one cell, and of several rows inside the screen.

### Fairness

`DmaMove` (of `LcdStream`), `DataReceived`, `Sent`: the controller moves a packet when it can and
raises its interrupt; the main program masks interrupts for a few instructions
only, and handlers end (but for the cases below), so pending interrupts are
taken. `MainLoop` in `CdcRx`: the loop runs whenever no interrupt does, and does
not sleep; nothing is asked of the DMA or the host there. `HostPixels`,
`HostZlp`: a bitblt can only end if the host sends its pixels and, at full
speed, ends their transfer.
`HostPoll`: a host polls an interrupt endpoint at its interval. `Interrupt` and
`Token` in `CtrlEp`: the interrupt is taken when it is pending and endpoint 0's
interrupt is enabled, which it is but after a halt of endpoint 0, and a host that
began a stage repeats its token until it is answered with something else than
NAK. In `CdcTx`, `NewFrame` (the bus has a start-of-frame every frame) and
`SofNotify` (its interrupt is taken), `TransferEnds`, `HostTake` (the host's
driver fetches what the endpoint has) and `Check` and `Store` (the application
runs between interrupts); halts and restarts may go on for ever, so the
properties start with `Steady`, that at some point they stop. In `EpJob` the
channel's steps, the interrupt, the main program's two later steps, and a host
that goes on taking packets and sending some that are not empty. Nothing else is
fair: the host need not send, halt, clear or restart anything, and the pen need
not move.

### Findings

* `lcd_zlp`: an empty packet makes the callback run the bitblt header that an
  earlier transfer left in the buffer (`udi_vendor.c:212` does not look at the
  length, as its siblings do). In the run the host draws a bitblt whose pixels
  fill a packet and closes it with an empty one, as USB has it; the window opens
  anew and the host's next command is drawn as pixels.
* `cdc_stale`: a restart of the port in the midst of `udi_cdc_getc()` leaves a
  position beyond the data; the unsigned count wraps and `udi_cdc_is_rx_ready()`
  is true with nothing to read (`udi_cdc.c:849`, `:900`).
* `ep_moved`: restarting an interface with a lower endpoint runs this endpoint's
  job again from its start (`usbb_device.c:887-915`). If an OUT transfer's short
  packet had arrived and its interrupt was still pending, the end-of-transfer flag
  it left ends the new run at once (`:1708`): the callback says OK with 0 bytes,
  against `udd.h:135` and `:306`, though a byte was acknowledged and is in the
  buffer.
* `udc_claim`: `udd_ep_run()` checks the endpoint outside the critical section in
  which it takes the job (`usbb_device.c:1034-1046`). A halt in between, with the
  main loop as the caller, leaves a job on a halted endpoint; the end of the halt
  takes it for one that waits for that and calls the transfer's callback without
  arguments (`:1010-1013`). A bus reset in the same place makes the next
  configuration be refused once.

### What the models show besides

Behaviour of the code that no document of the repository contradicts, and that
a maintainer should know of. The models have it, or stop where it begins:

* A report has 9 bytes, one more than its endpoint's packet and its descriptor
  have (`udi_hid_touch.c:93`): it leaves in two packets, the second of one byte.
* The control endpoint's interrupt serves an old NAK-OUT before a NAK-IN and
  leaves the interrupt on the latter off (`usbb_device.c:1562-1592`): a host that
  ends its data stage OUT early may be answered NAK for ever. `RequestEnds` is
  therefore about orderly requests.
* **The display at full speed.** Transfers are armed for 512 bytes, packets have
  64. A host that ends its pixels on a 64-byte boundary and sends no empty packet
  leaves the transfer open, and its next command is drawn as pixels; a host that
  always sends one runs into `lcd_zlp` where the pixels end with byte 512. Only
  a host that knows of the 512, the "framed" one, stays in step. At high speed
  the host must not send the empty packet at all.
* **Halting endpoint 0.** The firmware accepts the request, stalls its status
  stage, and is deaf on the control endpoint until a bus reset, but for the
  events another interrupt happens to bring it to. `AcceptedNotStalled` and
  `RequestEnds` make the exception and have no other.
* If the main program is between `udd_ep_run()`'s critical section and the
  fields it sets after it (`:1046-1052`), such a move runs the job with the
  fields of the one before, and the main program's own start meets the "system
  error" return of `udd_ep_trans_done()`. `EpJob` with `Crossing = TRUE` has
  this; `ep_job` does not include it.
* `udd_ep_free()` does not stop the endpoint's DMA channel (`:921-932`). `EpJob`
  fails at once without the assumption that the controller does (`FreeStops`).
* `udd_ep_interrupt()` reads the channel's status, which clears the flag by which
  `udd_ep_trans_done()` sees an empty packet: one that comes between two parts of
  an OUT transfer longer than 64 KiB would be lost. No buffer here is so long.
* After a halt, and after a start-of-frame during one, the transmitter counts as
  on-going until the interface is enabled again (`Stuck`), as the receiver does.
* "Do not wait" is stored as frame number 0 after a full transfer and when the
  port is enabled (`udi_cdc.c:756`): in the frame whose number is 0 the next
  transfer is held back all the same, for that frame (`:718-725`).
* A `udi_cdc_putc()` of 9 bits that finds room for one byte only stores it and
  returns false.
* A bitblt that begins while main draws the start-up text and main's text disturb
  each other: pixels and characters land in each other's windows.
  `ScreenAsExpected` shows that nothing drawn afterwards suffers.
* CMD_SET_BACKLIGHT has no effect: the SSD1963 driver's `_SetBacklight()` does
  nothing.

## What is proved

Eight modules, `LcdStreamProofs`, `CdcRxProofs`, `CdcTxProofs`, `TouchProofs`,
`EpJobProofs`, `CtrlEpProofs`, `UdcConfigProofs` and `PanelProofs`, prove theorems of
their specifications for
every value of the constants the modules' assumptions allow (any packet and
buffer sizes, any number of banks, any counter width, any set of requests the
handlers can make, any interfaces with disjoint sets of endpoints).

* **Display stream, any host.** `TypeCorrect`, `TargetCorrect`,
  `ArmedStaysArmed`. `TargetIsWhatCallbackReads` needs the type and
  `ArmedAndOn`: a transfer is armed only where the endpoint is on, and where none
  is armed nothing of the last one is left. The type needs that a transfer that goes on holds full
  packets (`FullPackets`), or the last of them could pass the buffer's end.
* **Display stream, no empty packets.** `NeverOldCommands`: if "zlp" is not among
  the hosts, a command that runs is the one that was sent. It rests on
  `ReadsWhatWasSent`; `lcd_zlp` is the run without the assumption.
* **Display stream, framed host.** `FramedInvariant`, and from it
  `AlwaysInStep`, for every packet size and every transfer of one or more packets.
  `InStep` is not inductive: it speaks of the first packet in the banks, and a step
  consumes that and exposes the next. The strengthening is `Chain`: each packet was
  sent when the host owed what the packet before it left (`before`), and at the
  place in its transfer where the one before it ended (`at`); the first continues
  what the DMA has moved, and the last leaves what the host owes now. With
  `ReadsWhatWasSent` (the buffer holds the header that was sent) the count the
  callback sets is the one the next packet was sent with.
* **Serial port, any host.** `TypeCorrect` and `AlwaysAlive`. The type needs that
  the DMA's offset is a multiple of the packet size while the transfer goes on,
  or the buffer could be overrun.
* **Serial port, the queue.** `AlwaysApart`, `ReadyIsTrue` (`ReadyMeansByte`
  while not `stale`) and `PortIsFifo`. The invariant relates the locals of
  `udi_cdc_getc()` to the statics at each place of the main loop, and says when a
  transfer claimed by the main loop is not yet armed. It holds while `stale` is
  false, and the one step that makes `stale` false again, a restart outside
  `getc`, establishes it whatever was there before (`EnableApart`).
  `PortIsFifo` proves the refinement `Spec => IsFifo`: the buffer
  being read, the one waiting or being filled and the banks, laid end to end
  (`Pipe`), are the queue of `CdcFifo`. `ReadAhead` is what the refinement adds to
  the invariant: while `udi_cdc_getc()` is between its read of the buffer and its
  store of the new position, the byte it holds is still the head of the pipe.
* **Serial port, sending.** `Invariant`, and from it `TypeCorrect` and
  `SenderAlwaysApart`. `Apart` is the property itself; `Within` bounds the job by
  its buffer; `HasRoom` says that an application between its test and its store
  still has at least one free byte in the current buffer, whichever that is by
  then; `Working` says how much is left to write in each place. `HasRoom` is
  what a reader of `udi_cdc.c:1081-1101` must convince himself of: a swap in
  between selects an empty buffer, and nothing else writes. `PortIsFifo` is the
  refinement `Spec => IsFifo`, again for every size: each start-of-frame, transfer
  callback, DMA move and packet taken moves bytes along the pipe or leaves it as
  it is, and only the steps of the host that stop the endpoint lose or repeat
  some. It adds that jobs and packets are only where the endpoint is on
  (`OnlyOn`, `LineFlows`).
* **Packets end to end.** Both refinements rest on facts about the library's
  recursive flattening of a sequence of packets: taking the first packet off, or
  adding one at the end, takes or adds its bytes there. The library's induction
  theorems have an operator as parameter and cannot be cited, so `Induction` says
  it for a set of numbers and is proved from the well-foundedness of `<`
  (`WFMin`, `NatLessThanWellFounded`).
* **Touch.** `Invariant`, and from it `TypeCorrect`, `ReadAlwaysUnderWay`,
  `OngoingAlwaysHasJob` and `AlwaysInOrder`. The invariant adds `Reads` (what
  the busy flag means at each place of the main loop), `Samples` (readings are
  numbered as they come), `Behind` (what is waiting or sent was read before what
  main holds) and `Progress` (how far job, bank and report have come).
* **Transfers on an endpoint.** `Invariant`, and from it `TypeCorrect`,
  `ChannelAlwaysFollows`, `JobAlwaysDriven` and `KeepsPromise`, the refinement
  `Spec => IsTransfer`. They assume `Proper`: no job is run in the gap of the main
  program's call (`Crossing` is FALSE), a disabled endpoint stops its channel
  (`FreeStops`), and no buffer to fill is longer than one DMA transfer; buffers to
  send may be cut as often as they need. The first two are assumptions the code
  leaves open, the third is true of every caller here, and each is needed (see
  "What the models show besides"). `IsTransfer` makes the exception of `ep_moved`:
  of a transfer that was run again with something already moved it says nothing
  until it is over (`Promised \/ lost' # {}` is what the proof of `Reallocate`
  ends with). The invariant is a disjunction: a job that has
  started is in one of five phases (`Sending`, `ChunkSent`, `AwaitsBank`,
  `Receiving`, `Received`), and each phase says how `nb_trans`, the channel's
  offset and count, and the packets so far add up. The safety properties say less
  in every phase and are not inductive: that a cut transfer goes on where it
  should needs that a chunk that is not the last is made of full packets, and
  that an empty packet is due needs that `b_shortpacket` stands for what was
  asked exactly when the buffer is a multiple of the packet.
  `udd_ep_trans_done()` is proved once (`Outcome`) and used for each of its
  callers: a new job, the main program's, a moved endpoint's, the interrupt's.
* **Control endpoint, any host.** `Invariance`, and from it `TypeCorrect`,
  `PayloadKept` and `AssertionHolds`, which make up `HandlersAlwaysSafe`, and
  `CallbackRunsOnce`. The invariant `IInv` has a part for each thing that must be
  known state by state: `DataSound` and `Within` (what the counts are in a data
  stage, so that a clipped length cannot pass the payload's end), `CallSound` (a
  callback is registered exactly as long as it has not run, and the status stage
  lies behind only in the states that run it at the next event), `IntSound` (the
  interrupt on a sent packet is enabled only in the two states the assertion
  names), `InPhase` (once the device has read the SETUP its request is the
  host's, and flags, bank and state fit together) and `HostSound` (the host's
  stage fits its request).
* **Control endpoint, a host in order.** `OrderlyInvariance`, and from it
  `AnswerAlwaysSent` and `AcceptedNeverStalled`. They speak of a request the host
  goes through as the protocol says, whatever it did before that. `Serves` says
  where device and host are in such a request: of an answer, a piece waits in the
  bank and starts where the host has come to, or a piece was taken and the next is
  due, or the last was taken, or the device waits for the status stage; of data to
  write, the device waits for a packet, has the last one, or has its empty packet
  ready. The one request that is accepted and stalled all the same is the halt of
  endpoint 0 (`NoStall`). The one thing that must be known of other requests is that a packet sent
  in a request to write is empty (`ZlpSound`).
* **Panel, any screen, font, message and bitblts.** `Invariance`, and from it
  `TypeCorrect` and `ScreenAlwaysAsExpected`. `ScreenAsExpected` speaks of the
  finished start-up, so the invariant says what holds on the way: until the first
  bitblt the panel is where main's writes so far have left it (`Alone`, with
  `Drawn`); from a bitblt that comes into the start-up until both are over nothing
  is promised (`Disturbed`); and while a later one moves pixels the panel's
  window, pointer and count of pixels belong together (`InOrder`). Two inductions
  carry it. One is over the writes on the bus: whatever command, half-sent
  parameter or pointer is left in the controller, `SetWindow` and the write
  command leave exactly the window they name (`Opens`), and w times h pixels fill
  it row by row and touch nothing else (`PixelLands`, `Painted`). The other is
  over the message: the cursor of `WriteString` is where `PlaceOf` puts the next
  character (`CursorIsPlace`), and one more `DrawChar` turns the picture of k
  characters into that of k + 1 (`TextShows`). The assumptions are the firmware's:
  a row of a character is one byte (`CharWidth` at most 7; the font has 6), every
  line of text begins in the first 256 rows, because `DrawChar()` takes its row as
  `uint8_t` (the last of the 20 lines of 13 rows begins at row 247), and a bitblt
  that is not empty lies on the screen. TLC checked the invariant on the constants
  of `panel` before it was proved.
* **Configuration, any host.** `Invariance`, and from it all properties of
  `udc_any` (`NeverStranded` from its four parts, each a theorem of its own). The invariant adds to the properties that only endpoints that are on
  are halted and that only interfaces' endpoints are on (`Sound`), and that
  without a configuration nothing is on. The first is needed because a job on an
  endpoint that is not halted must be on one that is on; the second because
  `udc_reset()` frees endpoints interface by interface, and only so frees all.
  The lemmas follow the code's calls: what `Free`, `Alloc`, `IfaceDisable` and
  `IfaceEnable` do to a sound device, then one step per action. The action
  properties follow from the same lemmas, whatever interfaces come before or
  after the one that is switched.

Every invariant and action property of the runs that pass is proved, and so are
all three refinements. Only model-checked is what needs fairness (`BltFinishes`,
`GetcReturns`, `BytesMoveOn`, `TransferCloses`, `WriteReturns`, `TransferEnds`,
`LatestIsSeen`, `RequestEnds`), which the prover does not do.

## What the models leave out

* A call of `udd_ctrl_interrupt()` is one step: host packets that arrive in the
  midst of it are seen by the next call. (The code's own look at the OUT flag
  before it loads an IN packet is in `SendPiece`.) `over_under_run` is never set
  in this firmware and left out with the branches that call it.
* `udd_ep_run()` is one step but in `UdcConfig`, where its check and its claim
  are two, and in `EpJob`, where what follows the claim is. `EpJob` has one
  endpoint and takes check and claim as one step; `UdcConfig` has all and no DMA.
* What a callback called without arguments (`udc_claim`) does with the other
  modules' data: `ClearHalt` in `UdcConfig` has the outcomes for jobs and flags.
* A SETUP that cuts a request runs the callback of the request it cuts
  (`usbb_device.c:1239`): `CtrlEp` does this, and no property forbids it.
* The four test modes of SET_FEATURE, which only power off ends, and the counter
  of enabled CDC control interfaces, which only an Assert reads.
* A DMA completion that is pending when the endpoint is restarted is forgotten
  with it.
* What `udd_ep_abort()` does on an OUT endpoint whose bank is full depends on the
  controller: both outcomes, the bank emptied and the loop that never ends, are
  in the models.
* In `CdcRx` and `Touch`, restarting an interface while an endpoint of a higher
  number is halted (`UdcConfig` has it).
* The check of `udi_cdc_getc()` and its look at `udi_cdc_data_running` are one
  step: no interrupt between them changes what the loop does next.
* After a halt the serial port's RX stays dead until the interface is enabled
  again, because the aborted transfer stays marked on-going. The models do this;
  the liveness properties are stated for endpoints that were not halted.
* Touch readings are dropped when the interrupt falls outside the gap between
  `touch_busy()` and `touch_complete()`. `Touch` has this behaviour; how often
  it happens is a question of timing.
* Clocks, sleep, flash, GPIO and the other register layers.

## Not modelled

* **Vendored register layers and headers** (clocks, power manager, flash, GPIO,
  SPI, timers, watchdog, interrupt controller, compiler and board headers): set
  up once, no behaviour over time that the firmware's correctness rests on. They
  are most of the repository's lines, which is why the modules cover a small
  share of all lines while they cover most of the code that handles events.
* **Attach, suspend, wake-up, sleep manager**: they lock and unlock sleep modes
  and freeze clocks; the main loop never sleeps.
* **Serial state notifications and HID generic**: their endpoints are allocated
  and never used, because nothing in the application sends on them.
* **The delayed STALL and `udd_ep_wait_stall_clear()`**: no caller in this
  firmware; `udd_ep_abort()` leaves no bank busy.
* **Rectangles, lines, scrolling, tabs, the HX8352A driver**: no caller, or not
  selected by `lcd_conf.h`. Reading them for the model showed that
  `ScrollScreen()` erases from the wrong row and that the SSD1963's `SetX()` and
  reading paths are incomplete, which nothing in the firmware runs into.
* **GET requests, descriptors, strings**: answers built from constants. `CtrlEp`
  models how an answer of any length is sent.
* **Time**: how often a touch reading falls into the gap in which it is dropped,
  how long a handler takes.

## What could come next

The hazards no property covers yet: what the loop of `udd_ep_abort()` does on an
OUT endpoint, a reception that stays marked on-going after a halt, the touch
flags main reads while the interrupt writes them, and `udi_cdc_putc()` of nine
bits without space for the second byte.
