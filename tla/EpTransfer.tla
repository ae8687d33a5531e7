----------------------------- MODULE EpTransfer -----------------------------
(***************************************************************************)
(* What udd_ep_run() promises its caller (udd.h): the bytes of a transfer  *)
(* go to or come from the host in order, each once, an IN transfer is      *)
(* closed by a short packet exactly if that was asked for or it ends in    *)
(* one, an OUT transfer ends when the buffer is full or with a short       *)
(* packet, and the callback is called once, with the number of bytes, or   *)
(* when the transfer is aborted.  EpJob implements it.                     *)
(***************************************************************************)
EXTENDS Naturals

CONSTANTS EpSize, Sizes

VARIABLES
  dir,   \* "in" or "out"
  open,  \* a transfer was accepted and has not called back
  xfer,  \* its size, whether a short packet was asked for; bytes moved, and
         \* whether a short or empty packet closed it
  last   \* the last callback: status OK, and the number it reports

transferVars == <<dir, open, xfer, last>>

Init == open = FALSE

New(size, short) == [size |-> size, short |-> short, n |-> 0, closed |-> FALSE]

Begin ==
  /\ ~open
  /\ \E size \in Sizes, short \in BOOLEAN : xfer' = New(size, short)
  /\ open' = TRUE
  /\ UNCHANGED <<dir, last>>

\* An empty packet that came before ends an OUT transfer at once.
BeginAndEnd ==
  /\ ~open /\ dir = "out"
  /\ \E size \in Sizes, short \in BOOLEAN :
       xfer' = [New(size, short) EXCEPT !.closed = TRUE]
  /\ last' = [ok |-> TRUE, n |-> 0]
  /\ UNCHANGED <<dir, open>>

\* A packet, empty only to close the transfer.
Move ==
  /\ open /\ ~xfer.closed
  /\ \E n \in 0 .. EpSize :
       /\ xfer.n + n <= xfer.size
       /\ dir = "in" /\ n < EpSize => xfer.n + n = xfer.size
       /\ xfer' = [xfer EXCEPT !.n = @ + n, !.closed = n < EpSize]
  /\ UNCHANGED <<dir, open, last>>

Done(x) ==
  IF dir = "out" THEN x.n = x.size \/ x.closed
  ELSE x.n = x.size /\ (x.closed <=> x.short \/ x.size % EpSize # 0)

\* The last packet may be an empty one of this very step.
Complete ==
  /\ open /\ open' = FALSE
  /\ xfer' \in {xfer, [xfer EXCEPT !.closed = TRUE]}
  /\ Done(xfer')
  /\ last' = [ok |-> TRUE, n |-> xfer.n]
  /\ UNCHANGED dir

Abort ==
  /\ open /\ open' = FALSE
  /\ last'.ok = FALSE
  /\ UNCHANGED <<dir, xfer>>

Next == Begin \/ BeginAndEnd \/ Move \/ Complete \/ Abort

Spec == Init /\ [][Next]_transferVars
=============================================================================
