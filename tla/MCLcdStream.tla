---------------------------- MODULE MCLcdStream ----------------------------
(***************************************************************************)
(* LcdStream on small instances: a bitblt header takes two bytes of a      *)
(* packet of three; a transfer has two packets (full speed) or one (high   *)
(* speed); a bitblt is empty or fills a transfer, or several if it is cut  *)
(* up, or its size does not fit in the counter.                            *)
(***************************************************************************)
EXTENDS LcdStream

MCAreas == {0, 6, 9}

\* A bitblt that fills one packet.
MCOnePacket == {0, 3}
============================================================================
