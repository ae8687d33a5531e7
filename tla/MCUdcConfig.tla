---------------------------- MODULE MCUdcConfig ----------------------------
(***************************************************************************)
(* Three of the five interfaces of conf_usb.h, in their order: the display *)
(* on 1, the serial port's data on 2 and 3, touch on 4.  Those left out    *)
(* have one endpoint each and never run a transfer.                        *)
(***************************************************************************)
EXTENDS UdcConfig, TLC

MCEpsOf == (0 :> {1}) @@ (1 :> {2, 3}) @@ (2 :> {4})
=============================================================================
