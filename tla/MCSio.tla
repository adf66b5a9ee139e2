-------------------------------- MODULE MCSio --------------------------------
(***************************************************************************)
(* A ring of eight entries with its high-water mark at five.  IOBYTE       *)
(* values that send LIST to each of its four devices, and PUNCH to each of *)
(* its three.                                                              *)
(***************************************************************************)
EXTENDS Sio

MCIobyte == {149, 112, 192, 32}

ASSUME TablesSound == BaudRates /\ DefaultLine
=============================================================================
