----------------------------- MODULE MCEncoding -----------------------------
(***************************************************************************)
(* Instances of Encoding.tla for TLC.  Two frames of the UART's host end    *)
(* where the buffer does.                                                   *)
(***************************************************************************)
EXTENDS Encoding

CONSTANTS usb, tcp, uart, unix

MCCmd ==
    [d \in Dm |-> CASE d = usb  -> {<<28>>, Disable}
                    [] d = unix -> {Disable}
                    [] d = uart -> {<<75, 18, 34, 2, 1>>}
                    [] d = tcp  -> {<<28>>}]
=============================================================================
