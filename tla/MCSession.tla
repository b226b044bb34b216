----------------------------- MODULE MCSession -----------------------------
(***************************************************************************)
(* Session on a small instance.  The window of 40 transmissions shrinks to *)
(* Rate slots: a login takes seven packets, so that with Rate = 8 a login  *)
(* just fits and a little traffic exhausts the window.  MaxQueue bounds    *)
(* what the user adds to the queue and to the wire.                        *)
(***************************************************************************)
EXTENDS Session
=============================================================================
