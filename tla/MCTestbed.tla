----------------------------- MODULE MCTestbed ------------------------------
(***************************************************************************)
(* Small instances of Testbed: two starts, so that one may run over the    *)
(* other, and up to three stops between and after them.                    *)
(***************************************************************************)
EXTENDS Testbed
=============================================================================
