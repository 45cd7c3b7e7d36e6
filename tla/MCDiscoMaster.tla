---------------------------- MODULE MCDiscoMaster ----------------------------
(***************************************************************************)
(* Small instances of DiscoMaster for TLC.                                 *)
(***************************************************************************)
EXTENDS DiscoMaster, TLC

CONSTANTS a, b, zero

MCSerial == {a, b, zero}

MCAll == Callbacks

\* The callbacks the example of README.md installs: it defines unlock, but
\* passes NULL for it.
MCReadme == Callbacks \ {"unlock"}

\* Two unassigned slaves that report their serial number, and a slave at
\* address 1 whose answer to a verify read carries no serial number.
MCResponses ==
    {[src |-> 0, serialno |-> a], [src |-> 0, serialno |-> b],
     [src |-> 1, serialno |-> zero]}

\* One slave, whose answers carry its serial number.
MCOneSerial == {a, zero}
MCOneResponse == {[src |-> 0, serialno |-> a], [src |-> 1, serialno |-> a]}

MCSymmetry == Permutations({a, b})

\* The clock matters only as the time since the one timestamp that the
\* current state reads; the other three are overwritten before they are read.
Age ==
    CASE state = "IDLE"       -> (ticks - refresh_start) % TickModulus
      [] state = "WAIT"       -> (ticks - wait_start) % TickModulus
      [] state = "VERIFY"     -> IF verify_sent THEN (ticks - verify_start) % TickModulus ELSE 0
      [] state = "RESET_WAIT" -> (ticks - wait_reset_start) % TickModulus
      [] OTHER                -> 0

MCView == <<state, repeat, reset_repeat, verify_repeat, verify_sent, slave_id,
            received, reset, rsp_serialno, list, pam_slave, rx, tx, gap, mutex,
            wrapped, quiet, wasted, verifies, request, announced, Age>>
==============================================================================
