----------------------------- MODULE MCDiscoBus -----------------------------
(***************************************************************************)
(* Small instances of DiscoBus for TLC.                                    *)
(***************************************************************************)
EXTENDS DiscoBus, TLC

CONSTANTS a, b, c, zero

\* A slave is named by its serial number.
MCSlave == {a, b, c}
MCPair == {a, b}
MCSerial == {a, b, c, zero}
MCAll == Callbacks
MCProvided == {"get_ticks", "delay_ms", "flush", "random", "notify"}
MCNone == {}
MCInitialAddress == {0, 1}
MCAllFresh == {0}
MCSelf == [s \in MCSlave |-> s]
MCPairSelf == [s \in MCPair |-> s]

\* The slave example of README.md hands its serial number to
\* pa_disco_slave_set_serialno only, and leaves the register map zeroed.
MCReadmeMap == [s \in MCPair |-> zero]

MCSymmetry == Permutations(MCSlave)

\* The clocks matter only as the time since the timestamps that are going to
\* be read.
Since(start) == (ticks - start) % TickModulus
Age ==
    CASE state = "IDLE"       -> Since(refresh_start)
      [] state = "WAIT"       -> Since(wait_start)
      [] state = "VERIFY"     -> IF verify_sent THEN Since(verify_start) ELSE 0
      [] state = "RESET_WAIT" -> Since(wait_reset_start)
      [] OTHER                -> 0
WindowAge == [s \in Slave |-> IF disco_window_wait[s] THEN Since(disco_window_start[s]) ELSE 0]

MCView == <<state, repeat, reset_repeat, verify_repeat, verify_sent, slave_id,
            received, reset, rsp_serialno, list, pam_slave, rx, tx, gap, mutex,
            wrapped, request, Age, address, disco_window_wait, WindowAge, delay,
            srx, late, faults, clean>>
==============================================================================
