---------------------------- MODULE MCDiscoDevice ----------------------------
(***************************************************************************)
(* A small instance of DiscoDevice for TLC: the discovery block where it   *)
(* really is, in an array of 34 registers instead of 64, which ends with   *)
(* the register behind the block.                                          *)
(***************************************************************************)
EXTENDS DiscoDevice

\* Register contents: two plain ones, and one whose low byte is 1.
MCWord == {0, 7, 257}

MCSelfSerial == <<7, 7, 7, 7, 7, 7>>
MCZeroSerial == <<0, 0, 0, 0, 0, 0>>
MCOtherSerial == <<0, 7, 7, 7, 7, 7>>

MCProvided == {"get_ticks", "delay_ms", "flush", "random", "notify"}

ReadOf(dst, reg, nregs) ==
    [dst |-> dst, fn |-> "read", reg |-> reg, nregs |-> nregs, words |-> << >>]

WriteOf(dst, reg, words) ==
    [dst |-> dst, fn |-> "write", reg |-> reg, nregs |-> Len(words), words |-> words]

Assignment(id, serial) == WriteOf(255, PA_DISCO_REG_START, <<id>> \o serial \o <<0, 0, 0>>)

\* A query, a verify read, a part of the block, register 33, reads at and past
\* the end of the array; assignments to this slave, to another, a reset; writes
\* to the first serial number register, across the block, of a part of it, to
\* another slave, and past the end.
MCRequests ==
    {ReadOf(255, 23, 10), ReadOf(1, 0, 1), ReadOf(1, 24, 6), ReadOf(1, 33, 1), ReadOf(1, 33, 2),
     Assignment(257, MCSelfSerial), Assignment(7, MCOtherSerial), Assignment(0, MCZeroSerial),
     WriteOf(1, 24, <<0>>), WriteOf(2, 24, <<0>>), WriteOf(1, 23, <<7, 7, 7, 7, 7, 7, 7>>),
     WriteOf(1, 33, <<7, 7>>)}

MCPuts == {<<24, 7>>, <<34, 7>>}
MCFloats == {<<65535, <<7, 7>>>>, <<33, <<7, 7>>>>}

\* The map that README.md's slave needs; one whose addresses wrap; one that is
\* longer than the array.
MCImages ==
    {<<[i \in 1 .. 33 |-> IF i \in 25 .. 30 THEN 7 ELSE 0], 0>>,
     <<<<0, 7>>, 65530>>,
     <<[i \in 1 .. 35 |-> IF i = 35 THEN 7 ELSE 0], 0>>}

\* What the latest operation and answer were matters to no later step, nor
\* does the start of a window that is over.
MCView == <<holding_regs, holding_start, address, disco_window_wait,
            IF disco_window_wait[Self] THEN disco_window_start[Self] ELSE 0,
            delay, srx, ticks, gap, since>>
==============================================================================
