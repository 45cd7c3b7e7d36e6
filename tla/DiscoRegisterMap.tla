--------------------------- MODULE DiscoRegisterMap ---------------------------
(***************************************************************************)
(* The holding registers of src/src/pa_disco_register_map.c: an array and  *)
(* the register address of its first cell.  An address becomes an index by *)
(* a uint16_t subtraction, which wraps; the bounds test adds in int, which *)
(* does not.  An index past the array, which a wrong test would let        *)
(* through, shows as a cell that the array does not have.                  *)
(*                                                                         *)
(* pamodbus hands register accesses of the line to the pam_ functions; the *)
(* application calls the others.                                           *)
(***************************************************************************)
EXTENDS Integers, Sequences

CONSTANTS
    RegModulus,                 \* uint16_t register addresses wrap here, 2^16
    PA_DISCO_HOLDING_NREGS,
    MaxCount,                   \* bound of MODBUS: registers in one request
    Word                        \* uint16_t register contents

RegAddress == 0 .. (RegModulus - 1)

ASSUME MapAssumption ==
    /\ RegModulus \in Nat
    /\ PA_DISCO_HOLDING_NREGS \in Nat /\ PA_DISCO_HOLDING_NREGS > 1
    /\ MaxCount \in Nat /\ MaxCount > 1
    /\ PA_DISCO_HOLDING_NREGS + MaxCount =< RegModulus
    /\ 0 \in Word /\ Word \subseteq Nat

VARIABLES
    holding_regs, holding_start,
    call                        \* the latest operation: [fn, addr, count, words]

mapVars == <<holding_regs, holding_start, call>>

Call(fn, addr, count, words) ==
    call' = [fn |-> fn, addr |-> addr, count |-> count, words |-> words]

\* pa_disco_register_map_init.
Zeroed == [k \in 0 .. (PA_DISCO_HOLDING_NREGS - 1) |-> 0]

MapInit ==
    /\ holding_regs = Zeroed
    /\ holding_start = 0
    /\ call = [fn |-> "init", addr |-> 0, count |-> 0, words |-> << >>]

pa_disco_register_map_init ==
    /\ holding_regs' = Zeroed
    /\ holding_start' = 0
    /\ Call("init", 0, 0, << >>)

Offset(reg) == (reg - holding_start) % RegModulus

\* offset + count > PA_DISCO_HOLDING_NREGS is refused; for one register
\* the code has offset >= PA_DISCO_HOLDING_NREGS, for two offset + 1 >= it.
Fits(reg, count) == Offset(reg) + count =< PA_DISCO_HOLDING_NREGS

\* The array after words are stored from index offset on.
Stored(offset, words) ==
    LET new == offset .. (offset + Len(words) - 1)
    IN  [k \in DOMAIN holding_regs \cup new |->
            IF k \in new THEN words[k - offset + 1] ELSE holding_regs[k]]
------------------------------------------------------------------------------
(***************************************************************************)
(* Accesses from the line.                                                 *)
(***************************************************************************)
pam_read_holding_regs(addr, count) ==
    /\ Call("read", addr, count,
            IF Fits(addr, count)
            THEN [i \in 1 .. count |-> holding_regs[Offset(addr) + i - 1]]
            ELSE << >>)
    /\ UNCHANGED <<holding_regs, holding_start>>

pam_write_single_reg(addr, value) ==
    /\ Call("write", addr, 1, <<value>>)
    /\ holding_regs' = IF Fits(addr, 1) THEN Stored(Offset(addr), <<value>>) ELSE holding_regs
    /\ UNCHANGED holding_start

\* A slip: the bounds are tested cell by cell, within the loop.
WriteWhatFits(addr, words) ==
    LET room == PA_DISCO_HOLDING_NREGS - Offset(addr)
        n    == IF room < Len(words) THEN room ELSE Len(words)
    IN  /\ Call("write", addr, Len(words), words)
        /\ holding_regs' = Stored(Offset(addr), SubSeq(words, 1, n))
        /\ UNCHANGED holding_start

pam_write_multiple_regs(addr, words) ==
    /\ Call("write", addr, Len(words), words)
    /\ holding_regs' = IF Fits(addr, Len(words)) THEN Stored(Offset(addr), words) ELSE holding_regs
    /\ UNCHANGED holding_start
------------------------------------------------------------------------------
(***************************************************************************)
(* The application's side.                                                 *)
(***************************************************************************)
\* A slip: > for >=.
PtrPastEnd(reg) == IF Fits(reg, 0) THEN Offset(reg) ELSE -1

\* What get_ptr points at: an index, or -1 for NULL.
pa_disco_register_map_get_ptr(reg) == IF Fits(reg, 1) THEN Offset(reg) ELSE -1

pa_disco_register_map_get(reg) == IF Fits(reg, 1) THEN holding_regs[Offset(reg)] ELSE 0

\* A float is the pair of its halves, in the order of the union's fields.
pa_disco_register_map_get_float32(reg) ==
    IF Fits(reg, 2) THEN <<holding_regs[Offset(reg)], holding_regs[Offset(reg) + 1]>>
    ELSE <<0, 0>>

pa_disco_register_map_put(reg, val) == pam_write_single_reg(reg, val)

pa_disco_register_map_put_float32(reg, val) ==
    /\ Call("write", reg, 2, val)
    /\ holding_regs' = IF Fits(reg, 2) THEN Stored(Offset(reg), val) ELSE holding_regs
    /\ UNCHANGED holding_start

\* A slip: the count is not cut down to the array.
HoldingUncut(regs, start) ==
    /\ Call("rebase", start, Len(regs), regs)
    /\ holding_regs' = Stored(0, regs)
    /\ holding_start' = start

\* The registers are replaced and the array moves; cells beyond count keep
\* what they held, at addresses that now mean something else.
pa_disco_register_map_set_holding(regs, start) ==
    LET copy_count == IF Len(regs) > PA_DISCO_HOLDING_NREGS
                      THEN PA_DISCO_HOLDING_NREGS ELSE Len(regs)
    IN  /\ Call("rebase", start, Len(regs), regs)
        /\ holding_regs' = Stored(0, SubSeq(regs, 1, copy_count))
        /\ holding_start' = start
------------------------------------------------------------------------------
\* Any use of the map at all.
MapNext ==
    \/ pa_disco_register_map_init
    \/ \E addr \in RegAddress, count \in 1 .. MaxCount : pam_read_holding_regs(addr, count)
    \/ \E addr \in RegAddress, value \in Word :
          pam_write_single_reg(addr, value) \/ pa_disco_register_map_put(addr, value)
    \/ \E addr \in RegAddress, words \in Seq(Word) :
          1 =< Len(words) /\ Len(words) =< MaxCount /\ pam_write_multiple_regs(addr, words)
    \/ \E addr \in RegAddress, val \in Word \X Word : pa_disco_register_map_put_float32(addr, val)
    \/ \E addr \in RegAddress, words \in Seq(Word) : pa_disco_register_map_set_holding(words, addr)

MapSpec == MapInit /\ [][MapNext]_mapVars
------------------------------------------------------------------------------
(***************************************************************************)
(* Properties.                                                             *)
(***************************************************************************)
MapTypeOK ==
    /\ holding_regs \in [0 .. (PA_DISCO_HOLDING_NREGS - 1) -> Word]
    /\ holding_start \in RegAddress

\* The address of the k-th cell.
CellAddress(k) == (holding_start + k) % RegModulus
Window == {CellAddress(k) : k \in 0 .. (PA_DISCO_HOLDING_NREGS - 1)}

\* The array as a memory of addresses.
Contents == [a \in Window |-> holding_regs[(a - holding_start) % RegModulus]]

Memory == INSTANCE RegisterMemory WITH Size <- PA_DISCO_HOLDING_NREGS, mem <- Contents

\* Wherever the array starts, also where its addresses wrap to 0, a request is
\* served exactly when the array has all its registers, and then reads or
\* writes exactly those: no neighbour, no cell past the end, no half of it.
MapIsMemory == Memory!Spec

\* Addresses on either side of both ends of the array.
Edges == {CellAddress(k) : k \in {-1, 0, PA_DISCO_HOLDING_NREGS - 2,
                                  PA_DISCO_HOLDING_NREGS - 1, PA_DISCO_HOLDING_NREGS}}

\* The application's three ways to read agree with the line's one, up to both
\* ends of the array: a register reads as what the memory has there, a float
\* as both its registers or, when one of them is missing, as zero, and a
\* pointer is handed out for exactly the registers that exist.
ReadersAgree ==
    LET mem == Contents
    IN  \A reg \in Edges :
            /\ pa_disco_register_map_get(reg) = IF reg \in Window THEN mem[reg] ELSE 0
            /\ pa_disco_register_map_get_float32(reg) =
                  IF Memory!Cells(reg, 2) \subseteq Window
                  THEN <<mem[reg], mem[Memory!At(reg, 1)]>>
                  ELSE <<0, 0>>
            /\ IF reg \in Window
               THEN holding_regs[pa_disco_register_map_get_ptr(reg)] = mem[reg]
               ELSE pa_disco_register_map_get_ptr(reg) = -1
==============================================================================
