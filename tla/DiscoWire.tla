------------------------------ MODULE DiscoWire ------------------------------
(***************************************************************************)
(* The frames that pamodbus-disco puts on the MODBUS line.  The library    *)
(* hands the payload to pamodbus, which frames it; a request is modelled   *)
(* by the fields the two sides branch on: the destination address, the     *)
(* function, the register block and, for a write, the pair                 *)
(* (slave_id, serialno) that the ten written registers carry.              *)
(***************************************************************************)
EXTENDS Naturals

\* The register layout of src/include/pamodbus-disco.h.
PA_DISCO_REG_COUNT   == 10
PA_DISCO_REG_START   == 23
PA_DISCO_VERIFY_REG  == 0
PA_DISCO_VERIFY_NREG == 1

\* A request frame, whatever it asks for.
Request(dst, fn, reg, nregs, id, serial) ==
    [dst |-> dst, fn |-> fn, reg |-> reg, nregs |-> nregs,
     slave_id |-> id, serialno |-> serial]

\* Read of the whole discovery block, to every slave that is still unassigned.
QueryFrame(addr, zero) ==
    Request(addr, "read", PA_DISCO_REG_START, PA_DISCO_REG_COUNT, 0, zero)

\* Write of the whole discovery block: the slave that owns serial takes id.
AssignFrame(addr, id, serial) ==
    Request(addr, "write", PA_DISCO_REG_START, PA_DISCO_REG_COUNT, id, serial)

\* The same write with the all-zero payload: every slave drops its address.
ResetFrame(addr, zero) == AssignFrame(addr, 0, zero)

\* Read of register 0, to the one slave that was just given this address.
VerifyFrame(id, zero) ==
    Request(id, "read", PA_DISCO_VERIFY_REG, PA_DISCO_VERIFY_NREG, 0, zero)

\* What the slave side asks of a request: is it the whole discovery block?
IsFullBlock(f) == f.reg = PA_DISCO_REG_START /\ f.nregs = PA_DISCO_REG_COUNT
==============================================================================
