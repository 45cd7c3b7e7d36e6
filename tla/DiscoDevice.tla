------------------------------ MODULE DiscoDevice ------------------------------
(***************************************************************************)
(* One slave device as README.md puts it together: the discovery logic of  *)
(* DiscoSlave, the registers of DiscoRegisterMap, and the main loop that   *)
(* runs the one and, when that allows it, the other.  The line carries any *)
(* request a MODBUS master may send, not only those of the discovery       *)
(* master: reads and writes of registers next to the discovery block, of   *)
(* parts of it, and of registers that do not exist.                        *)
(*                                                                         *)
(* A request callback that allows a request leaves it to pamodbus, which   *)
(* accesses the registers and answers, or fails to, as for registers that  *)
(* do not exist; one that suppresses it leaves the registers alone.  The   *)
(* delay before the answer to a query blocks the main loop, and the        *)
(* application with it.                                                    *)
(***************************************************************************)
EXTENDS DiscoRegisterMap, DiscoWire

CONSTANTS
    Self,                       \* the name of this slave
    SelfSerial, ZeroSerial,     \* six words each
    PA_DISCO_ADDR,
    IdModulus, TickModulus,     \* uint8_t and uint32_t wrap here
    disco_window_min, disco_window_max,
    Provided,
    \* the environment
    Requests,                   \* what other devices may put on the line
    Puts, Floats,               \* what the application stores: <<reg, value>>
    Images,                     \* and hands to set_holding: <<regs, start>>
    MaxPending,                 \* bound: requests waiting in the receiver
    MaxGap                      \* bound: ticks that pass before overdue work is done

VARIABLES
    address, disco_window_wait, disco_window_start, delay, srx, stx, ticks,
    gap,                        \* ticks since the main loop had work to do
    since                       \* history: ticks since the latest query was taken

ASSUME DeviceAssumption ==
    /\ Requests \subseteq [dst : Nat, fn : {"read", "write"}, reg : RegAddress,
                           nregs : 1 .. MaxCount, words : Seq(Word)]
    /\ \A f \in Requests : f.fn = "write" => Len(f.words) = f.nregs
    /\ Puts \subseteq RegAddress \X Word
    /\ Floats \subseteq RegAddress \X (Word \X Word)
    /\ Images \subseteq Seq(Word) \X RegAddress
    /\ disco_window_min \in Nat /\ disco_window_max \in Nat
    /\ disco_window_min =< disco_window_max
    /\ MaxPending \in Nat /\ MaxGap \in Nat
    /\ TickModulus \in Nat /\ disco_window_max + MaxGap < TickModulus
    /\ IdModulus \in Nat /\ IdModulus > 0
    /\ PA_DISCO_REG_COUNT =< MaxCount /\ PA_DISCO_REG_START \in RegAddress

\* The serial number that the registers hold: what a query is answered with.
reported == [i \in 1 .. 6 |-> pa_disco_register_map_get(PA_DISCO_REG_START + i)]

Dev == INSTANCE DiscoSlave WITH Slave <- {Self}, self_serialno <- [s \in {Self} |-> SelfSerial],
                                map_serialno <- [s \in {Self} |-> reported],
                                AnswerMayFail <- TRUE

slaveVars  == <<address, disco_window_wait, disco_window_start, delay>>
deviceVars == <<mapVars, slaveVars, srx, stx, ticks, gap, since>>

DeviceInit ==
    /\ MapInit
    /\ address = [s \in {Self} |-> 0]
    /\ disco_window_wait = [s \in {Self} |-> FALSE]
    /\ disco_window_start = [s \in {Self} |-> 0]
    /\ delay = [s \in {Self} |-> Dev!NoDelay]
    /\ srx = [s \in {Self} |-> << >>] /\ stx = << >>
    /\ ticks = 0 /\ gap = 0 /\ since = disco_window_max
------------------------------------------------------------------------------
\* The main loop finds the window open: the receiver is flushed.
WindowStep ==
    /\ Dev!pa_disco_slave_service(Self)
    /\ gap' = 0
    /\ UNCHANGED <<mapVars, ticks, since>>

\* pa_modbus_slave_respond: the registers are read or written, or the access is
\* refused; whether an answer comes of it is decided by Answer.
Respond(f) ==
    \/ f.fn = "read" /\ pam_read_holding_regs(f.reg, f.nregs)
    \/ f.fn = "write" /\ f.nregs = 1 /\ pam_write_single_reg(f.reg, f.words[1])
    \/ f.fn = "write" /\ pam_write_multiple_regs(f.reg, f.words)

\* The main loop takes a request; the registers are accessed when the callback
\* allows it.
RequestStep ==
    LET f == Head(srx[Self]) IN
    /\ Dev!pa_disco_register_map_service(Self)
    /\ IF Dev!Addressed(Self, f) /\ Dev!do_reply(f) THEN Respond(f) ELSE UNCHANGED mapVars
    /\ since' = IF delay'[Self] # Dev!NoDelay THEN 0 ELSE since
    /\ gap' = 0
    /\ UNCHANGED ticks

\* The delay of a query is over: its answer is read from the registers now.
ReplyStep ==
    /\ Dev!Reply(Self)
    /\ pam_read_holding_regs(PA_DISCO_REG_START, PA_DISCO_REG_COUNT)
    /\ gap' = 0
    /\ UNCHANGED <<ticks, since>>

MainLoop == WindowStep \/ RequestStep \/ ReplyStep

\* The application's code, in the same loop.
Application ==
    /\ delay[Self] = Dev!NoDelay
    /\ \/ \E p \in Puts : pa_disco_register_map_put(p[1], p[2])
       \/ \E p \in Floats : pa_disco_register_map_put_float32(p[1], p[2])
       \/ \E p \in Images : pa_disco_register_map_set_holding(p[1], p[2])
    /\ stx' = << >>
    /\ UNCHANGED <<slaveVars, srx, ticks, gap, since>>

\* A request with the two fields that pa_disco_slave_write_cb takes out of the
\* registers of a full write: the low byte of the first, then six words.
Decoded(f) ==
    [dst |-> f.dst, fn |-> f.fn, reg |-> f.reg, nregs |-> f.nregs, words |-> f.words,
     slave_id |-> IF f.fn = "write" THEN f.words[1] % IdModulus ELSE 0,
     serialno |-> IF Len(f.words) >= 7 THEN SubSeq(f.words, 2, 7) ELSE ZeroSerial]

Receive ==
    /\ Len(srx[Self]) < MaxPending
    /\ \E f \in Requests : srx' = [srx EXCEPT ![Self] = Append(@, Decoded(f))]
    /\ stx' = << >>
    /\ UNCHANGED <<mapVars, slaveVars, ticks, gap, since>>

Overdue == delay[Self] = 0 \/ (delay[Self] < 0 /\ (disco_window_wait[Self] \/ srx[Self] # << >>))

Tick ==
    /\ Overdue => gap < MaxGap
    /\ gap' = IF Overdue THEN gap + 1 ELSE 0
    /\ ticks' = (ticks + 1) % TickModulus
    /\ since' = IF since < disco_window_max THEN since + 1 ELSE since
    /\ Dev!Elapse
    /\ stx' = << >>
    /\ UNCHANGED <<mapVars, address, disco_window_wait, disco_window_start, srx>>

\* Power is lost and comes back: everything is set up anew.
Restart ==
    /\ Dev!Restart(Self)
    /\ pa_disco_register_map_init
    /\ since' = disco_window_max
    /\ gap' = 0
    /\ UNCHANGED ticks

DeviceNext == MainLoop \/ Application \/ Receive \/ Tick \/ Restart

DeviceSpec == DeviceInit /\ [][DeviceNext]_deviceVars

\* The main loop goes round and the clock runs.
DeviceFairSpec ==
    /\ DeviceSpec
    /\ WF_deviceVars(MainLoop)
    /\ WF_deviceVars(Tick)
------------------------------------------------------------------------------
(***************************************************************************)
(* Properties.                                                             *)
(***************************************************************************)
ForSelf(f) == f.dst \in {address[Self], PA_DISCO_ADDR}

\* No discovery traffic changes the serial number that the slave reports: a
\* full write of the block is for pa_disco_slave_write_cb alone and never
\* reaches the registers.  Only a write of other registers, or of a part of
\* the block, does, and only one addressed to this slave.
IdentityKept ==
    [][(MainLoop /\ reported' # reported) =>
          LET f == Head(srx[Self])
          IN  f.fn = "write" /\ ForSelf(f) /\ ~IsFullBlock(f)]_deviceVars

\* Whatever else is written to it, the slave's address changes only by a full
\* write of the block that names its serial number or none; it becomes the low
\* byte of the first register.
AddressAssigned ==
    [][(MainLoop /\ address' # address) =>
          LET f == Head(srx[Self])
          IN  /\ f.fn = "write" /\ ForSelf(f) /\ IsFullBlock(f)
              /\ SubSeq(f.words, 2, 7) \in {SelfSerial, ZeroSerial}
              /\ address'[Self] = f.words[1] % IdModulus]_deviceVars

\* The slave takes at most one query per window: after it has taken one,
\* disco_window_max milliseconds go by before it takes another, across wraps
\* of the tick counter, so that others get their turn.
OneQueryPerWindow ==
    [][(disco_window_wait'[Self] /\ ~disco_window_wait[Self]) =>
          since = disco_window_max]_deviceVars

\* pamodbus-disco.h gives the discovery block as registers 23 .. 32, and
\* pa_disco_slave.c leaves the other registers to the default handler: a request
\* for one of those is handed to the register map.
OtherRegistersServed ==
    [][LET f == Head(srx[Self])
       IN  (/\ RequestStep /\ ForSelf(f)
            /\ f.reg \notin PA_DISCO_REG_START .. (PA_DISCO_REG_START + PA_DISCO_REG_COUNT - 1)) =>
              call'.fn = f.fn /\ call'.addr = f.reg /\ call'.count = f.nregs]_deviceVars

\* The slave never stays deaf: a window comes to its end, also when the tick
\* counter wraps within it.
WindowEnds == disco_window_wait[Self] ~> ~disco_window_wait[Self]
==============================================================================
