----------------------------- MODULE DiscoSlave -----------------------------
(***************************************************************************)
(* The slave side of src/src/pa_disco_slave.c, run as README.md runs it:   *)
(* pa_disco_slave_service() and, when that allows it,                      *)
(* pa_disco_register_map_service(), whose request callback hands reads to  *)
(* pa_disco_slave_read_cb and writes to pa_disco_slave_write_cb.  Every    *)
(* variable is a function of the slave.                                    *)
(*                                                                         *)
(* The random delay before the answer to a query blocks the slave; it is   *)
(* the one place where a call is cut in two: the request up to the delay,  *)
(* Reply after it.                                                         *)
(***************************************************************************)
EXTENDS DiscoWire, Integers, Sequences

CONSTANTS
    Slave,
    ZeroSerial,
    PA_DISCO_ADDR,
    TickModulus,
    self_serialno,              \* what pa_disco_slave_set_serialno stored
    disco_window_min, disco_window_max,
    Provided,                   \* the callbacks that are not NULL
    AnswerMayFail               \* pa_modbus_slave_respond or pa_modbus_send may fail

VARIABLES
    address,                    \* the slave's pamodbus address
    disco_window_wait, disco_window_start,
    delay,                      \* milliseconds the blocking delay has left, or NoDelay
    srx,                        \* requests the receiver holds, oldest first
    stx,                        \* the response the latest step transmitted, if any
    ticks,
    map_serialno                \* what the register map holds at registers 24 .. 29

NoDelay == -1

SlaveNow == IF "get_ticks" \in Provided THEN ticks ELSE 0

\* Slips: the end of the window is computed and compared as a time, in wide
\* arithmetic or in uint32_t.
OverWide(s)   == "get_ticks" \in Provided /\ ticks >= disco_window_start[s] + disco_window_max
OverNarrow(s) ==
    "get_ticks" \in Provided /\ ticks >= (disco_window_start[s] + disco_window_max) % TickModulus

WindowOver(s) ==
    /\ "get_ticks" \in Provided
    /\ (ticks - disco_window_start[s]) % TickModulus >= disco_window_max

\* Requests reach the callback when they are for the slave's own address or
\* for the discovery address.
Addressed(s, f) == f.dst \in {address[s], PA_DISCO_ADDR}

\* The registers the callbacks take for the discovery block: one too many.
InBlock(f) == f.reg \in PA_DISCO_REG_START .. (PA_DISCO_REG_START + PA_DISCO_REG_COUNT)

\* A slip: a full write is left to the register map too.
WritePassedOn(f) == TRUE

\* The callbacks' verdict, but for a query: whether the register map goes on
\* to access its registers and to answer.
ReadAllowed(f)  == ~InBlock(f)
WriteAllowed(f) == ~IsFullBlock(f)
do_reply(f) == IF f.fn = "read" THEN ReadAllowed(f) ELSE WriteAllowed(f)

NoAnswer == stx' = << >>

\* The answer is built and sent; when pamodbus fails at either, the call
\* returns without one.
Answer(s, serial) ==
    \/ stx' = <<[src |-> address[s], serialno |-> serial]>>
    \/ AnswerMayFail /\ NoAnswer

\* An unassigned slave opens its window and holds its answer to a query back
\* for a random time.
AnswerQuery(s) ==
    /\ disco_window_wait' = [disco_window_wait EXCEPT ![s] = TRUE]
    /\ disco_window_start' = [disco_window_start EXCEPT ![s] = SlaveNow]
    /\ \E d \in (IF {"delay_ms", "random"} \subseteq Provided
                 THEN disco_window_min .. disco_window_max ELSE {0}) :
          delay' = [delay EXCEPT ![s] = d]
    /\ NoAnswer

\* Any other read of the block is left unanswered, any read outside it is
\* answered at once; the verify answer carries no serial number.
pa_disco_slave_read_cb(s, f) ==
    IF InBlock(f) /\ IsFullBlock(f) /\ address[s] = 0
    THEN AnswerQuery(s)
    ELSE /\ IF ReadAllowed(f) THEN Answer(s, ZeroSerial) ELSE NoAnswer
         /\ UNCHANGED <<disco_window_wait, disco_window_start, delay>>

\* Slips: the serial number is not compared; the all-zero one is not special.
AdoptAlways(s, f) == TRUE
AdoptOwnOnly(s, f) == f.serialno = self_serialno[s]

\* The assignment is for this slave, or for all of them.
Adopts(s, f) == f.serialno \in {self_serialno[s], ZeroSerial}

\* A slip: the number of registers is not looked at.
WriteOfAnyLength(s, f) ==
    /\ IF f.reg = PA_DISCO_REG_START /\ Adopts(s, f)
       THEN address' = [address EXCEPT ![s] = f.slave_id]
       ELSE UNCHANGED address
    /\ IF WriteAllowed(f) THEN Answer(s, ZeroSerial) ELSE NoAnswer

\* A full write of the block is never answered.
pa_disco_slave_write_cb(s, f) ==
    /\ IF IsFullBlock(f) /\ Adopts(s, f)
       THEN address' = [address EXCEPT ![s] = f.slave_id]
       ELSE UNCHANGED address
    /\ IF WriteAllowed(f) THEN Answer(s, ZeroSerial) ELSE NoAnswer

\* pa_disco_slave_service within the window: the line is flushed until the
\* window is over, and the register map is not served.
pa_disco_slave_service(s) ==
    /\ delay[s] = NoDelay /\ disco_window_wait[s]
    /\ srx' = [srx EXCEPT ![s] = IF "flush" \in Provided THEN << >> ELSE @]
    /\ disco_window_wait' = [disco_window_wait EXCEPT ![s] = ~WindowOver(s)]
    /\ NoAnswer
    /\ UNCHANGED <<address, disco_window_start, delay>>

\* pa_disco_register_map_service outside the window: one request.
pa_disco_register_map_service(s) ==
    LET f == Head(srx[s]) IN
    /\ delay[s] = NoDelay /\ ~disco_window_wait[s] /\ srx[s] # << >>
    /\ srx' = [srx EXCEPT ![s] = Tail(@)]
    /\ \/ /\ ~Addressed(s, f)
          /\ NoAnswer
          /\ UNCHANGED <<address, disco_window_wait, disco_window_start, delay>>
       \/ /\ Addressed(s, f) /\ f.fn = "read"
          /\ pa_disco_slave_read_cb(s, f)
          /\ UNCHANGED address
       \/ /\ Addressed(s, f) /\ f.fn = "write"
          /\ pa_disco_slave_write_cb(s, f)
          /\ UNCHANGED <<disco_window_wait, disco_window_start, delay>>

\* The delay is over: the callback returns and the answer is built and sent.
Reply(s) ==
    /\ delay[s] = 0
    /\ delay' = [delay EXCEPT ![s] = NoDelay]
    /\ Answer(s, map_serialno[s])
    /\ UNCHANGED <<address, disco_window_wait, disco_window_start, srx>>

Run(s) == pa_disco_slave_service(s) \/ pa_disco_register_map_service(s) \/ Reply(s)

\* Power is lost and comes back: README.md starts a slave at address 0.
Restart(s) ==
    /\ address' = [address EXCEPT ![s] = 0]
    /\ disco_window_wait' = [disco_window_wait EXCEPT ![s] = FALSE]
    /\ disco_window_start' = [disco_window_start EXCEPT ![s] = 0]
    /\ delay' = [delay EXCEPT ![s] = NoDelay]
    /\ srx' = [srx EXCEPT ![s] = << >>]
    /\ NoAnswer

\* Blocking delays run down with the clock.
Elapse == delay' = [s \in Slave |-> IF delay[s] > 0 THEN delay[s] - 1 ELSE delay[s]]
==============================================================================
