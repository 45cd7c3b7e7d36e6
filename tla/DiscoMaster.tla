----------------------------- MODULE DiscoMaster -----------------------------
(***************************************************************************)
(* The discovery master of src/src/pa_disco_master.c: the state machine    *)
(* that pa_disco_master_service() advances by one handler per call, the    *)
(* pamodbus context it sends and receives through, and an environment of   *)
(* a millisecond clock, a bus mutex and a line on which responses turn up. *)
(*                                                                         *)
(* One service() call is one action: the code runs to its return without   *)
(* blocking.  Responses, clock ticks, the mutex's other users and          *)
(* pa_disco_master_reset() come in between two calls.                      *)
(***************************************************************************)
EXTENDS DiscoWire, DiscoList, Integers, Sequences

CONSTANTS
    Serial,                     \* the 12-byte serial numbers
    ZeroSerial,                 \* the all-zero one
    PA_DISCO_ADDR,              \* the discovery address, 0xFF
    IdModulus,                  \* uint8_t wraps here, 256
    TickModulus,                \* uint32_t milliseconds wrap here, 2^32
    PA_DISCO_VERIFY_TIMEOUT_MS,
    \* pa_disco_settings_t
    window_time, window_guard_time, refresh_period,
    repeat_cycles, reset_repeat_cycles, verify_repeat_cycles,
    \* the environment
    Installed,                  \* the callbacks that are not NULL
    SendMayFail,                \* pa_modbus_build_* or pa_modbus_send may fail
    AllocMayFail,               \* malloc or realloc may fail
    Contended,                  \* other tasks take the bus mutex too
    Responses,                  \* what the line may deliver to the master
    MaxPending,                 \* bound: responses waiting in the receiver
    MaxGap                      \* bound: ticks between two service() calls

Callbacks == {"get_ticks", "flush", "trylock", "unlock", "notify"}

Byte   == 0 .. (IdModulus - 1)
Millis == 0 .. (TickModulus - 1)

ResponseType == [src : Byte, serialno : Serial]

ASSUME SerialAssumption == ZeroSerial \in Serial
ASSUME WidthAssumption ==
    /\ IdModulus \in Nat /\ IdModulus > 2
    /\ TickModulus \in Nat /\ TickModulus > 0
    /\ PA_DISCO_ADDR = IdModulus - 1
ASSUME SettingsAssumption ==
    /\ window_time \in Nat
    /\ window_guard_time \in Nat
    /\ refresh_period \in Nat
    /\ repeat_cycles \in Nat
    /\ reset_repeat_cycles \in Nat
    /\ verify_repeat_cycles \in Nat
    /\ PA_DISCO_VERIFY_TIMEOUT_MS \in Nat
ASSUME EnvironmentAssumption ==
    /\ Installed \subseteq Callbacks
    /\ SendMayFail \in BOOLEAN
    /\ AllocMayFail \in BOOLEAN
    /\ Contended \in BOOLEAN
    /\ Responses \subseteq ResponseType
    /\ MaxPending \in Nat
    /\ MaxGap \in Nat

VARIABLES
    \* struct pa_disco_master
    state, repeat, reset_repeat, verify_repeat, verify_sent, verify_start,
    refresh_start, wait_start, wait_reset_start, slave_id, received, reset,
    rsp_serialno, list,
    \* pamodbus and the line
    pam_slave,                  \* the address pa_modbus_set_slave() set last
    rx,                         \* responses the receiver holds, oldest first
    tx,                         \* the request the latest step transmitted, if any
    \* the environment
    ticks,                      \* what get_ticks_cb returns
    gap,                        \* ticks since the last service() call
    mutex,                      \* who holds the bus mutex
    \* history, read by the properties only
    wrapped,                    \* the address counter went round in this cycle
    quiet,                      \* broadcasts of this cycle that nobody answered
    wasted,                     \* rounds of this cycle lost to a failing transmission
    verifies,                   \* verify attempts made for the latest assignment
    request,                    \* an unserved reset(): none, early or late
    announced                   \* the records notify_cb has told the application

timerVars   == <<verify_start, refresh_start, wait_start, wait_reset_start>>
resetVars   == <<reset_repeat, wait_reset_start>>
verifyVars  == <<verify_repeat, verify_sent, verify_start, verifies>>
roundVars   == <<repeat, wait_start, received, quiet, wasted>>
idVars      == <<slave_id, wrapped>>
listVars    == <<list, announced>>
requestVars == <<reset, request>>
ctxVars     == <<state, reset_repeat, wait_reset_start, verifyVars, roundVars,
                 idVars, listVars, requestVars, refresh_start, rsp_serialno>>
pamVars     == <<pam_slave, rx, tx>>
vars        == <<ctxVars, pamVars, ticks, gap, mutex>>

States == {"IDLE", "START", "REPEAT", "WAIT", "VERIFY",
           "RESET_START", "RESET_REPEAT", "RESET_WAIT", "FINISH"}

\* pa_disco_master_init on zeroed memory; nobody has the bus yet.
Init ==
    /\ state = "IDLE"
    /\ repeat = 0 /\ reset_repeat = 0 /\ verify_repeat = 0
    /\ verify_sent = FALSE /\ received = FALSE /\ reset = TRUE
    /\ verify_start = 0 /\ refresh_start = 0 /\ wait_start = 0 /\ wait_reset_start = 0
    /\ slave_id = 0 /\ rsp_serialno = ZeroSerial /\ list = pa_disco_list_clear
    /\ pam_slave = 0 /\ rx = << >> /\ tx = << >>
    /\ ticks = 0 /\ gap = 0 /\ mutex = "free"
    /\ wrapped = FALSE /\ quiet = 0 /\ wasted = 0 /\ verifies = 0
    /\ request = "late" /\ announced = {}
------------------------------------------------------------------------------
(***************************************************************************)
(* Callbacks and pamodbus, as the handlers use them.                       *)
(***************************************************************************)
\* get_ticks_cb, with the code's fallback to 0.
Now == IF "get_ticks" \in Installed THEN ticks ELSE 0

\* A slip: comparing absolute times, which a wrap of the clock defeats.
ElapsedAbsolute(start, span) == "get_ticks" \in Installed /\ ticks >= start + span

\* Whether span has passed since start, in uint32_t arithmetic; never
\* without a clock.
Elapsed(start, span) ==
    "get_ticks" \in Installed /\ (ticks - start) % TickModulus >= span

\* A slip: flush_cb forgotten.
FlushForgotten(frames) == frames

\* flush_cb, when there is one, empties the receiver.
Flushed(frames) == IF "flush" \in Installed THEN << >> ELSE frames

SendOutcomes == IF SendMayFail THEN BOOLEAN ELSE {TRUE}
AllocOutcomes == IF AllocMayFail THEN BOOLEAN ELSE {TRUE}

\* pa_modbus_set_slave, build and send: the address stays set even when
\* sending fails.
Send(frame, sent) ==
    /\ pam_slave' = frame.dst
    /\ tx' = IF sent THEN <<frame>> ELSE << >>

\* A slip: any response is taken, whoever it comes from.
AcceptsAny(f) == TRUE

\* A response is for the master when it comes from the slave last addressed;
\* with the discovery address set, any slave may answer.
Accepts(f) == pam_slave = PA_DISCO_ADDR \/ f.src = pam_slave

\* pa_modbus_recv uses up one response; PA_OK only for one it accepts.
RecvOK   == rx # << >> /\ Accepts(Head(rx))
RecvRest == IF rx = << >> THEN rx ELSE Tail(rx)

NoTransmission == pam_slave' = pam_slave /\ tx' = << >>

\* Slips: an address that runs out of its byte, one that stops at the last
\* value instead of going round, one derived from the length of the list.
IncPastByte   == slave_id + 1
IncSaturating == IF slave_id + 1 = IdModulus THEN slave_id ELSE slave_id + 1
IncFromCount  == Len(list) + 1

\* ++slave_id, skipping 0.
inc_slave_id == IF (slave_id + 1) % IdModulus = 0 THEN 1 ELSE slave_id + 1
------------------------------------------------------------------------------
(***************************************************************************)
(* The handlers of pa_disco_master_service().                              *)
(***************************************************************************)
RefreshExpired == refresh_period # 0 /\ Elapsed(refresh_start, refresh_period)

\* trylock_cb returns 0, or there is none.
LockAvailable == "trylock" \in Installed => mutex = "free"
Lock == mutex' = IF "trylock" \in Installed THEN "master" ELSE mutex

\* A slip: the way out of a cycle without the release.
KeepLock == mutex' = mutex

\* unlock_cb is called whether or not trylock_cb took the mutex.
Unlock == mutex' = IF "unlock" \in Installed THEN "free" ELSE mutex

do_state_idle ==
    /\ state = "IDLE"
    /\ \/ /\ reset \/ RefreshExpired
          /\ LockAvailable
          /\ Lock
          /\ state' = "RESET_START"
          /\ request' = "none"
       \/ /\ ~((reset \/ RefreshExpired) /\ LockAvailable)
          /\ UNCHANGED <<mutex, state, request>>
    /\ NoTransmission
    /\ UNCHANGED <<resetVars, verifyVars, roundVars, idVars, listVars, reset,
                   refresh_start, rsp_serialno, rx>>

do_state_start ==
    /\ state = "START"
    /\ slave_id' = 0
    /\ wrapped' = FALSE
    /\ reset' = FALSE
    /\ refresh_start' = Now
    /\ repeat' = repeat_cycles
    /\ quiet' = 0 /\ wasted' = 0
    /\ state' = "REPEAT"
    /\ NoTransmission
    /\ UNCHANGED <<resetVars, verifyVars, wait_start, received, listVars, request,
                   rsp_serialno, rx, mutex>>

\* One broadcast query, or the end of the cycle when none is left.
do_state_repeat ==
    /\ state = "REPEAT"
    /\ repeat' = repeat - 1
    /\ \/ /\ repeat - 1 >= 0
          /\ rx' = Flushed(rx)
          /\ \E sent \in SendOutcomes :
                /\ Send(QueryFrame(PA_DISCO_ADDR, ZeroSerial), sent)
                /\ IF sent
                   THEN /\ received' = FALSE
                        /\ wait_start' = Now
                        /\ state' = "WAIT"
                        /\ wasted' = wasted
                   ELSE /\ UNCHANGED <<received, wait_start, state>>
                        /\ wasted' = wasted + 1
       \/ /\ repeat - 1 < 0
          /\ state' = "FINISH"
          /\ NoTransmission
          /\ UNCHANGED <<rx, received, wait_start, wasted>>
    /\ quiet' = quiet
    /\ UNCHANGED <<resetVars, verifyVars, idVars, listVars, requestVars,
                   refresh_start, rsp_serialno, mutex>>

\* A slip: the round that an assignment used is not given back.
AssignedNoRefund ==
    /\ repeat' = repeat
    /\ verify_repeat' = verify_repeat_cycles
    /\ verifies' = 0
    /\ state' = "VERIFY"
    /\ wasted' = wasted

\* assign_slave() succeeded: allow one more broadcast, verify the slave.
Assigned ==
    /\ repeat' = repeat + 1
    /\ verify_repeat' = verify_repeat_cycles
    /\ verifies' = 0
    /\ state' = "VERIFY"
    /\ wasted' = wasted

NotAssigned ==
    /\ state' = "REPEAT"
    /\ wasted' = wasted + 1
    /\ UNCHANGED <<repeat, verify_repeat, verifies>>

\* What the call knows once receive_response() has been tried: the first
\* response of the window is taken, and counts as the next slave.
Arrived    == ~received /\ RecvOK
Heard      == received \/ Arrived
HeardId    == IF Arrived THEN inc_slave_id ELSE slave_id
HeardSerial == IF Arrived THEN Head(rx).serialno ELSE rsp_serialno
LeftInRx   == IF received THEN rx ELSE RecvRest

\* A slip: only the guard time is waited for.
GuardOnly == Elapsed(wait_start, window_guard_time)

WindowClosed == Elapsed(wait_start, window_time + window_guard_time)

KeepWaiting ==
    /\ ~WindowClosed
    /\ rx' = LeftInRx
    /\ NoTransmission
    /\ UNCHANGED <<state, repeat, verify_repeat, verifies, quiet, wasted>>

AssignHeard ==
    /\ WindowClosed /\ Heard
    /\ rx' = Flushed(LeftInRx)
    /\ quiet' = quiet
    /\ \E sent \in SendOutcomes :
          /\ Send(AssignFrame(PA_DISCO_ADDR, HeardId, HeardSerial), sent)
          /\ IF sent THEN Assigned ELSE NotAssigned

NobodyAnswered ==
    /\ WindowClosed /\ ~Heard
    /\ rx' = LeftInRx
    /\ state' = "REPEAT"
    /\ quiet' = quiet + 1
    /\ NoTransmission
    /\ UNCHANGED <<repeat, verify_repeat, verifies, wasted>>

do_state_wait ==
    /\ state = "WAIT"
    /\ received' = Heard
    /\ slave_id' = HeardId
    /\ wrapped' = (wrapped \/ HeardId < slave_id)
    /\ rsp_serialno' = HeardSerial
    /\ KeepWaiting \/ AssignHeard \/ NobodyAnswered
    /\ UNCHANGED <<resetVars, verify_sent, verify_start, wait_start, listVars,
                   requestVars, refresh_start, mutex>>

\* A slip: the counter is tested before it is decremented.
VerifyFailedLate ==
    /\ verify_repeat' = verify_repeat - 1
    /\ state' = IF verify_repeat < 0 THEN "REPEAT" ELSE state

\* A failed attempt: go on to the next broadcast when no retry is left.
VerifyFailed ==
    /\ verify_repeat' = verify_repeat - 1
    /\ state' = IF verify_repeat - 1 < 0 THEN "REPEAT" ELSE state

\* Phase A: transmit the verify read.
SendVerify ==
    /\ ~verify_sent
    /\ verifies' = verifies + 1
    /\ rx' = Flushed(rx)
    /\ \E sent \in SendOutcomes :
          /\ Send(VerifyFrame(slave_id, ZeroSerial), sent)
          /\ IF sent
             THEN /\ verify_sent' = TRUE
                  /\ verify_start' = Now
                  /\ UNCHANGED <<verify_repeat, state>>
             ELSE VerifyFailed /\ UNCHANGED <<verify_sent, verify_start>>
    /\ UNCHANGED listVars

\* The records an application knows after it is told of rec: the newest one
\* of each serial number.
Told(rec) == {r \in announced : r.serialno # rec.serialno} \cup {rec}

\* notify_cb with a record of the list.
Notify(rec) == announced' = IF "notify" \in Installed THEN Told(rec) ELSE announced

\* Update the record of a known serial number or append a new one; a failed
\* allocation of the record leaves nothing to notify, a failed growth of the
\* list is not looked at.
update_slave_list ==
    LET index == pa_disco_list_find_serialno(list, rsp_serialno)
        rec   == pa_disco_slave_new(slave_id, rsp_serialno)
    IN  \/ /\ index >= 0
           /\ list' = pa_disco_list_set_slave_id(list, index, slave_id)
           /\ Notify(rec)
        \/ /\ index < 0
           /\ \E realloced \in AllocOutcomes :
                 list' = pa_disco_list_append(list, rec, realloced)
           /\ Notify(rec)
        \/ /\ index < 0 /\ FALSE \in AllocOutcomes
           /\ UNCHANGED listVars

\* A response confirms the slave; any retries left are dropped.
VerifyConfirmed ==
    /\ RecvOK
    /\ update_slave_list
    /\ verify_sent' = FALSE
    /\ verify_repeat' = 0
    /\ state' = "REPEAT"

\* A slip: the flag of the outstanding read survives its timeout.
TimedOutStillSent ==
    /\ ~RecvOK /\ Elapsed(verify_start, PA_DISCO_VERIFY_TIMEOUT_MS)
    /\ VerifyFailed
    /\ UNCHANGED <<verify_sent, listVars>>

\* Only a timeout is a failed attempt.
VerifyTimedOut ==
    /\ ~RecvOK /\ Elapsed(verify_start, PA_DISCO_VERIFY_TIMEOUT_MS)
    /\ verify_sent' = FALSE
    /\ VerifyFailed
    /\ UNCHANGED listVars

VerifyPending ==
    /\ ~RecvOK /\ ~Elapsed(verify_start, PA_DISCO_VERIFY_TIMEOUT_MS)
    /\ UNCHANGED <<verify_sent, verify_repeat, state, listVars>>

\* Phase B: poll for the response of the verify read.
PollVerify ==
    /\ verify_sent
    /\ rx' = RecvRest
    /\ VerifyConfirmed \/ VerifyTimedOut \/ VerifyPending
    /\ NoTransmission
    /\ UNCHANGED <<verify_start, verifies>>

do_state_verify ==
    /\ state = "VERIFY"
    /\ SendVerify \/ PollVerify
    /\ UNCHANGED <<resetVars, roundVars, idVars, requestVars, refresh_start,
                   rsp_serialno, mutex>>

do_state_reset_start ==
    /\ state = "RESET_START"
    /\ reset_repeat' = reset_repeat_cycles
    /\ list' = pa_disco_list_clear
    /\ announced' = {}
    /\ state' = "RESET_REPEAT"
    /\ NoTransmission
    /\ UNCHANGED <<wait_reset_start, verifyVars, roundVars, idVars, requestVars,
                   refresh_start, rsp_serialno, rx, mutex>>

do_state_reset_repeat ==
    /\ state = "RESET_REPEAT"
    /\ reset_repeat' = reset_repeat - 1
    /\ \/ /\ reset_repeat - 1 >= 0
          /\ rx' = Flushed(rx)
          /\ \E sent \in SendOutcomes :
                /\ Send(ResetFrame(PA_DISCO_ADDR, ZeroSerial), sent)
                /\ IF sent
                   THEN wait_reset_start' = Now /\ state' = "RESET_WAIT"
                   ELSE UNCHANGED <<wait_reset_start, state>>
       \/ /\ reset_repeat - 1 < 0
          /\ state' = "START"
          /\ NoTransmission
          /\ UNCHANGED <<rx, wait_reset_start>>
    /\ UNCHANGED <<verifyVars, roundVars, idVars, listVars, requestVars,
                   refresh_start, rsp_serialno, mutex>>

do_state_reset_wait ==
    /\ state = "RESET_WAIT"
    /\ state' = IF Elapsed(wait_reset_start, window_guard_time * 2)
                THEN "RESET_REPEAT" ELSE state
    /\ NoTransmission
    /\ UNCHANGED <<resetVars, verifyVars, roundVars, idVars, listVars, requestVars,
                   refresh_start, rsp_serialno, rx, mutex>>

\* A slip: finishing a cycle drops the reset asked for during it.
FinishDropsReset ==
    /\ state = "FINISH"
    /\ refresh_start' = Now
    /\ state' = "IDLE"
    /\ reset' = FALSE
    /\ Unlock
    /\ NoTransmission
    /\ UNCHANGED <<resetVars, verifyVars, roundVars, idVars, listVars, request,
                   rsp_serialno, rx>>

\* Back to IDLE, the final notification (of a list the application already
\* knows) and the release of the bus.
do_state_finish ==
    /\ state = "FINISH"
    /\ refresh_start' = Now
    /\ state' = "IDLE"
    /\ Unlock
    /\ NoTransmission
    /\ UNCHANGED <<resetVars, verifyVars, roundVars, idVars, listVars, requestVars,
                   rsp_serialno, rx>>

pa_disco_master_service ==
    /\ \/ do_state_idle \/ do_state_start \/ do_state_repeat \/ do_state_wait
       \/ do_state_verify \/ do_state_reset_start \/ do_state_reset_repeat
       \/ do_state_reset_wait \/ do_state_finish
    /\ gap' = 0
    /\ ticks' = ticks
------------------------------------------------------------------------------
(***************************************************************************)
(* What happens between two calls.                                         *)
(***************************************************************************)
\* The application asks for a bus reset.
pa_disco_master_reset ==
    /\ reset' = TRUE
    /\ request' = IF state \in {"RESET_START", "RESET_REPEAT", "RESET_WAIT", "START"}
                  THEN "early" ELSE "late"
    /\ tx' = << >>
    /\ UNCHANGED <<state, resetVars, verifyVars, roundVars, idVars, listVars,
                   refresh_start, rsp_serialno, pam_slave, rx, ticks, gap, mutex>>

Tick ==
    /\ gap < MaxGap
    /\ ticks' = (ticks + 1) % TickModulus
    /\ gap' = gap + 1
    /\ tx' = << >>
    /\ UNCHANGED <<ctxVars, pam_slave, rx, mutex>>

\* A response, or a left-over of one, reaches the receiver.
Deliver ==
    /\ Len(rx) < MaxPending
    /\ \E f \in Responses : rx' = Append(rx, f)
    /\ tx' = << >>
    /\ UNCHANGED <<ctxVars, pam_slave, ticks, gap, mutex>>

\* Another task of the application takes the bus, and gives it back.
OtherLock ==
    /\ Contended /\ mutex = "free"
    /\ mutex' = "other"
    /\ tx' = << >>
    /\ UNCHANGED <<ctxVars, pam_slave, rx, ticks, gap>>

OtherUnlock ==
    /\ mutex = "other"
    /\ mutex' = "free"
    /\ tx' = << >>
    /\ UNCHANGED <<ctxVars, pam_slave, rx, ticks, gap>>

Environment == pa_disco_master_reset \/ Tick \/ Deliver \/ OtherLock \/ OtherUnlock

Next == pa_disco_master_service \/ Environment

Spec == Init /\ [][Next]_vars

\* service() is called periodically and the clock runs.
FairSpec == Spec /\ WF_vars(pa_disco_master_service) /\ WF_vars(Tick)
------------------------------------------------------------------------------
(***************************************************************************)
(* Properties.                                                             *)
(***************************************************************************)
RecordType  == [slave_id : Byte, serialno : Serial]
RequestType == [dst : Byte, fn : {"read", "write"}, reg : Nat, nregs : Nat,
                slave_id : Byte, serialno : Serial]

CountersOK ==
    /\ repeat \in -1 .. repeat_cycles
    /\ reset_repeat \in -1 .. reset_repeat_cycles
    /\ verify_repeat \in -1 .. verify_repeat_cycles
    /\ quiet \in Nat /\ wasted \in Nat /\ verifies \in Nat

FlagsOK ==
    /\ verify_sent \in BOOLEAN /\ received \in BOOLEAN
    /\ reset \in BOOLEAN /\ wrapped \in BOOLEAN

ClocksOK ==
    /\ ticks \in Millis /\ gap \in Nat
    /\ verify_start \in Millis /\ refresh_start \in Millis
    /\ wait_start \in Millis /\ wait_reset_start \in Millis

DataOK ==
    /\ state \in States
    /\ slave_id \in Byte /\ pam_slave \in Byte
    /\ rsp_serialno \in Serial
    /\ list \in Seq(RecordType)
    /\ announced \subseteq RecordType
    /\ rx \in Seq(ResponseType)
    /\ tx \in Seq(RequestType) /\ Len(tx) =< 1
    /\ mutex \in {"free", "master", "other"}
    /\ request \in {"none", "early", "late"}

\* Every field of struct pa_disco_master, the receiver and the environment
\* stay in the range their C type and use give them; the counters of the
\* state machine never leave -1 .. the setting they were loaded from.
TypeOK == CountersOK /\ FlagsOK /\ ClocksOK /\ DataOK

\* The mutex protocol of do_state_idle and do_state_finish: with trylock and
\* unlock installed the master owns the bus from the trylock that starts a
\* cycle to the unlock that ends it, and transmits only while it owns it.
BusHeld ==
    {"trylock", "unlock"} \subseteq Installed =>
        /\ state # "IDLE" <=> mutex = "master"
        /\ tx # << >> => mutex = "master"

\* No two records of the list share a serial number, whatever the slaves
\* answer and however often one is found again (update_slave_list).
UniqueSerials ==
    \A i, j \in 1 .. Len(list) : list[i].serialno = list[j].serialno => i = j

\* No two records share an address, as long as the address counter of
\* inc_slave_id has not gone round in this cycle.
UniqueAddresses ==
    ~wrapped => \A i, j \in 1 .. Len(list) : list[i].slave_id = list[j].slave_id => i = j

\* An assignment on the line never hands out the address of a slave that is
\* already listed (do_state_wait), until the counter goes round.
FreshAddress ==
    \A i \in 1 .. Len(tx) :
        (tx[i].fn = "write" /\ tx[i].slave_id # 0 /\ ~wrapped) =>
            \A j \in 1 .. Len(list) : list[j].slave_id # tx[i].slave_id

\* A cycle finishes only after repeat_cycles rounds in which nobody answered or
\* a transmission failed: the repeat++ of do_state_wait gives back exactly the
\* round that an assignment used, and no round is counted twice.
QuietAtFinish == state = "FINISH" => quiet + wasted = repeat_cycles

\* repeat_cycles is documented as the number of broadcasts with zero replies
\* that end a cycle, so that nobody is left when it is complete.
ZeroRepliesAtFinish == state = "FINISH" => quiet = repeat_cycles

\* One assignment is verified at most verify_repeat_cycles + 1 times, a send
\* failure counted like a timeout (do_state_verify).
VerifyBounded == verifies =< verify_repeat_cycles + 1

\* verify_repeat_cycles is documented as the number of verify attempts.
AttemptsAsDocumented == verifies =< verify_repeat_cycles

\* Whatever the master transmits, the receiver was emptied first, so nothing
\* that arrived before a request can be taken for its response.
FreshReceiver == "flush" \in Installed /\ tx # << >> => rx = << >>

\* While a verify read is outstanding the master is in VERIFY and its
\* receiver listens to the address it assigned: a flag left set would skip
\* the next slave's verify read (do_state_verify, both phases).
VerifyPhase ==
    verify_sent => state = "VERIFY" /\ pam_slave = slave_id /\ verifies > 0

\* The application's picture, put together from the notifications of one
\* cycle, is the list (do_state_verify, do_state_reset_start), as long as no
\* allocation fails: a slave that could not be listed is announced all the same.
AnnouncedIsListed == "notify" \in Installed => announced = {list[i] : i \in 1 .. Len(list)}

\* A reset requested outside the reset phase stays pending until it is served.
LateResetKept == request = "late" => reset

\* pa_disco_master_reset is documented to force a bus reset on the next idle
\* cycle: whoever asked before the master was idle is still waiting then.
ResetOnNextIdle == state = "IDLE" /\ request # "none" => reset

\* The list grows or changes only in phase B of a verification, on a response
\* of the very slave that was assigned (or of anyone, if its address is the
\* discovery address), and is otherwise only cleared by a bus reset.
OnlyVerifiedListed ==
    [][list' # list =>
         \/ state = "RESET_START" /\ list' = << >>
         \/ /\ state = "VERIFY" /\ verify_sent
            /\ slave_id \in {Head(rx).src, PA_DISCO_ADDR}]_vars

\* From some moment on nothing arrives and nobody else takes the bus.  Sends
\* may go on failing.
SilentLine == <>[](rx = << >> /\ mutex # "other")

\* On a silent line a new cycle starts over and over: no handler waits for an
\* answer or a deadline that never comes, across wraps of the tick counter and
\* whatever sends fail.
RefreshRecurs == SilentLine => []<>(state = "RESET_START")

\* On a silent line a cycle always comes to its end and gives the mutex back.
BusReleased == SilentLine => []<>(mutex # "master")

\* On a silent line no reset that was requested outside the reset phase waits
\* for ever: only the start of a new cycle serves it.
ResetServed == SilentLine => []<>(request # "late")
------------------------------------------------------------------------------
(***************************************************************************)
(* The cycle that Discovery describes, as this module implements it.       *)
(***************************************************************************)
CyclePhase ==
    IF state = "IDLE" THEN "idle"
    ELSE IF state = "RESET_START" THEN "begun"
    ELSE IF state \in {"RESET_REPEAT", "RESET_WAIT", "START"} THEN "cleared"
    ELSE "searching"

Records == {list[i] : i \in 1 .. Len(list)}

Cycle == INSTANCE Discovery
             WITH Id <- Byte, phase <- CyclePhase, found <- Records, recycled <- wrapped

\* Whatever is answered, lost, late or out of memory, the list of the master
\* goes through what Discovery promises: it is forgotten once, at the start of
\* a cycle, then grows or changes by one slave at a time, at an address no
\* other listed slave has.
ListFollowsCycle == Cycle!Spec
==============================================================================
