------------------------------ MODULE DiscoBus ------------------------------
(***************************************************************************)
(* One discovery master and the slaves on its line: DiscoMaster with its   *)
(* requests delivered to every slave of DiscoSlave, and their answers      *)
(* delivered to its receiver.                                              *)
(*                                                                         *)
(* Faults are what RS-485 does to a frame and what power does to a slave:  *)
(* a request that one slave does not hear, an answer that gets lost (in a  *)
(* collision, say), a slave that restarts.  MaxFaults bounds them.  The    *)
(* master runs at least every MaxGap milliseconds, and a slave that has    *)
(* something to do lets at most SlaveLatency milliseconds go by.           *)
(***************************************************************************)
EXTENDS DiscoMaster, FiniteSets

CONSTANTS
    Slave,                      \* the slaves on the line
    self_serialno, map_serialno,
    disco_window_min, disco_window_max,
    Provided,
    InitialAddress,             \* what slaves may remember when the master starts
    SlaveLatency,
    MaxFaults

VARIABLES
    address, disco_window_wait, disco_window_start, delay, srx, stx,
    late,                       \* for how long a slave with work to do has waited
    faults,                     \* faults that may still happen
    clean                       \* history: no fault since the latest reset began

\* An answer that fails to be built or sent is one that is lost on its way: a
\* fault of SlaveStep, not a second kind of silence.
Dev == INSTANCE DiscoSlave WITH AnswerMayFail <- FALSE

deviceVars == <<address, disco_window_wait, disco_window_start, delay>>
busVars    == <<vars, deviceVars, srx, stx, late, faults, clean>>

\* The documented wiring: slaves know their own serial number, no two share
\* one, and the master's window outlasts the slaves'.
ASSUME SlaveAssumption ==
    /\ IsFiniteSet(Slave) /\ Cardinality(Slave) < IdModulus
    /\ self_serialno \in [Slave -> Serial \ {ZeroSerial}]
    /\ map_serialno \in [Slave -> Serial]
    /\ \A s, t \in Slave : self_serialno[s] = self_serialno[t] => s = t
    /\ InitialAddress \subseteq Byte
    /\ disco_window_min \in Nat /\ disco_window_max \in Nat
    /\ SlaveLatency \in Nat /\ MaxFaults \in Nat
ASSUME TimingAssumption ==
    /\ disco_window_min =< disco_window_max
    /\ disco_window_max + 5 * SlaveLatency < window_time + window_guard_time
    /\ 2 * SlaveLatency < PA_DISCO_VERIFY_TIMEOUT_MS
    /\ SlaveLatency < 2 * window_guard_time

BusInit ==
    /\ Init
    /\ address \in [Slave -> InitialAddress]
    /\ disco_window_wait = [s \in Slave |-> FALSE]
    /\ disco_window_start = [s \in Slave |-> 0]
    /\ delay = [s \in Slave |-> Dev!NoDelay]
    /\ srx = [s \in Slave |-> << >>] /\ stx = << >>
    /\ late = [s \in Slave |-> 0]
    /\ faults = MaxFaults /\ clean = FALSE

\* n faults happen in this step; a bus reset wipes the slate.
Faulty(n) ==
    /\ n =< faults
    /\ faults' = faults - n
    /\ clean' = ((clean \/ (state = "IDLE" /\ state' = "RESET_START")) /\ n = 0)

\* A service() call; what it transmits reaches every slave but the deaf ones.
MasterStep ==
    /\ pa_disco_master_service
    /\ \E deaf \in SUBSET Slave :
          /\ tx' = << >> => deaf = {}
          /\ Faulty(Cardinality(deaf))
          /\ srx' = [s \in Slave |-> IF s \in deaf THEN srx[s] ELSE srx[s] \o tx']
    /\ stx' = << >>
    /\ UNCHANGED <<deviceVars, late>>

BusReset ==
    /\ pa_disco_master_reset
    /\ stx' = << >>
    /\ UNCHANGED <<deviceVars, srx, late, faults, clean>>

\* A slave's call; its answer, if any, reaches the master or is lost.
SlaveStep(s) ==
    /\ Dev!Run(s)
    /\ UNCHANGED <<ctxVars, pam_slave, ticks, gap, mutex>>
    /\ \E lost \in 0 .. Len(stx') :
          /\ Faulty(lost)
          /\ rx' = IF lost = 0 THEN rx \o stx' ELSE rx
    /\ late' = [late EXCEPT ![s] = 0]
    /\ tx' = << >>

SlaveRestart(s) ==
    /\ Dev!Restart(s)
    /\ UNCHANGED <<ctxVars, pam_slave, rx, ticks, gap, mutex>>
    /\ Faulty(1)
    /\ late' = [late EXCEPT ![s] = 0]
    /\ tx' = << >>

\* Something to do: an answer is due, a request waits, a window is over.
Overdue(s) ==
    \/ delay[s] = 0
    \/ delay[s] = Dev!NoDelay /\ srx[s] # << >>
    \/ delay[s] = Dev!NoDelay /\ disco_window_wait[s] /\ Dev!WindowOver(s)

BusTick ==
    /\ Tick
    /\ \A s \in Slave : Overdue(s) => late[s] < SlaveLatency
    /\ late' = [s \in Slave |-> IF Overdue(s) THEN late[s] + 1 ELSE 0]
    /\ Dev!Elapse
    /\ stx' = << >>
    /\ UNCHANGED <<address, disco_window_wait, disco_window_start, srx, faults, clean>>

BusNext ==
    \/ MasterStep \/ BusReset \/ BusTick
    \/ \E s \in Slave : SlaveStep(s)
    \/ \E s \in Slave : SlaveRestart(s)

BusSpec == BusInit /\ [][BusNext]_busVars

\* Everybody's main loop goes round, and the clock runs.
BusFairSpec ==
    /\ BusSpec
    /\ WF_busVars(MasterStep)
    /\ WF_busVars(BusTick)
    /\ \A s \in Slave : WF_busVars(SlaveStep(s))
------------------------------------------------------------------------------
(***************************************************************************)
(* Properties.                                                             *)
(***************************************************************************)
\* The reset phase is over.
AddressesGiven == state \in {"START", "REPEAT", "WAIT", "VERIFY", "FINISH"}

\* README.md promises unique IDs: from the end of the reset phase on, no two
\* slaves answer to the same address, although frames get lost and slaves
\* restart, if fewer than reset_repeat_cycles faults happen (then every slave
\* hears a reset) and the counter does not go round.
OneSlavePerAddress ==
    (AddressesGiven /\ ~wrapped /\ MaxFaults < reset_repeat_cycles) =>
        \A s, t \in Slave : (address[s] = address[t] /\ s # t) => address[s] = 0

\* The list speaks of the slaves on the line: whoever answers to a listed
\* address is the slave that the list names for it.
ListedAreThemselves ==
    (~wrapped /\ MaxFaults < reset_repeat_cycles) =>
        \A i \in 1 .. Len(list), s \in Slave :
            address[s] = list[i].slave_id => self_serialno[s] = list[i].serialno

Listed(s) == [slave_id |-> address[s], serialno |-> self_serialno[s]] \in
                 {list[i] : i \in 1 .. Len(list)}

\* A cycle without faults ends with every slave listed at its own address,
\* whatever addresses the slaves remembered when it began.
CompleteAtFinish ==
    (state = "FINISH" /\ clean /\ repeat_cycles > 0 /\ reset_repeat_cycles > 0) =>
        \A s \in Slave : Listed(s)

\* No request is wasted on a slave that is deaf in its discovery window or
\* blocked in its delay: the windows of a query are over before the master
\* transmits again.
NobodyDeaf ==
    tx # << >> => \A s \in Slave : ~disco_window_wait[s] /\ delay[s] = Dev!NoDelay

\* An assignment is documented to carry the serial number of the slave that
\* responded: never the all-zero one, which every slave would adopt.
AssignmentNamesSlave ==
    \A i \in 1 .. Len(tx) :
        (tx[i].fn = "write" /\ tx[i].slave_id # 0) => tx[i].serialno # ZeroSerial

\* Slaves keep their address except for an assignment with their own serial
\* number, a bus reset, or a restart.
AddressKept ==
    [][\A s \in Slave : address'[s] # address[s] =>
          \/ address'[s] = 0
          \/ /\ srx[s] # << >> /\ Head(srx[s]).fn = "write"
             /\ Head(srx[s]).serialno = self_serialno[s]]_busVars

\* Faults being over at some time, every slave is found again and again.
EverybodyFound == []<>(\A s \in Slave : Listed(s))
==============================================================================
