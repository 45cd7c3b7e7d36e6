--------------------------- MODULE DiscoBusProofs ---------------------------
(***************************************************************************)
(* Proofs about one master and its slaves on a line: the master still      *)
(* implements Discovery when its responses come from slaves, and, given    *)
(* the timing that DiscoBus assumes, no request is sent to a slave that    *)
(* cannot hear it.                                                         *)
(***************************************************************************)
EXTENDS DiscoBus, DiscoCycleProofs

------------------------------------------------------------------------------
(***************************************************************************)
(* Types.                                                                  *)
(***************************************************************************)
Clock == 0 .. (TickModulus - 1)

SlavesOK ==
    /\ address \in [Slave -> Byte]
    /\ disco_window_wait \in [Slave -> BOOLEAN]
    /\ disco_window_start \in [Slave -> Clock]
    /\ delay \in [Slave -> Int]
    /\ srx \in [Slave -> Seq(RequestType)]
    /\ stx \in Seq(ResponseType)
    /\ late \in [Slave -> 0 .. SlaveLatency]

BusTypeInv == TypeInv /\ SlavesOK

LEMMA BusTypeInit == BusInit => BusTypeInv
<1> SUFFICES ASSUME BusInit PROVE BusTypeInv
  OBVIOUS
<1>1. TypeInv
  BY TypeInit DEF BusInit
<1>2. 0 \in Clock /\ 0 \in 0 .. SlaveLatency
  BY WidthAssumption, SlaveAssumption DEF Clock
<1>3. address \in [Slave -> Byte]
  BY SlaveAssumption DEF BusInit
<1>4. << >> \in Seq(RequestType) /\ << >> \in Seq(ResponseType)
  OBVIOUS
<1>5. /\ disco_window_wait \in [Slave -> BOOLEAN]
      /\ disco_window_start \in [Slave -> Clock]
      /\ late \in [Slave -> 0 .. SlaveLatency]
  BY <1>2 DEF BusInit
<1>6. delay \in [Slave -> Int] /\ srx \in [Slave -> Seq(RequestType)] /\ stx \in Seq(ResponseType)
  BY <1>4 DEF BusInit, Dev!NoDelay
<1> QED BY <1>1, <1>3, <1>5, <1>6 DEF BusTypeInv, SlavesOK

\* What a slave transmits is a response of its own.
LEMMA AnswerType ==
    ASSUME BusTypeInv, NEW s \in Slave, NEW serial \in Serial, Dev!Answer(s, serial)
    PROVE  stx' \in Seq(ResponseType)
<1>1. [src |-> address[s], serialno |-> serial] \in ResponseType
  BY DEF BusTypeInv, SlavesOK, ResponseType
<1>2. stx' = <<[src |-> address[s], serialno |-> serial]>>
  BY DEF Dev!Answer
<1> QED BY <1>1, <1>2

LEMMA NoAnswerType == Dev!NoAnswer => stx' \in Seq(ResponseType)
BY DEF Dev!NoAnswer

\* The slave that runs, call by call.
LEMMA RunTypes ==
    ASSUME BusTypeInv, NEW s \in Slave, Dev!Run(s)
    PROVE  /\ address' \in [Slave -> Byte]
           /\ disco_window_wait' \in [Slave -> BOOLEAN]
           /\ disco_window_start' \in [Slave -> Clock]
           /\ delay' \in [Slave -> Int]
           /\ srx' \in [Slave -> Seq(RequestType)]
           /\ stx' \in Seq(ResponseType)
<1> USE DEF BusTypeInv, SlavesOK
<1>1. CASE Dev!pa_disco_slave_service(s)
  <2>1. Dev!WindowOver(s) \in BOOLEAN
    BY DEF Dev!WindowOver
  <2>2. << >> \in Seq(RequestType)
    OBVIOUS
  <2>3. srx' \in [Slave -> Seq(RequestType)]
    BY <1>1, <2>2 DEF Dev!pa_disco_slave_service
  <2>4. stx' \in Seq(ResponseType)
    BY <1>1, NoAnswerType DEF Dev!pa_disco_slave_service
  <2> QED BY <1>1, <2>1, <2>3, <2>4 DEF Dev!pa_disco_slave_service
<1>2. CASE Dev!pa_disco_register_map_service(s)
  <2> DEFINE f == Head(srx[s])
  <2>1. srx[s] \in Seq(RequestType) /\ srx[s] # << >>
    BY <1>2 DEF Dev!pa_disco_register_map_service
  <2>2. f \in RequestType /\ Tail(srx[s]) \in Seq(RequestType)
    BY <2>1
  <2>3. f.slave_id \in Byte
    BY <2>2 DEF RequestType
  <2>4. srx' \in [Slave -> Seq(RequestType)]
    BY <1>2, <2>2 DEF Dev!pa_disco_register_map_service
  <2> HIDE DEF f
  <2>5. CASE /\ ~Dev!Addressed(s, f) /\ Dev!NoAnswer
             /\ UNCHANGED <<address, disco_window_wait, disco_window_start, delay>>
    BY <2>4, <2>5, NoAnswerType
  <2>6. CASE Dev!pa_disco_slave_read_cb(s, f) /\ UNCHANGED address
    <3>1. CASE Dev!AnswerQuery(s)
      <4>1. Dev!SlaveNow \in Clock
        BY WidthAssumption DEF Dev!SlaveNow, Clock, TypeInv, TypeOK, ClocksOK, Millis
      <4>2. PICK d \in (IF {"delay_ms", "random"} \subseteq Provided
                        THEN disco_window_min .. disco_window_max ELSE {0}) :
               delay' = [delay EXCEPT ![s] = d]
        BY <3>1 DEF Dev!AnswerQuery
      <4>3. d \in Int
        OBVIOUS
      <4>4. stx' \in Seq(ResponseType)
        BY <3>1, NoAnswerType DEF Dev!AnswerQuery
      <4> QED BY <2>4, <2>6, <3>1, <4>1, <4>2, <4>3, <4>4 DEF Dev!AnswerQuery
    <3>2. CASE ~Dev!AnswerQuery(s)
      <4>1. /\ Dev!NoAnswer \/ Dev!Answer(s, ZeroSerial)
            /\ UNCHANGED <<disco_window_wait, disco_window_start, delay>>
        BY <2>6, <3>2 DEF Dev!pa_disco_slave_read_cb
      <4>2. stx' \in Seq(ResponseType)
        BY <4>1, NoAnswerType, AnswerType, SerialAssumption
      <4> QED BY <2>4, <2>6, <4>1, <4>2
    <3> QED BY <3>1, <3>2
  <2>7. CASE /\ Dev!pa_disco_slave_write_cb(s, f)
             /\ UNCHANGED <<disco_window_wait, disco_window_start, delay>>
    <3>1. stx' \in Seq(ResponseType)
      BY <2>7, NoAnswerType, AnswerType, SerialAssumption DEF Dev!pa_disco_slave_write_cb
    <3>2. address' \in [Slave -> Byte]
      BY <2>7, <2>3 DEF Dev!pa_disco_slave_write_cb
    <3> QED BY <2>4, <2>7, <3>1, <3>2
  <2> QED BY <1>2, <2>5, <2>6, <2>7 DEF Dev!pa_disco_register_map_service, f
<1>3. CASE Dev!Reply(s)
  <2>1. map_serialno[s] \in Serial
    BY SlaveAssumption
  <2>2. stx' \in Seq(ResponseType)
    BY <1>3, <2>1, AnswerType DEF Dev!Reply
  <2> QED BY <1>3, <2>2 DEF Dev!Reply, Dev!NoDelay
<1> QED BY <1>1, <1>2, <1>3 DEF Dev!Run

\* The master is in range after a slave's step too: only its receiver and the
\* request on the line change.
LEMMA MasterUntouched ==
    ASSUME TypeInv, UNCHANGED <<ctxVars, pam_slave, ticks, gap, mutex>>,
           rx' \in Seq(ResponseType), tx' = << >>
    PROVE  TypeInv'
<1> USE DEF TypeInv, TypeOK, ctxVars, resetVars, verifyVars, roundVars, idVars, listVars, requestVars
<1>1. CountersOK' /\ ClocksOK' /\ Conserved' /\ VerifyBounded'
  BY DEF CountersOK, ClocksOK, Conserved, VerifyBounded
<1>2. FlagsOK'
  BY Zenon DEF FlagsOK
<1>3. DataOK'
  <2>1. << >> \in Seq(RequestType) /\ Len(<< >>) =< 1
    OBVIOUS
  <2> QED BY <2>1 DEF DataOK
<1> QED BY <1>1, <1>2, <1>3

LEMMA ResponsesJoined ==
    ASSUME NEW a \in Seq(ResponseType), NEW b \in Seq(ResponseType)
    PROVE  a \o b \in Seq(ResponseType)
OBVIOUS

LEMMA BusTypeStep == BusTypeInv /\ [BusNext]_busVars => BusTypeInv'
<1> SUFFICES ASSUME BusTypeInv, [BusNext]_busVars PROVE BusTypeInv'
  OBVIOUS
<1>0. TypeInv /\ SlavesOK
  BY DEF BusTypeInv
<1>1. CASE MasterStep
  <2>1. TypeInv'
    BY <1>0, <1>1, TypeService DEF MasterStep
  <2>2. tx' \in Seq(RequestType)
    BY <2>1 DEF TypeInv, TypeOK, DataOK
  <2>3. PICK deaf \in SUBSET Slave :
           srx' = [s \in Slave |-> IF s \in deaf THEN srx[s] ELSE srx[s] \o tx']
    BY <1>1 DEF MasterStep
  <2>4. srx' \in [Slave -> Seq(RequestType)]
    BY <1>0, <2>2, <2>3 DEF SlavesOK
  <2>5. stx' \in Seq(ResponseType)
    BY <1>1 DEF MasterStep
  <2> QED BY <1>0, <1>1, <2>1, <2>4, <2>5 DEF MasterStep, SlavesOK, BusTypeInv, deviceVars
<1>2. CASE BusReset
  <2>1. TypeInv'
    BY <1>0, <1>2, TypeEnvironment DEF BusReset, Environment
  <2>2. stx' \in Seq(ResponseType)
    BY <1>2 DEF BusReset
  <2> QED BY <1>0, <1>2, <2>1, <2>2 DEF BusReset, SlavesOK, BusTypeInv, deviceVars
<1>3. CASE BusTick
  <2>1. TypeInv'
    BY <1>0, <1>3, TypeEnvironment DEF BusTick, Environment
  <2>2. stx' \in Seq(ResponseType)
    BY <1>3 DEF BusTick
  <2>3. late' \in [Slave -> 0 .. SlaveLatency]
    <3>1. ASSUME NEW s \in Slave
          PROVE  (IF Overdue(s) THEN late[s] + 1 ELSE 0) \in 0 .. SlaveLatency
      <4>1. late[s] \in 0 .. SlaveLatency /\ SlaveLatency \in Nat
        BY <1>0, SlaveAssumption DEF SlavesOK
      <4>2. Overdue(s) => late[s] < SlaveLatency
        BY <1>3 DEF BusTick
      <4> QED BY <4>1, <4>2
    <3> QED BY <1>3, <3>1 DEF BusTick
  <2>4. delay' \in [Slave -> Int]
    BY <1>0, <1>3 DEF BusTick, Dev!Elapse, SlavesOK
  <2> QED BY <1>0, <1>3, <2>1, <2>2, <2>3, <2>4 DEF BusTick, SlavesOK, BusTypeInv
<1>4. 0 \in Clock /\ 0 \in 0 .. SlaveLatency /\ 0 \in Byte
  BY WidthAssumption, SlaveAssumption DEF Clock, Byte
<1>5. ASSUME NEW s \in Slave, SlaveStep(s) PROVE BusTypeInv'
  <2>1. Dev!Run(s)
    BY <1>5 DEF SlaveStep
  <2>2. stx' \in Seq(ResponseType)
    BY <2>1, RunTypes
  <2>3. rx' = rx \o stx' \/ rx' = rx
    BY <1>5 DEF SlaveStep
  <2>4. rx' \in Seq(ResponseType)
    <3>1. rx \in Seq(ResponseType)
      BY <1>0 DEF TypeInv, TypeOK, DataOK
    <3>2. CASE rx' = rx \o stx'
      BY <2>2, <3>1, <3>2, ResponsesJoined
    <3> QED BY <2>3, <3>1, <3>2
  <2>5. TypeInv'
    BY <1>0, <1>5, <2>4, MasterUntouched DEF SlaveStep
  <2>6. late' \in [Slave -> 0 .. SlaveLatency]
    BY <1>0, <1>4, <1>5 DEF SlaveStep, SlavesOK
  <2> QED BY <2>1, <2>5, <2>6, RunTypes DEF SlavesOK, BusTypeInv
<1>6. ASSUME NEW s \in Slave, SlaveRestart(s) PROVE BusTypeInv'
  <2>1. TypeInv'
    BY <1>0, <1>6, MasterUntouched DEF SlaveRestart, TypeInv, TypeOK, DataOK
  <2>2. << >> \in Seq(RequestType) /\ stx' \in Seq(ResponseType)
    BY <1>6, NoAnswerType DEF SlaveRestart, Dev!Restart
  <2>3. late' \in [Slave -> 0 .. SlaveLatency]
    BY <1>0, <1>4, <1>6 DEF SlaveRestart, SlavesOK
  <2>4. /\ address' \in [Slave -> Byte]
        /\ disco_window_wait' \in [Slave -> BOOLEAN]
        /\ disco_window_start' \in [Slave -> Clock]
    BY <1>0, <1>4, <1>6 DEF SlaveRestart, Dev!Restart, SlavesOK
  <2>5. delay' \in [Slave -> Int] /\ srx' \in [Slave -> Seq(RequestType)]
    BY <1>0, <1>6, <2>2 DEF SlaveRestart, Dev!Restart, SlavesOK, Dev!NoDelay
  <2> QED BY <2>1, <2>2, <2>3, <2>4, <2>5 DEF SlavesOK, BusTypeInv
<1>7. CASE UNCHANGED busVars
  <2>1. TypeInv'
    BY <1>0, <1>7, TypeEnvironment DEF busVars
  <2> QED BY <1>0, <1>7, <2>1 DEF busVars, deviceVars, SlavesOK, BusTypeInv
<1> QED BY <1>1, <1>2, <1>3, <1>5, <1>6, <1>7 DEF BusNext

LEMMA BusTypeInvariant == BusSpec => []BusTypeInv
BY BusTypeInit, BusTypeStep, PTL DEF BusSpec

\* Every variable of the master stays in its C range while it talks to slaves.
THEOREM BusTypeCorrect == BusSpec => []TypeOK
<1>1. BusTypeInv => TypeOK
  BY DEF BusTypeInv, TypeInv
<1> QED BY <1>1, BusTypeInvariant, PTL

------------------------------------------------------------------------------
(***************************************************************************)
(* The master still implements Discovery.                                  *)
(***************************************************************************)
\* Whatever is not a service() call leaves the cycle alone.
LEMMA OthersKeepCycle ==
    ASSUME [BusNext]_busVars, ~MasterStep
    PROVE  UNCHANGED <<state, list, wrapped, slave_id, received>>
<1> USE DEF ctxVars, roundVars, idVars, listVars
<1>1. CASE BusReset
  BY <1>1 DEF BusReset, pa_disco_master_reset
<1>2. CASE BusTick
  BY <1>2 DEF BusTick, Tick
<1>3. ASSUME NEW s \in Slave, SlaveStep(s) \/ SlaveRestart(s)
      PROVE  UNCHANGED <<state, list, wrapped, slave_id, received>>
  BY <1>3 DEF SlaveStep, SlaveRestart
<1>4. CASE UNCHANGED busVars
  BY <1>4 DEF busVars, vars
<1> QED BY <1>1, <1>2, <1>3, <1>4 DEF BusNext

BusCycleInv == BusTypeInv /\ ListInv /\ Numbered

LEMMA BusCycleStep == BusCycleInv /\ [BusNext]_busVars => BusCycleInv'
<1> SUFFICES ASSUME BusCycleInv, [BusNext]_busVars PROVE BusCycleInv'
  OBVIOUS
<1>1. BusTypeInv' /\ CycleInv
  BY BusTypeStep DEF BusCycleInv, BusTypeInv, CycleInv
<1>2. CASE MasterStep
  BY <1>1, <1>2, ListService, NumberedService DEF MasterStep, BusCycleInv, CycleInv
<1>3. CASE ~MasterStep
  <2>1. UNCHANGED <<state, list, wrapped, slave_id, received>>
    BY <1>3, OthersKeepCycle
  <2>2. ListInv'
    BY <1>1, <2>1, ListKept DEF CycleInv, ListInv
  <2>3. Numbered'
    BY <1>1, <2>1, NumberedKept DEF CycleInv
  <2> QED BY <1>1, <2>2, <2>3 DEF BusCycleInv
<1> QED BY <1>2, <1>3

LEMMA BusCycleInvariant == BusSpec => []BusCycleInv
<1>1. BusInit => BusCycleInv
  <2> SUFFICES ASSUME BusInit PROVE BusCycleInv
    OBVIOUS
  <2>1. Init
    BY DEF BusInit
  <2>2. Numbered
    BY <2>1 DEF Init, Numbered
  <2> QED BY <2>1, <2>2, BusTypeInit, ListInit DEF BusCycleInv
<1> QED BY <1>1, BusCycleStep, PTL DEF BusSpec

\* With slaves for its environment, which is not the one the theorems about
\* DiscoMaster assume, every step of the master is still a step of the
\* abstract cycle, and the steps of the slaves show nothing in it.
THEOREM BusImplementsDiscovery == BusSpec => ListFollowsCycle
<1>1. BusInit => Cycle!Init
  BY DEF BusInit, Init, Cycle!Init, CyclePhase, Records, pa_disco_list_clear
<1>2. BusCycleInv /\ [BusNext]_busVars => [Cycle!Next]_cycleVars
  <2> SUFFICES ASSUME BusCycleInv, [BusNext]_busVars PROVE [Cycle!Next]_cycleVars
    OBVIOUS
  <2>1. CASE MasterStep
    BY <2>1, ServiceFollowsCycle DEF MasterStep, BusCycleInv, BusTypeInv, CycleInv
  <2>2. CASE ~MasterStep
    BY <2>2, OthersKeepCycle DEF CyclePhase, Records, cycleVars
  <2> QED BY <2>1, <2>2
<1>3. BusCycleInv /\ [BusNext]_busVars => [Cycle!Next]_Cycle!discoveryVars
  BY <1>2 DEF cycleVars, Cycle!discoveryVars
<1> QED BY <1>1, <1>3, BusCycleInvariant, PTL DEF BusSpec, ListFollowsCycle, Cycle!Spec

------------------------------------------------------------------------------
(***************************************************************************)
(* Nobody is deaf when the master transmits.                               *)
(***************************************************************************)
\* What the theorem needs of the wiring: both sides have a clock, and the
\* master's window is shorter than the time the clock takes to go round.
ClocksWork ==
    /\ "get_ticks" \in Installed /\ "get_ticks" \in Provided
    /\ window_time + window_guard_time < TickModulus

Since(start) == (ticks - start) % TickModulus

NotQuery(f) == ~(f.fn = "read" /\ IsFullBlock(f))

\* Neither in a discovery window nor in the delay before an answer.
Attentive(s) == ~disco_window_wait[s] /\ delay[s] = Dev!NoDelay

\* A slave takes at most SlaveLatency for each request that waits: with n of
\* them when the master began to wait at start, so many are left by now.
Served(s, n, start) ==
    /\ Len(srx[s]) =< n
    /\ Len(srx[s]) = n     => Since(start) =< late[s]
    /\ Len(srx[s]) = n - 1 => Since(start) =< SlaveLatency + late[s]
    /\ Len(srx[s]) = n - 2 => Since(start) =< 2 * SlaveLatency + late[s]

\* The stages of a slave while the master waits for answers to a query: nothing
\* to do; requests waiting, the query last; the delay; the rest of the window.
Idle(s) == Attentive(s) /\ srx[s] = << >>

Queued(s) ==
    /\ Attentive(s) /\ srx[s] # << >>
    /\ Served(s, 3, wait_start)
    /\ \A i \in 1 .. (Len(srx[s]) - 1) : NotQuery(srx[s][i])

InOwnWindow(s) ==
    /\ disco_window_wait[s] /\ srx[s] = << >>
    /\ Since(wait_start) =< 3 * SlaveLatency + Since(disco_window_start[s])

Delaying(s) ==
    /\ InOwnWindow(s) /\ delay[s] >= 0
    /\ Since(disco_window_start[s]) + delay[s]
           =< disco_window_max + (IF delay[s] = 0 THEN late[s] ELSE 0)

Closing(s) ==
    /\ InOwnWindow(s) /\ delay[s] = Dev!NoDelay
    /\ Since(disco_window_start[s]) =< disco_window_max + SlaveLatency + late[s]

Stage(s) == Idle(s) \/ Queued(s) \/ Delaying(s) \/ Closing(s)

\* While the master does not wait for answers, every slave listens, no query
\* is left anywhere, and requests pile up no higher than the master's waiting
\* allows.
Listening(s) ==
    /\ Attentive(s)
    /\ \A i \in 1 .. Len(srx[s]) : NotQuery(srx[s][i])
    /\ Len(srx[s]) =< 3
    /\ state = "RESET_WAIT" => (Len(srx[s]) = 3 => Since(wait_reset_start) =< late[s])
    /\ state # "RESET_WAIT" => Len(srx[s]) =< 2
    /\ state = "VERIFY" /\ ~verify_sent => Len(srx[s]) =< 1
    /\ state = "VERIFY" /\ verify_sent =>
          /\ Len(srx[s]) = 2 => Since(verify_start) =< late[s]
          /\ Len(srx[s]) = 1 => Since(verify_start) =< SlaveLatency + late[s]

Ready(s) == IF state = "WAIT" THEN Stage(s) ELSE Listening(s)

AllReady == BusTypeInv /\ NobodyDeaf /\ \A s \in Slave : Ready(s)

LEMMA SlaveTypes ==
    ASSUME BusTypeInv, NEW s \in Slave
    PROVE  /\ disco_window_wait[s] \in BOOLEAN
           /\ disco_window_start[s] \in Clock
           /\ delay[s] \in Int
           /\ srx[s] \in Seq(RequestType)
           /\ late[s] \in 0 .. SlaveLatency
           /\ SlaveLatency \in Nat /\ disco_window_max \in Nat /\ disco_window_min \in Nat
           /\ window_time \in Nat /\ window_guard_time \in Nat
           /\ PA_DISCO_VERIFY_TIMEOUT_MS \in Nat
BY SlaveAssumption, SettingsAssumption DEF BusTypeInv, SlavesOK

LEMMA ClockTypes ==
    ASSUME BusTypeInv
    PROVE  /\ ticks \in Clock /\ wait_start \in Clock
           /\ verify_start \in Clock /\ wait_reset_start \in Clock
           /\ TickModulus \in Nat \ {0}
BY WidthAssumption DEF BusTypeInv, TypeInv, TypeOK, ClocksOK, Millis, Clock

\* Differences of two times wrap at most once.
LEMMA ClockWraps ==
    ASSUME TickModulus \in Nat \ {0}
    PROVE  /\ \A x, y \in Clock :
                 (x - y) % TickModulus = IF x >= y THEN x - y ELSE x - y + TickModulus
           /\ \A x \in Clock :
                 (x + 1) % TickModulus = IF x + 1 = TickModulus THEN 0 ELSE x + 1
<1>1. ASSUME NEW x \in Clock, NEW y \in Clock
      PROVE  (x - y) % TickModulus = IF x >= y THEN x - y ELSE x - y + TickModulus
  BY DEF Clock
<1>2. ASSUME NEW x \in Clock
      PROVE  (x + 1) % TickModulus = IF x + 1 = TickModulus THEN 0 ELSE x + 1
  BY DEF Clock
<1> QED BY <1>1, <1>2

LEMMA SinceType ==
    ASSUME BusTypeInv, NEW start \in Clock
    PROVE  Since(start) \in Clock /\ (start = ticks => Since(start) = 0)
<1>1. Since(start) = IF ticks >= start THEN ticks - start ELSE ticks - start + TickModulus
  BY ClockTypes, ClockWraps DEF Since
<1> QED BY <1>1, ClockTypes DEF Clock

\* A tick adds one to the time since start, or starts it over.
LEMMA SinceTick ==
    ASSUME BusTypeInv, NEW start \in Clock, ticks' = (ticks + 1) % TickModulus
    PROVE  (ticks' - start) % TickModulus =
               IF Since(start) + 1 < TickModulus THEN Since(start) + 1 ELSE 0
<1>1. /\ ticks \in Clock /\ TickModulus \in Nat \ {0}
      /\ ticks' = IF ticks + 1 = TickModulus THEN 0 ELSE ticks + 1
  BY ClockTypes, ClockWraps
<1>2. ticks' \in Clock
  BY <1>1 DEF Clock
<1>3. /\ Since(start) = IF ticks >= start THEN ticks - start ELSE ticks - start + TickModulus
      /\ (ticks' - start) % TickModulus =
             IF ticks' >= start THEN ticks' - start ELSE ticks' - start + TickModulus
  BY <1>1, <1>2, ClockWraps DEF Since
<1> QED BY <1>1, <1>3 DEF Clock

\* A step that touches neither this slave nor the master's waiting.
LEMMA ReadyKept ==
    ASSUME NEW s \in Slave, Ready(s),
           UNCHANGED <<state, verify_sent, wait_start, verify_start, wait_reset_start, ticks>>,
           srx'[s] = srx[s], disco_window_wait'[s] = disco_window_wait[s],
           disco_window_start'[s] = disco_window_start[s],
           delay'[s] = delay[s], late'[s] = late[s]
    PROVE  Ready(s)'
BY DEF Ready, Stage, Idle, Queued, Delaying, Closing, InOwnWindow, Served, Listening,
       Attentive, Since

\* Once the master's window is over, so are those of all slaves, whatever
\* stage they were in.
LEMMA WindowsOver ==
    ASSUME BusTypeInv, NEW s \in Slave, Stage(s), ClocksWork, WindowClosed
    PROVE  Idle(s)
<1>1. Since(wait_start) >= window_time + window_guard_time
  BY DEF WindowClosed, Elapsed, Since
<1> DEFINE age  == Since(wait_start)
           open == Since(disco_window_start[s])
<1>2. /\ age \in Int /\ open \in Int
      /\ late[s] \in 0 .. SlaveLatency /\ delay[s] \in Int
      /\ SlaveLatency \in Nat /\ disco_window_max \in Nat
      /\ window_time \in Nat /\ window_guard_time \in Nat
  <2>1. age \in Clock
    BY SinceType, ClockTypes
  <2>2. open \in Clock
    BY SinceType, SlaveTypes
  <2> QED BY <2>1, <2>2, SlaveTypes, ClockTypes DEF Clock
<1>3. age > disco_window_max + 5 * SlaveLatency
  BY <1>1, <1>2, TimingAssumption
<1>4. InOwnWindow(s) => age =< 3 * SlaveLatency + open
  BY DEF InOwnWindow
<1>5. ~Delaying(s)
  <2>1. Delaying(s) => open =< disco_window_max + SlaveLatency
    BY <1>2 DEF Delaying
  <2>2. InOwnWindow(s) => open > disco_window_max + 2 * SlaveLatency
    BY <1>2, <1>3, <1>4
  <2> QED BY <1>2, <2>1, <2>2 DEF Delaying
<1>6. ~Closing(s)
  <2>1. Closing(s) => open =< disco_window_max + 2 * SlaveLatency
    BY <1>2 DEF Closing
  <2>2. InOwnWindow(s) => open > disco_window_max + 2 * SlaveLatency
    BY <1>2, <1>3, <1>4
  <2> QED BY <1>2, <2>1, <2>2 DEF Closing
<1>7. ~Queued(s)
  <2>1. srx[s] # << >> => Len(srx[s]) \in Nat \ {0}
    BY SlaveTypes
  <2>2. Queued(s) => Served(s, 3, wait_start) /\ srx[s] # << >>
    BY DEF Queued
  <2> DEFINE n == Len(srx[s])
  <2>3. Queued(s) =>
           /\ n =< 3
           /\ n = 3 => age =< late[s]
           /\ n = 2 => age =< SlaveLatency + late[s]
           /\ n = 1 => age =< 2 * SlaveLatency + late[s]
    BY <2>2 DEF Served
  <2> HIDE DEF age, n
  <2>4. Queued(s) => age =< 3 * SlaveLatency
    <3> SUFFICES ASSUME Queued(s) PROVE age =< 3 * SlaveLatency
      OBVIOUS
    <3>0. n \in Nat \ {0} /\ n =< 3
      BY <2>1, <2>2, <2>3, Zenon DEF n
    <3>1. n \in {1, 2, 3}
      BY <3>0
    <3>2. late[s] =< SlaveLatency /\ late[s] \in Nat
      BY <1>2
    <3>3. age \in Int /\ SlaveLatency \in Nat
      BY <1>2
    <3> HIDE DEF open
    <3>4. CASE n = 1
      BY <2>3, <3>2, <3>3, <3>4
    <3>5. CASE n = 2
      BY <2>3, <3>2, <3>3, <3>5
    <3>6. CASE n = 3
      BY <2>3, <3>2, <3>3, <3>6
    <3> QED BY <3>1, <3>4, <3>5, <3>6
  <2> QED BY <1>2, <1>3, <2>4
<1> QED BY <1>5, <1>6, <1>7 DEF Stage

\* Appending a request keeps what was there.
LEMMA Appended ==
    ASSUME NEW q \in Seq(RequestType), NEW f, NEW r, r = q \o <<f>>
    PROVE  /\ Len(r) = Len(q) + 1 /\ r # << >>
           /\ \A i \in 1 .. Len(q) : r[i] = q[i]
           /\ r[Len(q) + 1] = f
OBVIOUS

\* What a slave sees of a service() call: its own state is untouched, and its
\* receiver holds the request as well, or does not if the slave is deaf.
LEMMA MasterHeard ==
    ASSUME BusTypeInv, MasterStep, NEW s \in Slave
    PROVE  /\ disco_window_wait'[s] = disco_window_wait[s]
           /\ disco_window_start'[s] = disco_window_start[s]
           /\ delay'[s] = delay[s] /\ late'[s] = late[s]
           /\ ticks' = ticks
           /\ srx'[s] = srx[s] \/ srx'[s] = srx[s] \o tx'
           /\ tx' = << >> => srx'[s] = srx[s]
<1>1. PICK deaf \in SUBSET Slave :
         srx' = [t \in Slave |-> IF t \in deaf THEN srx[t] ELSE srx[t] \o tx']
  BY DEF MasterStep
<1>2. srx'[s] = srx[s] \/ srx'[s] = srx[s] \o tx'
  BY <1>1
<1>3. tx' = << >> => srx[s] \o tx' = srx[s]
  BY SlaveTypes
<1>4. ticks' = ticks
  BY DEF MasterStep, pa_disco_master_service
<1> QED BY <1>2, <1>3, <1>4 DEF MasterStep, deviceVars

\* A request other than a query reaches a slave that listens.
LEMMA ListenerHeard ==
    ASSUME BusTypeInv, MasterStep, NEW s \in Slave, Listening(s),
           NEW f, NotQuery(f), tx' = << >> \/ tx' = <<f>>
    PROVE  /\ Attentive(s)'
           /\ \A i \in 1 .. Len(srx'[s]) : NotQuery(srx'[s][i])
           /\ srx'[s] = srx[s] \/ Len(srx'[s]) = Len(srx[s]) + 1
<1> DEFINE q == srx[s]
           r == srx'[s]
<1>1. q \in Seq(RequestType) /\ \A i \in 1 .. Len(q) : NotQuery(q[i])
  BY SlaveTypes DEF Listening
<1>2. r = q \/ r = q \o <<f>>
  BY MasterHeard
<1>3. Attentive(s)'
  BY MasterHeard DEF Listening, Attentive
<1> HIDE DEF q, r
<1>4. CASE r = q \o <<f>>
  <2>1. /\ Len(r) = Len(q) + 1
        /\ \A i \in 1 .. Len(q) : r[i] = q[i]
        /\ r[Len(q) + 1] = f
    BY <1>1, <1>4, Appended
  <2>2. Len(q) \in Nat
    BY <1>1
  <2>3. ASSUME NEW i \in 1 .. Len(r) PROVE NotQuery(r[i])
    <3>1. i \in 1 .. Len(q) \/ i = Len(q) + 1
      BY <2>1, <2>2
    <3> QED BY <1>1, <2>1, <3>1
  <2> QED BY <1>3, <2>1, <2>3 DEF q, r
<1>5. CASE r = q
  BY <1>1, <1>3, <1>5 DEF q, r
<1> QED BY <1>2, <1>4, <1>5

\* The query reaches a slave that listens: it is the last of its requests.
LEMMA QueryHeard ==
    ASSUME BusTypeInv, MasterStep, NEW s \in Slave, Listening(s), Len(srx[s]) =< 2,
           state' = "WAIT", wait_start' = ticks',
           NEW f, tx' = <<f>>
    PROVE  Stage(s)'
<1> DEFINE q == srx[s]
           r == srx'[s]
<1>1. q \in Seq(RequestType) /\ Len(q) \in Nat /\ \A i \in 1 .. Len(q) : NotQuery(q[i])
  BY SlaveTypes DEF Listening
<1>2. r = q \/ r = q \o <<f>>
  BY MasterHeard
<1>3. Attentive(s)'
  BY MasterHeard DEF Listening, Attentive
<1>4. Since(wait_start)' = 0
  <2>1. wait_start' = ticks /\ ticks' = ticks
    BY MasterHeard
  <2>2. Since(ticks) = 0
    BY SinceType, ClockTypes
  <2> QED BY <2>1, <2>2 DEF Since
<1>5. late'[s] \in Nat /\ SlaveLatency \in Nat
  BY MasterHeard, SlaveTypes
<1> HIDE DEF q, r
<1>6. Len(r) =< 3 /\ \A i \in 1 .. (Len(r) - 1) : NotQuery(r[i])
  <2>1. CASE r = q \o <<f>>
    <3>1. Len(r) = Len(q) + 1 /\ \A i \in 1 .. Len(q) : r[i] = q[i]
      BY <1>1, <2>1, Appended
    <3> QED BY <1>1, <3>1 DEF q
  <2>2. CASE r = q
    BY <1>1, <2>2 DEF q
  <2> QED BY <1>2, <2>1, <2>2
<1>7. CASE r = << >>
  BY <1>3, <1>7 DEF r, Stage, Idle
<1>8. CASE r # << >>
  <2>1. Served(s, 3, wait_start)'
    BY <1>4, <1>5, <1>6 DEF Served, r
  <2>2. Queued(s)'
    BY <1>3, <1>6, <1>8, <2>1 DEF Queued, r
  <2> QED BY <2>2 DEF Stage
<1> QED BY <1>7, <1>8

\* The requests of the master that are not queries.
LEMMA FramesNotQueries ==
    /\ NotQuery(ResetFrame(PA_DISCO_ADDR, ZeroSerial))
    /\ \A id : NotQuery(VerifyFrame(id, ZeroSerial))
    /\ \A id, serial : NotQuery(AssignFrame(PA_DISCO_ADDR, id, serial))
BY DEF NotQuery, ResetFrame, VerifyFrame, AssignFrame, Request, IsFullBlock,
       PA_DISCO_VERIFY_REG, PA_DISCO_REG_START

\* Between the states in which the master waits, two requests may be left.
Passing == {"IDLE", "START", "REPEAT", "RESET_START", "RESET_REPEAT", "FINISH"}

\* A step that transmits nothing, between two such states.
LEMMA ReadyPassing ==
    ASSUME BusTypeInv, MasterStep, NEW s \in Slave, Listening(s), Len(srx[s]) =< 2,
           state' \in Passing, tx' = << >>
    PROVE  Ready(s)'
<1>1. srx'[s] = srx[s] /\ delay'[s] = delay[s] /\ disco_window_wait'[s] = disco_window_wait[s]
  BY MasterHeard
<1>2. Len(srx[s]) \in Nat
  BY SlaveTypes
<1> QED BY <1>1, <1>2 DEF Ready, Listening, Attentive, Passing

LEMMA ReadyRepeat ==
    ASSUME AllReady, ClocksWork, MasterStep, do_state_repeat, NEW s \in Slave
    PROVE  Ready(s)'
<1>1. BusTypeInv /\ Listening(s) /\ Len(srx[s]) =< 2
  BY DEF AllReady, Ready, Listening, do_state_repeat
<1>2. CASE tx' = << >>
  <2>1. state' \in Passing
    BY <1>2 DEF do_state_repeat, Send, Passing
  <2> QED BY <1>1, <1>2, <2>1, ReadyPassing
<1>3. CASE tx' # << >>
  <2>1. /\ tx' = <<QueryFrame(PA_DISCO_ADDR, ZeroSerial)>>
        /\ state' = "WAIT" /\ wait_start' = Now
    BY <1>3 DEF do_state_repeat, Send, NoTransmission
  <2>2. wait_start' = ticks'
    BY <2>1, MasterHeard, <1>1 DEF Now, ClocksWork
  <2>3. Stage(s)'
    BY <1>1, <2>1, <2>2, QueryHeard
  <2> QED BY <2>1, <2>3 DEF Ready
<1> QED BY <1>2, <1>3

LEMMA ReadyResetRepeat ==
    ASSUME AllReady, ClocksWork, MasterStep, do_state_reset_repeat, NEW s \in Slave
    PROVE  Ready(s)'
<1>1. BusTypeInv /\ Listening(s) /\ Len(srx[s]) =< 2
  BY DEF AllReady, Ready, Listening, do_state_reset_repeat
<1>2. CASE tx' = << >>
  <2>1. state' \in Passing
    BY <1>2 DEF do_state_reset_repeat, Send, Passing
  <2> QED BY <1>1, <1>2, <2>1, ReadyPassing
<1>3. CASE tx' # << >>
  <2>1. /\ tx' = <<ResetFrame(PA_DISCO_ADDR, ZeroSerial)>>
        /\ state' = "RESET_WAIT" /\ wait_reset_start' = Now
    BY <1>3 DEF do_state_reset_repeat, Send, NoTransmission
  <2>2. wait_reset_start' = ticks /\ ticks' = ticks
    BY <1>1, <2>1, MasterHeard DEF Now, ClocksWork
  <2>3. Since(wait_reset_start)' = 0
    <3>1. Since(ticks) = 0
      BY <1>1, SinceType, ClockTypes
    <3> QED BY <2>2, <3>1 DEF Since
  <2>4. /\ Attentive(s)'
        /\ \A i \in 1 .. Len(srx'[s]) : NotQuery(srx'[s][i])
        /\ srx'[s] = srx[s] \/ Len(srx'[s]) = Len(srx[s]) + 1
    BY <1>1, <2>1, FramesNotQueries, ListenerHeard
  <2>5. Len(srx'[s]) =< 3
    <3>1. Len(srx[s]) \in Nat
      BY <1>1, SlaveTypes
    <3> QED BY <1>1, <2>4, <3>1
  <2>6. 0 =< late'[s]
    BY <1>1, MasterHeard, SlaveTypes
  <2>7. Listening(s)'
    BY <2>1, <2>3, <2>4, <2>5, <2>6 DEF Listening
  <2> QED BY <2>1, <2>7 DEF Ready
<1> QED BY <1>2, <1>3

\* After the guard time twice over, a slave has taken a request.
LEMMA ReadyResetWait ==
    ASSUME AllReady, ClocksWork, MasterStep, do_state_reset_wait, NEW s \in Slave
    PROVE  Ready(s)'
<1>1. BusTypeInv /\ Listening(s) /\ state = "RESET_WAIT" /\ tx' = << >>
  BY DEF AllReady, Ready, do_state_reset_wait, NoTransmission
<1>2. CASE Elapsed(wait_reset_start, window_guard_time * 2)
  <2>1. state' = "RESET_REPEAT"
    BY <1>2 DEF do_state_reset_wait
  <2>2. Since(wait_reset_start) >= window_guard_time * 2
    BY <1>2 DEF Elapsed, Since
  <2>3. Len(srx[s]) =< 2
    <3> DEFINE n   == Len(srx[s])
               age == Since(wait_reset_start)
    <3>1. n \in Nat /\ n =< 3 /\ (n = 3 => age =< late[s])
      BY <1>1, SlaveTypes DEF Listening
    <3>2. age \in Int
      <4>1. age \in Clock
        BY <1>1, SinceType, ClockTypes
      <4> QED BY <4>1, ClockTypes, <1>1 DEF Clock
    <3>3. late[s] \in 0 .. SlaveLatency /\ SlaveLatency \in Nat /\ window_guard_time \in Nat
      BY <1>1, SlaveTypes
    <3> HIDE DEF n, age
    <3>4. age >= window_guard_time * 2
      BY <2>2 DEF age
    <3>5. n # 3
      BY <3>1, <3>2, <3>3, <3>4, TimingAssumption
    <3>6. n =< 2
      BY <3>1, <3>5
    <3> QED BY <3>6 DEF n
  <2> QED BY <1>1, <2>1, <2>3, ReadyPassing DEF Passing
<1>3. CASE ~Elapsed(wait_reset_start, window_guard_time * 2)
  <2>1. UNCHANGED <<state, verify_sent, wait_start, verify_start, wait_reset_start>>
    BY <1>1, <1>3 DEF do_state_reset_wait, resetVars, verifyVars, roundVars
  <2> QED BY <1>1, <2>1, MasterHeard, ReadyKept DEF AllReady
<1> QED BY <1>2, <1>3

\* When the master's window is over, all slaves are idle.
LEMMA ReadyWait ==
    ASSUME AllReady, ClocksWork, MasterStep, do_state_wait, NEW s \in Slave
    PROVE  Ready(s)' /\ (tx' # << >> => Attentive(s)')
<1>1. BusTypeInv /\ Stage(s) /\ state = "WAIT"
  BY DEF AllReady, Ready, do_state_wait
<1>2. CASE KeepWaiting
  <2>1. UNCHANGED <<state, verify_sent, wait_start, verify_start, wait_reset_start>> /\ tx' = << >>
    BY <1>2 DEF do_state_wait, KeepWaiting, NoTransmission, resetVars
  <2> QED BY <1>1, <2>1, MasterHeard, ReadyKept DEF AllReady
<1>3. CASE AssignHeard \/ NobodyAnswered
  <2>1. Idle(s)
    BY <1>1, <1>3, WindowsOver DEF AssignHeard, NobodyAnswered
  <2>2. /\ Attentive(s)'
        /\ srx[s] = << >>
        /\ srx'[s] = << >> \/ srx'[s] = << >> \o tx'
        /\ tx' = << >> => srx'[s] = << >>
    BY <1>1, <2>1, MasterHeard DEF Idle, Attentive
  <2>3. \/ tx' = << >> /\ state' = "REPEAT"
        \/ tx' = <<AssignFrame(PA_DISCO_ADDR, HeardId, HeardSerial)>> /\ state' = "VERIFY"
    BY <1>3 DEF AssignHeard, NobodyAnswered, Send, NoTransmission, Assigned, NotAssigned
  <2>4. verify_sent' = FALSE
    <3>1. ~verify_sent /\ verify_sent \in BOOLEAN
      BY <1>1 DEF BusTypeInv, TypeInv, TypeOK, FlagsOK, Conserved
    <3> QED BY <3>1, Zenon DEF do_state_wait
  <2>5. Len(srx'[s]) =< 1 /\ \A i \in 1 .. Len(srx'[s]) : NotQuery(srx'[s][i])
    <3>1. CASE srx'[s] = << >>
      BY <3>1
    <3>2. CASE srx'[s] # << >>
      <4>1. srx'[s] = <<AssignFrame(PA_DISCO_ADDR, HeardId, HeardSerial)>>
        BY <2>2, <2>3, <3>2
      <4> QED BY <4>1, FramesNotQueries
    <3> QED BY <3>1, <3>2
  <2>6. Len(srx'[s]) =< 2 /\ Len(srx'[s]) =< 3
    <3>1. Len(srx'[s]) \in Nat
      BY <2>2, <2>3
    <3> QED BY <2>5, <3>1
  <2>7. Listening(s)'
    BY <2>2, <2>3, <2>4, <2>5, <2>6 DEF Listening
  <2> QED BY <2>2, <2>3, <2>7 DEF Ready
<1> QED BY <1>2, <1>3 DEF do_state_wait

\* A verify read goes to a slave with at most one request before it, and when
\* it has timed out no request is left.
LEMMA ReadyVerify ==
    ASSUME AllReady, ClocksWork, MasterStep, do_state_verify, NEW s \in Slave
    PROVE  Ready(s)'
<1> DEFINE n == Len(srx[s])
<1>1. BusTypeInv /\ Listening(s) /\ state = "VERIFY" /\ n \in Nat /\ n =< 2
  BY SlaveTypes DEF AllReady, Ready, Listening, do_state_verify
<1>2. CASE SendVerify
  <2>1. ~verify_sent /\ n =< 1
    BY <1>1, <1>2 DEF SendVerify, Listening
  <2>2. \/ /\ tx' = << >> /\ verify_sent' = verify_sent
           /\ state' = "VERIFY" \/ state' = "REPEAT"
        \/ /\ tx' = <<VerifyFrame(slave_id, ZeroSerial)>>
           /\ verify_sent' = TRUE /\ verify_start' = Now /\ state' = "VERIFY"
    BY <1>1, <1>2 DEF SendVerify, Send, VerifyFailed
  <2>3. /\ Attentive(s)'
        /\ \A i \in 1 .. Len(srx'[s]) : NotQuery(srx'[s][i])
        /\ srx'[s] = srx[s] \/ Len(srx'[s]) = n + 1
    BY <1>1, <2>2, FramesNotQueries, ListenerHeard
  <2>4. CASE tx' = << >>
    <3>1. srx'[s] = srx[s]
      BY <1>1, <2>4, MasterHeard
    <3>2. /\ ~verify_sent' /\ state' \in {"VERIFY", "REPEAT"}
          /\ Len(srx'[s]) =< 1 /\ Len(srx'[s]) =< 2 /\ Len(srx'[s]) =< 3
      BY <1>1, <2>1, <2>2, <2>4, <3>1
    <3> QED BY <2>3, <3>2 DEF Ready, Listening
  <2>5. CASE tx' # << >>
    <3>1. verify_start' = ticks /\ ticks' = ticks /\ verify_sent' /\ state' = "VERIFY"
      BY <1>1, <2>2, <2>5, MasterHeard DEF Now, ClocksWork
    <3>2. Since(verify_start)' = 0
      <4>1. Since(ticks) = 0
        BY <1>1, SinceType, ClockTypes
      <4> QED BY <3>1, <4>1 DEF Since
    <3>3. 0 =< late'[s] /\ 0 =< SlaveLatency + late'[s]
      BY <1>1, MasterHeard, SlaveTypes
    <3>4. Len(srx'[s]) =< 2 /\ Len(srx'[s]) =< 3
      <4> HIDE DEF n
      <4>1. Len(srx'[s]) = n \/ Len(srx'[s]) = n + 1
        BY <2>3 DEF n
      <4> QED BY <1>1, <2>1, <4>1
    <3> QED BY <2>3, <3>1, <3>2, <3>3, <3>4 DEF Ready, Listening
  <2> QED BY <2>4, <2>5
<1>3. CASE PollVerify
  <2>1. tx' = << >> /\ verify_sent
    BY <1>3 DEF PollVerify, NoTransmission
  <2>2. srx'[s] = srx[s] /\ Attentive(s)'
    BY <1>1, <2>1, MasterHeard DEF Listening, Attentive
  <2>3. CASE VerifyConfirmed
    BY <1>1, <2>1, <2>3, ReadyPassing DEF VerifyConfirmed, Passing
  <2>4. CASE VerifyPending
    <3>1. UNCHANGED <<state, verify_sent, wait_start, verify_start, wait_reset_start>>
      BY <1>3, <2>4 DEF do_state_verify, PollVerify, VerifyPending, resetVars, roundVars
    <3> QED BY <1>1, <2>1, <3>1, MasterHeard, ReadyKept DEF AllReady
  <2>5. CASE VerifyTimedOut
    <3> DEFINE age == Since(verify_start)
    <3>1. age \in Int
      <4>1. age \in Clock
        BY <1>1, SinceType, ClockTypes
      <4> QED BY <4>1, <1>1, ClockTypes DEF Clock
    <3>2. age >= PA_DISCO_VERIFY_TIMEOUT_MS
      BY <2>5 DEF VerifyTimedOut, Elapsed, Since
    <3>3. /\ late[s] \in 0 .. SlaveLatency /\ SlaveLatency \in Nat
          /\ PA_DISCO_VERIFY_TIMEOUT_MS \in Nat
      BY <1>1, SlaveTypes
    <3>4. n = 2 => age =< late[s]
      BY <1>1, <2>1 DEF Listening
    <3>5. n = 1 => age =< SlaveLatency + late[s]
      BY <1>1, <2>1 DEF Listening
    <3>6. ~verify_sent' /\ state' \in {"VERIFY", "REPEAT"}
      BY <1>1, <2>5 DEF VerifyTimedOut, VerifyFailed
    <3> HIDE DEF n, age
    <3>7. n # 1 /\ n # 2
      BY <3>1, <3>2, <3>3, <3>4, <3>5, TimingAssumption
    <3>8. n =< 1 /\ n =< 3
      BY <1>1, <3>7
    <3>9. Len(srx'[s]) =< 1 /\ Len(srx'[s]) =< 2 /\ Len(srx'[s]) =< 3
      BY <1>1, <2>2, <3>8 DEF n
    <3> QED BY <1>1, <2>2, <3>6, <3>9 DEF Ready, Listening
  <2> QED BY <1>3, <2>3, <2>4, <2>5 DEF PollVerify
<1> QED BY <1>2, <1>3 DEF do_state_verify

\* The handlers that only pass from one state to the next.
LEMMA ReadyOthers ==
    ASSUME AllReady, MasterStep, NEW s \in Slave,
           do_state_idle \/ do_state_start \/ do_state_reset_start \/ do_state_finish
    PROVE  Ready(s)' /\ tx' = << >>
<1>1. /\ state \in Passing /\ state' \in Passing /\ tx' = << >>
      /\ state \notin {"WAIT", "RESET_WAIT"}
  BY DEF do_state_idle, do_state_start, do_state_reset_start, do_state_finish,
         NoTransmission, Passing
<1>2. BusTypeInv /\ Listening(s) /\ Len(srx[s]) =< 2
  BY <1>1 DEF AllReady, Ready, Listening
<1> QED BY <1>1, <1>2, ReadyPassing

\* A service() call finds everybody ready, and leaves everybody so.
LEMMA ReadyService ==
    ASSUME AllReady, ClocksWork, MasterStep, NEW s \in Slave
    PROVE  Ready(s)' /\ (tx' # << >> => Attentive(s)')
<1>1. ASSUME state # "WAIT" PROVE Attentive(s)'
  BY <1>1, MasterHeard DEF AllReady, Ready, Listening, Attentive
<1>2. CASE do_state_wait
  BY <1>2, ReadyWait
<1>3. CASE do_state_repeat
  BY <1>1, <1>3, ReadyRepeat DEF do_state_repeat
<1>4. CASE do_state_verify
  BY <1>1, <1>4, ReadyVerify DEF do_state_verify
<1>5. CASE do_state_reset_repeat
  BY <1>1, <1>5, ReadyResetRepeat DEF do_state_reset_repeat
<1>6. CASE do_state_reset_wait
  BY <1>1, <1>6, ReadyResetWait DEF do_state_reset_wait
<1>7. CASE do_state_idle \/ do_state_start \/ do_state_reset_start \/ do_state_finish
  BY <1>7, ReadyOthers
<1> QED BY <1>2, <1>3, <1>4, <1>5, <1>6, <1>7 DEF MasterStep, pa_disco_master_service

\* A tick, as one slave sees it.
LEMMA SlaveTick ==
    ASSUME BusTypeInv, BusTick, NEW s \in Slave
    PROVE  /\ UNCHANGED <<state, verify_sent, wait_start, verify_start, wait_reset_start>>
           /\ srx'[s] = srx[s] /\ disco_window_wait'[s] = disco_window_wait[s]
           /\ disco_window_start'[s] = disco_window_start[s]
           /\ delay'[s] = IF delay[s] > 0 THEN delay[s] - 1 ELSE delay[s]
           /\ late'[s] = IF Overdue(s) THEN late[s] + 1 ELSE 0
           /\ Overdue(s) => late[s] < SlaveLatency
           /\ ticks' = (ticks + 1) % TickModulus /\ tx' = << >>
BY DEF BusTick, Tick, Dev!Elapse, ctxVars, resetVars, verifyVars, roundVars

LEMMA SinceLater ==
    ASSUME BusTypeInv, BusTick, NEW start \in Clock
    PROVE  LET later == (ticks' - start) % TickModulus
           IN  /\ Since(start) \in Nat /\ later \in Nat
               /\ later =< Since(start) + 1
               /\ Since(start) + 1 < TickModulus => later = Since(start) + 1
<1> DEFINE later == (ticks' - start) % TickModulus
<1>1. later = IF Since(start) + 1 < TickModulus THEN Since(start) + 1 ELSE 0
  BY SinceTick DEF BusTick, Tick
<1>2. Since(start) \in Nat
  <2>1. Since(start) \in Clock
    BY SinceType
  <2> QED BY <2>1, ClockTypes DEF Clock
<1> HIDE DEF later
<1>3. later \in Nat /\ later =< Since(start) + 1
  BY <1>1, <1>2
<1> QED BY <1>1, <1>2, <1>3 DEF later

\* Waiting requests are overdue, so the clock cannot run ahead of the slave.
LEMMA QueueTick ==
    ASSUME BusTypeInv, BusTick, NEW s \in Slave, Attentive(s), srx[s] # << >>
    PROVE  late'[s] = late[s] + 1
BY SlaveTick DEF Attentive, Overdue

LEMMA StageTick ==
    ASSUME BusTypeInv, ClocksWork, BusTick, NEW s \in Slave, Stage(s)
    PROVE  Stage(s)'
<1> DEFINE wait  == Since(wait_start)
           open  == Since(disco_window_start[s])
           wait2 == Since(wait_start)'
           open2 == Since(disco_window_start[s])'
<1>1. /\ wait \in Nat /\ wait2 \in Nat /\ wait2 =< wait + 1
      /\ open \in Nat /\ open2 \in Nat
      /\ open + 1 < TickModulus => open2 = open + 1
  <2>1. /\ wait2 = (ticks' - wait_start) % TickModulus
        /\ open2 = (ticks' - disco_window_start[s]) % TickModulus
    BY SlaveTick DEF Since
  <2>2. wait_start \in Clock /\ disco_window_start[s] \in Clock
    BY ClockTypes, SlaveTypes
  <2> HIDE DEF wait2, open2
  <2> QED BY <2>1, <2>2, SinceLater
<1>2. /\ late[s] \in 0 .. SlaveLatency /\ delay[s] \in Int
      /\ SlaveLatency \in Nat /\ disco_window_max \in Nat
      /\ disco_window_max + 5 * SlaveLatency + 1 < TickModulus
  <2>1. /\ late[s] \in 0 .. SlaveLatency /\ delay[s] \in Int
        /\ SlaveLatency \in Nat /\ disco_window_max \in Nat
        /\ window_time \in Nat /\ window_guard_time \in Nat /\ TickModulus \in Nat
    BY SlaveTypes, ClockTypes
  <2> QED BY <2>1, TimingAssumption DEF ClocksWork
<1>3. Attentive(s) => Attentive(s)'
  BY SlaveTick DEF Attentive, Dev!NoDelay
<1>4. InOwnWindow(s) /\ open2 = open + 1 => InOwnWindow(s)'
  <2> SUFFICES ASSUME InOwnWindow(s), open2 = open + 1 PROVE InOwnWindow(s)'
    OBVIOUS
  <2>1. wait =< 3 * SlaveLatency + open
    BY DEF InOwnWindow
  <2>2. open2 = open + 1
    OBVIOUS
  <2>3. disco_window_wait'[s] /\ srx'[s] = << >>
    BY SlaveTick DEF InOwnWindow
  <2> HIDE DEF wait, open, wait2, open2
  <2>4. wait2 =< 3 * SlaveLatency + open2
    BY <1>1, <1>2, <2>1, <2>2
  <2> QED BY <2>3, <2>4 DEF InOwnWindow, wait2, open2
<1>5. CASE Idle(s)
  BY <1>3, <1>5, SlaveTick DEF Idle, Stage
<1>6. CASE Queued(s)
  <2>1. late'[s] = late[s] + 1 /\ srx'[s] = srx[s] /\ srx[s] # << >>
    BY <1>6, QueueTick, SlaveTick DEF Queued
  <2> DEFINE n == Len(srx[s])
  <2>2. /\ n =< 3
        /\ n = 3 => wait =< late[s]
        /\ n = 2 => wait =< SlaveLatency + late[s]
        /\ n = 1 => wait =< 2 * SlaveLatency + late[s]
    BY <1>6 DEF Queued, Served
  <2> HIDE DEF n, wait, wait2
  <2>3. /\ n = 3 => wait2 =< late[s] + 1
        /\ n = 2 => wait2 =< SlaveLatency + (late[s] + 1)
        /\ n = 1 => wait2 =< 2 * SlaveLatency + (late[s] + 1)
    BY <1>1, <1>2, <2>2
  <2>4. Served(s, 3, wait_start)'
    BY <2>1, <2>2, <2>3 DEF Served, n, wait2
  <2> QED BY <1>3, <1>6, <2>1, <2>4 DEF Queued, Stage
<1>7. CASE Delaying(s)
  <2>1. /\ delay[s] >= 0
        /\ open + delay[s] =< disco_window_max + (IF delay[s] = 0 THEN late[s] ELSE 0)
    BY <1>7 DEF Delaying
  <2>2. delay[s] = 0 => late'[s] = late[s] + 1
    BY SlaveTick DEF Overdue
  <2>3. delay[s] > 0 => late'[s] = 0
    BY <1>2, SlaveTick DEF Overdue, Dev!NoDelay
  <2>4. delay'[s] = IF delay[s] > 0 THEN delay[s] - 1 ELSE delay[s]
    BY SlaveTick
  <2> HIDE DEF open, open2, wait, wait2
  <2>5. open + 1 < TickModulus
    BY <1>1, <1>2, <2>1, ClockTypes
  <2>6. delay'[s] >= 0
    BY <1>2, <2>1, <2>4
  <2>7. open2 + delay'[s] =< disco_window_max + (IF delay'[s] = 0 THEN late'[s] ELSE 0)
    <3>1. CASE delay[s] = 0
      BY <1>1, <1>2, <2>1, <2>2, <2>4, <2>5, <3>1
    <3>2. CASE delay[s] > 0
      BY <1>1, <1>2, <2>1, <2>3, <2>4, <2>5, <3>2
    <3> QED BY <1>2, <2>1, <3>1, <3>2
  <2>8. InOwnWindow(s)'
    BY <1>1, <1>4, <1>7, <2>5 DEF Delaying
  <2> QED BY <2>6, <2>7, <2>8 DEF Delaying, Stage, open2
<1>8. CASE Closing(s)
  <2>1. open =< disco_window_max + SlaveLatency + late[s]
    BY <1>8 DEF Closing
  <2>2. open >= disco_window_max => late'[s] = late[s] + 1
    <3>1. open >= disco_window_max => Overdue(s)
      BY <1>8 DEF Closing, InOwnWindow, Overdue, Dev!WindowOver, Since, ClocksWork
    <3> QED BY <3>1, SlaveTick
  <2>3. delay'[s] = Dev!NoDelay
    BY <1>8, SlaveTick DEF Closing, Dev!NoDelay
  <2>4. late'[s] = late[s] + 1 \/ late'[s] = 0
    BY SlaveTick
  <2> HIDE DEF open, open2, wait, wait2
  <2>5. open + 1 < TickModulus
    BY <1>1, <1>2, <2>1, ClockTypes
  <2>6. open2 =< disco_window_max + SlaveLatency + late'[s]
    BY <1>1, <1>2, <2>1, <2>2, <2>4, <2>5
  <2>7. InOwnWindow(s)'
    BY <1>1, <1>4, <1>8, <2>5 DEF Closing
  <2> QED BY <2>3, <2>6, <2>7 DEF Closing, Stage, open2
<1> QED BY <1>5, <1>6, <1>7, <1>8 DEF Stage

LEMMA ListeningTick ==
    ASSUME BusTypeInv, BusTick, NEW s \in Slave, Listening(s)
    PROVE  Listening(s)'
<1> DEFINE n == Len(srx[s])
<1>1. UNCHANGED <<state, verify_sent>> /\ srx'[s] = srx[s] /\ Attentive(s)'
  BY SlaveTick DEF Listening, Attentive, Dev!NoDelay
<1>2. n # 0 => late'[s] = late[s] + 1
  <2>1. n # 0 => srx[s] # << >>
    OBVIOUS
  <2> QED BY <2>1, QueueTick DEF Listening
<1>3. late[s] \in Nat /\ SlaveLatency \in Nat
  BY SlaveTypes
<1>4. Since(wait_reset_start) \in Nat /\ Since(wait_reset_start)' \in Nat
      /\ Since(wait_reset_start)' =< Since(wait_reset_start) + 1
  <2>1. Since(wait_reset_start)' = (ticks' - wait_reset_start) % TickModulus
    BY SlaveTick DEF Since
  <2> QED BY <2>1, SinceLater, ClockTypes
<1>5. Since(verify_start) \in Nat /\ Since(verify_start)' \in Nat
      /\ Since(verify_start)' =< Since(verify_start) + 1
  <2>1. Since(verify_start)' = (ticks' - verify_start) % TickModulus
    BY SlaveTick DEF Since
  <2> QED BY <2>1, SinceLater, ClockTypes
<1> DEFINE reset1 == Since(wait_reset_start)
           reset2 == Since(wait_reset_start)'
           sent1  == Since(verify_start)
           sent2  == Since(verify_start)'
<1>6. /\ state = "RESET_WAIT" => (n = 3 => reset1 =< late[s])
      /\ state = "VERIFY" /\ verify_sent =>
            /\ n = 2 => sent1 =< late[s]
            /\ n = 1 => sent1 =< SlaveLatency + late[s]
  BY DEF Listening
<1>7. /\ reset1 \in Nat /\ reset2 \in Nat /\ reset2 =< reset1 + 1
      /\ sent1 \in Nat /\ sent2 \in Nat /\ sent2 =< sent1 + 1
  BY <1>4, <1>5
<1> HIDE DEF n, reset1, reset2, sent1, sent2
<1>8. /\ state = "RESET_WAIT" => (n = 3 => reset2 =< late'[s])
      /\ state = "VERIFY" /\ verify_sent =>
            /\ n = 2 => sent2 =< late'[s]
            /\ n = 1 => sent2 =< SlaveLatency + late'[s]
  BY <1>2, <1>3, <1>6, <1>7
<1> QED BY <1>1, <1>8 DEF Listening, n, reset2, sent2

------------------------------------------------------------------------------
\* A slave's step, as that slave and the others see it.
LEMMA SlaveRuns ==
    ASSUME NEW s \in Slave, SlaveStep(s) \/ SlaveRestart(s), BusTypeInv
    PROVE  /\ UNCHANGED <<state, verify_sent, wait_start, verify_start, wait_reset_start, ticks>>
           /\ late'[s] = 0 /\ tx' = << >>
           /\ \A t \in Slave \ {s} : late'[t] = late[t]
BY DEF SlaveStep, SlaveRestart, ctxVars, resetVars, verifyVars, roundVars, BusTypeInv, SlavesOK

LEMMA OthersReady ==
    ASSUME NEW s \in Slave, SlaveStep(s) \/ SlaveRestart(s), AllReady, NEW t \in Slave \ {s}
    PROVE  Ready(t)'
<1>0. BusTypeInv /\ Ready(t)
  BY DEF AllReady
<1>1. /\ srx'[t] = srx[t] /\ disco_window_wait'[t] = disco_window_wait[t]
      /\ disco_window_start'[t] = disco_window_start[t] /\ delay'[t] = delay[t]
  <2> USE <1>0 DEF BusTypeInv, SlavesOK
  <2>1. CASE SlaveRestart(s)
    BY <2>1 DEF SlaveRestart, Dev!Restart
  <2>2. CASE SlaveStep(s) /\ Dev!pa_disco_slave_service(s)
    BY <2>2 DEF Dev!pa_disco_slave_service
  <2>3. CASE SlaveStep(s) /\ Dev!Reply(s)
    BY <2>3 DEF Dev!Reply
  <2>4. CASE SlaveStep(s) /\ Dev!pa_disco_register_map_service(s)
    <3> DEFINE f == Head(srx[s])
    <3>1. srx'[t] = srx[t]
      BY <2>4 DEF Dev!pa_disco_register_map_service
    <3>2. CASE Dev!pa_disco_slave_read_cb(s, f)
      <4>1. CASE Dev!AnswerQuery(s)
        BY <3>1, <4>1 DEF Dev!AnswerQuery
      <4>2. CASE ~Dev!AnswerQuery(s)
        BY <3>1, <3>2, <4>2 DEF Dev!pa_disco_slave_read_cb
      <4> QED BY <4>1, <4>2
    <3>3. CASE ~Dev!pa_disco_slave_read_cb(s, f)
      BY <2>4, <3>1, <3>3 DEF Dev!pa_disco_register_map_service
    <3> QED BY <3>2, <3>3
  <2> QED BY <2>1, <2>2, <2>3, <2>4 DEF SlaveStep, Dev!Run
<1> QED BY <1>0, <1>1, SlaveRuns, ReadyKept

\* A slave that restarts has nothing to do.
LEMMA RestartReady ==
    ASSUME NEW s \in Slave, SlaveRestart(s), AllReady
    PROVE  Ready(s)'
<1>1. srx'[s] = << >> /\ Attentive(s)'
  BY DEF SlaveRestart, Dev!Restart, Attentive, AllReady, BusTypeInv, SlavesOK
<1>2. Len(<< >>) = 0
  OBVIOUS
<1> QED BY <1>1, <1>2 DEF Ready, Stage, Idle, Listening

\* Both sides mean the same block.
LEMMA SameBlock == \A f : Dev!IsFullBlock(f) <=> IsFullBlock(f)
BY DEF IsFullBlock, PA_DISCO_REG_START, PA_DISCO_REG_COUNT,
       Dev!IsFullBlock, Dev!PA_DISCO_REG_START, Dev!PA_DISCO_REG_COUNT

\* The request that a slave takes is the first; it ends up in a delay only if
\* that request is a query.
LEMMA RequestTaken ==
    ASSUME NEW s \in Slave, SlaveStep(s), Dev!pa_disco_register_map_service(s), BusTypeInv, ClocksWork
    PROVE  /\ srx[s] # << >> /\ srx'[s] = Tail(srx[s])
           /\ \/ Attentive(s)'
              \/ /\ ~NotQuery(Head(srx[s]))
                 /\ disco_window_wait'[s] /\ disco_window_start'[s] = ticks
                 /\ delay'[s] \in 0 .. disco_window_max
<1> DEFINE f == Head(srx[s])
<1>1. srx[s] # << >> /\ srx'[s] = Tail(srx[s]) /\ Attentive(s)
  BY DEF Dev!pa_disco_register_map_service, BusTypeInv, SlavesOK, Attentive
<1>2. CASE disco_window_wait' = disco_window_wait /\ delay' = delay
  BY <1>1, <1>2 DEF Attentive
<1>3. CASE ~(disco_window_wait' = disco_window_wait /\ delay' = delay)
  <2>1. f.fn = "read" /\ Dev!pa_disco_slave_read_cb(s, f)
    BY <1>3 DEF Dev!pa_disco_register_map_service
  <2>2. Dev!IsFullBlock(f) /\ Dev!AnswerQuery(s)
    BY <1>3, <2>1 DEF Dev!pa_disco_slave_read_cb
  <2>3. disco_window_wait'[s] /\ disco_window_start'[s] = ticks
    BY <2>2 DEF Dev!AnswerQuery, Dev!SlaveNow, ClocksWork, BusTypeInv, SlavesOK
  <2>4. delay'[s] \in 0 .. disco_window_max
    <3>1. PICK d \in (IF {"delay_ms", "random"} \subseteq Provided
                      THEN disco_window_min .. disco_window_max ELSE {0}) :
             delay' = [delay EXCEPT ![s] = d]
      BY <2>2 DEF Dev!AnswerQuery
    <3>2. d \in 0 .. disco_window_max
      BY SlaveAssumption
    <3> QED BY <3>1, <3>2 DEF BusTypeInv, SlavesOK
  <2> QED BY <1>1, <2>1, <2>2, <2>3, <2>4, SameBlock DEF NotQuery
<1> QED BY <1>2, <1>3

LEMMA Tails ==
    ASSUME NEW q \in Seq(RequestType), q # << >>
    PROVE  /\ Len(q) \in Nat \ {0} /\ Len(Tail(q)) = Len(q) - 1
           /\ Head(q) = q[1]
           /\ \A i \in 1 .. (Len(q) - 1) : Tail(q)[i] = q[i + 1]
           /\ Len(q) = 1 => Tail(q) = << >>
<1>1. /\ Len(q) \in Nat \ {0} /\ Len(Tail(q)) = Len(q) - 1
      /\ Head(q) = q[1]
      /\ \A i \in 1 .. (Len(q) - 1) : Tail(q)[i] = q[i + 1]
  OBVIOUS
<1>2. Len(q) = 1 => Tail(q) = << >>
  <2> DEFINE r == Tail(q)
  <2>1. r \in Seq(RequestType) /\ Len(r) = Len(q) - 1
    OBVIOUS
  <2> HIDE DEF r
  <2>2. Len(r) = 0 => r = << >>
    BY <2>1
  <2>3. Len(q) = 1 => Len(r) = 0
    BY <2>1
  <2> QED BY <2>2, <2>3 DEF r
<1> QED BY <1>1, <1>2

\* While the master waits, a slave that runs gets on with its stage or goes
\* from one to the next.
LEMMA StageRun ==
    ASSUME NEW s \in Slave, SlaveStep(s), Stage(s), BusTypeInv, ClocksWork
    PROVE  Stage(s)'
<1> DEFINE wait  == Since(wait_start)
           open  == Since(disco_window_start[s])
<1>1. /\ wait \in Nat /\ open \in Nat
      /\ late[s] \in 0 .. SlaveLatency /\ SlaveLatency \in Nat
      /\ disco_window_max \in Nat /\ delay[s] \in Int
  <2>1. wait \in Clock /\ open \in Clock /\ TickModulus \in Nat
    BY SinceType, ClockTypes, SlaveTypes
  <2>2. wait \in Nat /\ open \in Nat
    <3> HIDE DEF wait, open
    <3> QED BY <2>1 DEF Clock
  <2> QED BY <2>2, SlaveTypes
<1>2. late'[s] = 0 /\ ticks' = ticks /\ wait_start' = wait_start
  BY SlaveRuns
<1>3. CASE Dev!pa_disco_slave_service(s)
  <2>1. /\ delay[s] = Dev!NoDelay /\ disco_window_wait[s]
        /\ disco_window_start' = disco_window_start /\ delay' = delay
        /\ disco_window_wait'[s] = ~Dev!WindowOver(s)
    BY <1>3 DEF Dev!pa_disco_slave_service, BusTypeInv, SlavesOK
  <2>2. Closing(s)
    BY <2>1 DEF Stage, Idle, Queued, Attentive, Delaying, Dev!NoDelay
  <2>3. srx'[s] = << >>
    BY <1>3, <2>2 DEF Dev!pa_disco_slave_service, Closing, InOwnWindow, BusTypeInv, SlavesOK
  <2>4. CASE Dev!WindowOver(s)
    BY <2>1, <2>3, <2>4 DEF Stage, Idle, Attentive
  <2>5. CASE ~Dev!WindowOver(s)
    <3>1. ~(open >= disco_window_max)
      BY <2>5 DEF Dev!WindowOver, ClocksWork, Since
    <3>2. Since(wait_start)' = wait /\ Since(disco_window_start[s])' = open
      BY <1>2, <2>1 DEF Since
    <3>3. InOwnWindow(s)'
      BY <2>1, <2>2, <2>3, <2>5, <3>2 DEF Closing, InOwnWindow
    <3>4. open =< disco_window_max + SlaveLatency + 0
      <4> HIDE DEF open, wait
      <4> QED BY <1>1, <3>1
    <3> QED BY <1>2, <2>1, <3>2, <3>3, <3>4 DEF Stage, Closing
  <2> QED BY <2>4, <2>5
<1>4. CASE Dev!Reply(s)
  <2>1. /\ delay[s] = 0 /\ delay'[s] = Dev!NoDelay /\ srx' = srx
        /\ disco_window_start' = disco_window_start /\ disco_window_wait' = disco_window_wait
    BY <1>4 DEF Dev!Reply, BusTypeInv, SlavesOK
  <2>2. Delaying(s)
    BY <2>1 DEF Stage, Idle, Queued, Attentive, Closing, Dev!NoDelay
  <2>3. open + delay[s] =< disco_window_max + late[s]
    BY <2>1, <2>2 DEF Delaying
  <2>4. Since(wait_start)' = wait /\ Since(disco_window_start[s])' = open
    BY <1>2, <2>1 DEF Since
  <2>5. InOwnWindow(s)'
    BY <2>1, <2>2, <2>4 DEF Delaying, InOwnWindow
  <2>6. open =< disco_window_max + SlaveLatency + 0
    <3> HIDE DEF open, wait
    <3> QED BY <1>1, <2>1, <2>3
  <2> QED BY <1>2, <2>1, <2>4, <2>5, <2>6 DEF Stage, Closing
<1>5. CASE Dev!pa_disco_register_map_service(s)
  <2> DEFINE q == srx[s]
             r == srx'[s]
             n == Len(q)
  <2>1. q # << >> /\ r = Tail(q) /\ q \in Seq(RequestType)
    BY <1>5, RequestTaken, SlaveTypes
  <2>2. Queued(s)
    BY <1>5, <2>1 DEF Dev!pa_disco_register_map_service, Stage, Idle, Delaying, Closing, InOwnWindow
  <2>3. /\ n =< 3
        /\ n = 3 => wait =< late[s]
        /\ n = 2 => wait =< SlaveLatency + late[s]
        /\ n = 1 => wait =< 2 * SlaveLatency + late[s]
        /\ \A i \in 1 .. (n - 1) : NotQuery(q[i])
    BY <2>2 DEF Queued, Served
  <2>4. Since(wait_start)' = wait
    BY <1>2 DEF Since
  <2>5. \/ Attentive(s)'
        \/ /\ ~NotQuery(Head(q))
           /\ disco_window_wait'[s] /\ disco_window_start'[s] = ticks
           /\ delay'[s] \in 0 .. disco_window_max
    BY <1>5, RequestTaken
  <2> HIDE DEF q, r, wait, n
  <2>6. /\ n \in Nat \ {0} /\ Len(r) = n - 1 /\ Head(q) = q[1]
        /\ \A i \in 1 .. (n - 1) : r[i] = q[i + 1]
        /\ n = 1 => r = << >>
    BY <2>1, Tails DEF n
  <2>7. /\ n = 3 => wait =< SlaveLatency + 0
        /\ n = 2 => wait =< 2 * SlaveLatency + 0
        /\ n = 1 => wait =< 3 * SlaveLatency
    BY <1>1, <2>3
  <2>8. CASE Attentive(s)'
    <3>1. CASE r = << >>
      BY <2>8, <3>1 DEF Stage, Idle, r
    <3>2. CASE r # << >>
      <4>1. \A i \in 1 .. (Len(r) - 1) : NotQuery(r[i])
        BY <2>3, <2>6
      <4>2. /\ Len(r) =< 3
            /\ Len(r) # 3
            /\ Len(r) = 2 => wait =< SlaveLatency + 0
            /\ Len(r) = 1 => wait =< 2 * SlaveLatency + 0
        BY <2>3, <2>6, <2>7
      <4>3. Served(s, 3, wait_start)'
        BY <1>2, <2>4, <4>2 DEF Served, r
      <4> QED BY <2>8, <3>2, <4>1, <4>3 DEF Stage, Queued, r
    <3> QED BY <3>1, <3>2
  <2>9. CASE ~Attentive(s)'
    <3>1. n = 1
      BY <2>3, <2>5, <2>6, <2>9
    <3>2. Since(disco_window_start[s])' = 0
      <4>1. Since(ticks) = 0
        BY SinceType, ClockTypes
      <4> QED BY <1>2, <2>5, <2>9, <4>1 DEF Since
    <3>3. wait =< 3 * SlaveLatency + 0
      BY <1>1, <2>7, <3>1
    <3>4. InOwnWindow(s)'
      BY <2>4, <2>5, <2>6, <2>9, <3>1, <3>2, <3>3 DEF InOwnWindow, r
    <3>5. /\ delay'[s] >= 0
          /\ 0 + delay'[s] =< disco_window_max + (IF delay'[s] = 0 THEN late'[s] ELSE 0)
      BY <1>1, <1>2, <2>5, <2>9
    <3> QED BY <3>2, <3>4, <3>5 DEF Stage, Delaying
  <2> QED BY <2>8, <2>9
<1> QED BY <1>3, <1>4, <1>5 DEF SlaveStep, Dev!Run

\* Otherwise it takes the requests that wait, none of which is a query.
LEMMA ListeningRun ==
    ASSUME NEW s \in Slave, SlaveStep(s), Listening(s), BusTypeInv, ClocksWork
    PROVE  Listening(s)'
<1> DEFINE q == srx[s]
           r == srx'[s]
           n == Len(q)
<1>1. Dev!pa_disco_register_map_service(s)
  BY DEF SlaveStep, Dev!Run, Dev!pa_disco_slave_service, Dev!Reply, Listening, Attentive, Dev!NoDelay
<1>2. q # << >> /\ r = Tail(q) /\ q \in Seq(RequestType)
  BY <1>1, RequestTaken, SlaveTypes
<1>3. NotQuery(Head(q)) => Attentive(s)'
  BY <1>1, RequestTaken
<1>4. /\ UNCHANGED <<state, verify_sent>>
      /\ Since(wait_reset_start)' = Since(wait_reset_start)
      /\ Since(verify_start)' = Since(verify_start)
      /\ late'[s] = 0
  BY SlaveRuns DEF Since
<1>5. late[s] \in 0 .. SlaveLatency /\ SlaveLatency \in Nat
  BY SlaveTypes
<1> DEFINE sent == Since(verify_start)
<1>6. sent \in Int
  <2>1. sent \in Clock
    BY SinceType, ClockTypes
  <2> QED BY <2>1, ClockTypes DEF Clock
<1>7. /\ \A i \in 1 .. n : NotQuery(q[i])
      /\ n =< 3
      /\ state # "RESET_WAIT" => n =< 2
      /\ state = "VERIFY" /\ ~verify_sent => n =< 1
      /\ state = "VERIFY" /\ verify_sent => (n = 2 => sent =< late[s])
  BY DEF Listening
<1> HIDE DEF q, r, n, sent
<1>8. /\ n \in Nat \ {0} /\ Len(r) = n - 1 /\ Head(q) = q[1]
      /\ \A i \in 1 .. (n - 1) : r[i] = q[i + 1]
  BY <1>2, Tails DEF n
<1>9. Attentive(s)'
  BY <1>3, <1>7, <1>8
<1>10. \A i \in 1 .. Len(r) : NotQuery(r[i])
  BY <1>7, <1>8
<1>11. /\ Len(r) =< 2
       /\ Len(r) =< 3 /\ Len(r) # 3
       /\ state = "VERIFY" /\ ~verify_sent => Len(r) =< 1
  BY <1>7, <1>8
<1>12. state = "VERIFY" /\ verify_sent =>
          /\ Len(r) = 2 => sent =< 0
          /\ Len(r) = 1 => sent =< SlaveLatency + 0
  BY <1>5, <1>6, <1>7, <1>8
<1> QED BY <1>4, <1>9, <1>10, <1>11, <1>12 DEF Listening, r, sent

LEMMA AllReadyInit == BusInit => AllReady
<1> SUFFICES ASSUME BusInit PROVE AllReady
  OBVIOUS
<1>1. state = "IDLE" /\ tx = << >>
  BY DEF BusInit, Init
<1>2. ASSUME NEW s \in Slave PROVE Listening(s)
  <2>1. srx[s] = << >> /\ Attentive(s)
    BY DEF BusInit, Attentive
  <2>2. Len(<< >>) = 0
    OBVIOUS
  <2> QED BY <1>1, <2>1, <2>2 DEF Listening
<1> QED BY <1>1, <1>2, BusTypeInit DEF AllReady, NobodyDeaf, Ready

LEMMA AllReadyStep ==
    ASSUME AllReady, ClocksWork, [BusNext]_busVars
    PROVE  AllReady'
<1>0. BusTypeInv /\ BusTypeInv'
  BY BusTypeStep DEF AllReady
<1>1. CASE MasterStep
  <2>1. ASSUME NEW s \in Slave PROVE Ready(s)' /\ (tx' # << >> => Attentive(s)')
    BY <1>1, ReadyService
  <2> QED BY <1>0, <2>1 DEF AllReady, NobodyDeaf, Attentive
<1>2. ASSUME tx' = << >>, \A s \in Slave : Ready(s)' PROVE AllReady'
  BY <1>0, <1>2 DEF AllReady, NobodyDeaf
<1>3. CASE BusTick
  <2>1. ASSUME NEW s \in Slave PROVE Ready(s)' /\ tx' = << >>
    <3>1. state' = state /\ tx' = << >>
      BY <1>0, <1>3, SlaveTick
    <3> QED BY <1>0, <1>3, <3>1, StageTick, ListeningTick DEF AllReady, Ready
  <2>2. tx' = << >>
    BY <1>3 DEF BusTick, Tick
  <2> QED BY <1>2, <2>1, <2>2
<1>4. CASE BusReset
  <2>1. /\ UNCHANGED <<state, verify_sent, wait_start, verify_start, wait_reset_start, ticks>>
        /\ UNCHANGED <<srx, disco_window_wait, disco_window_start, delay, late>>
        /\ tx' = << >>
    BY <1>4 DEF BusReset, pa_disco_master_reset, resetVars, verifyVars, roundVars, deviceVars
  <2>2. ASSUME NEW s \in Slave PROVE Ready(s)'
    BY <2>1, ReadyKept DEF AllReady
  <2> QED BY <1>2, <2>1, <2>2
<1>5. ASSUME NEW s \in Slave, SlaveStep(s) PROVE AllReady'
  <2>1. tx' = << >> /\ state' = state
    BY <1>0, <1>5, SlaveRuns
  <2>2. Ready(s)'
    BY <1>0, <1>5, <2>1, StageRun, ListeningRun DEF AllReady, Ready
  <2>3. ASSUME NEW t \in Slave \ {s} PROVE Ready(t)'
    BY <1>5, OthersReady
  <2>4. \A t \in Slave : Ready(t)'
    BY <2>2, <2>3
  <2> QED BY <1>2, <2>1, <2>4
<1>6. ASSUME NEW s \in Slave, SlaveRestart(s) PROVE AllReady'
  <2>1. tx' = << >>
    BY <1>0, <1>6, SlaveRuns
  <2>2. Ready(s)'
    BY <1>6, RestartReady
  <2>3. ASSUME NEW t \in Slave \ {s} PROVE Ready(t)'
    BY <1>6, OthersReady
  <2>4. \A t \in Slave : Ready(t)'
    BY <2>2, <2>3
  <2> QED BY <1>2, <2>1, <2>4
<1>7. CASE UNCHANGED busVars
  <2>1. /\ UNCHANGED <<state, verify_sent, wait_start, verify_start, wait_reset_start, ticks>>
        /\ UNCHANGED <<srx, disco_window_wait, disco_window_start, delay, late, tx>>
    BY <1>7 DEF busVars, vars, ctxVars, pamVars, resetVars, verifyVars, roundVars, deviceVars
  <2>2. ASSUME NEW s \in Slave PROVE Ready(s)'
    BY <2>1, ReadyKept DEF AllReady
  <2> QED BY <1>0, <2>1, <2>2 DEF AllReady, NobodyDeaf
<1> QED BY <1>1, <1>3, <1>4, <1>5, <1>6, <1>7 DEF BusNext

\* Given the timing, no request of the master finds a slave deaf in its window
\* or blocked in its delay, however many slaves there are, whatever they
\* remember, and whichever frames get lost.
THEOREM RequestsHeard ==
    ASSUME ClocksWork
    PROVE  BusSpec => []NobodyDeaf
<1>1. AllReady /\ [BusNext]_busVars => AllReady'
  BY AllReadyStep
<1>2. AllReady => NobodyDeaf
  BY DEF AllReady
<1> QED BY <1>1, <1>2, AllReadyInit, PTL DEF BusSpec
==============================================================================
