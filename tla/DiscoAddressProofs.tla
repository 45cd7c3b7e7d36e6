------------------------- MODULE DiscoAddressProofs -------------------------
(***************************************************************************)
(* Proofs that addresses are unique on the line: from the end of the reset *)
(* phase on no two slaves answer to the same address, the list names the   *)
(* slave that answers to each of its addresses, and no assignment carries  *)
(* the serial number that every slave would adopt.                         *)
(*                                                                         *)
(* None of the three is inductive.  What a slave answers to is decided by  *)
(* the requests that wait in its receiver too, so the invariant speaks of  *)
(* the addresses that a slave has or will take (MayHave); whom the master  *)
(* assigns is decided by the responses that wait in its receiver, so the   *)
(* invariant keeps the answers to left-over verify reads out of a query's  *)
(* window; and an old address survives only in a slave that missed every   *)
(* bus reset of the cycle.                                                 *)
(***************************************************************************)
EXTENDS DiscoBusProofs, FiniteSetTheorems

------------------------------------------------------------------------------
(***************************************************************************)
(* The invariant.                                                          *)
(***************************************************************************)
\* What the theorems need of the wiring: clocks, a receiver that can be
\* emptied, transmissions that succeed, and a serial number in the register
\* map of every slave.
Wired ==
    /\ ClocksWork /\ "flush" \in Installed /\ ~SendMayFail
    /\ \A s \in Slave : map_serialno[s] # ZeroSerial

\* The requests that wait in a slave's receiver, and the addresses that it
\* answers to or is going to take from one of them.
Waiting(s) == {srx[s][i] : i \in 1 .. Len(srx[s])}

MayTake(s, id) ==
    \E f \in Waiting(s) : f.fn = "write" /\ Dev!Adopts(s, f) /\ f.slave_id = id

MayHave(s, id) == address[s] = id \/ MayTake(s, id)

BusResetFrame == ResetFrame(PA_DISCO_ADDR, ZeroSerial)
Assignment == AssignFrame(PA_DISCO_ADDR, slave_id, rsp_serialno)
VerifyRead == VerifyFrame(slave_id, ZeroSerial)

\* Between two searches.
Resetting ==
    \/ state \in {"IDLE", "RESET_START", "RESET_REPEAT", "RESET_WAIT", "START", "FINISH"}
    \/ state = "REPEAT" /\ repeat = 0

\* Which requests can be waiting: from the end of a search to the next query
\* only bus resets, during a verification the assignment and, last, its verify
\* read.  Every write is one of the whole block, to everybody.
Frames(s) ==
    /\ \A f \in Waiting(s) : f.fn = "write" => IsFullBlock(f) /\ f.dst = PA_DISCO_ADDR
    /\ Resetting => \A f \in Waiting(s) : f = BusResetFrame
    /\ state = "VERIFY" =>
          /\ \A f \in Waiting(s) : f = Assignment \/ (verify_sent /\ f = VerifyRead)
          /\ \A i \in 1 .. (Len(srx[s]) - 1) : srx[s][i].fn = "write"

\* An assignment has given its round back, so that another query follows it.
RoundLeft == state = "VERIFY" => repeat >= 1

\* Every bus reset of this cycle went past the slave: each one is a fault.
Missed ==
    /\ reset_repeat_cycles - reset_repeat =< MaxFaults - faults
    /\ clean => reset_repeat = reset_repeat_cycles

\* Faults cannot have kept a bus reset from anybody.
Cleared == MaxFaults < reset_repeat_cycles \/ (clean /\ reset_repeat_cycles > 0)

ResetHeard(s) ==
    /\ state = "RESET_REPEAT" => address[s] = 0 \/ Missed
    /\ state = "RESET_WAIT" =>
          \/ address[s] = 0 \/ Missed
          \/ srx[s] # << >> /\ Since(wait_reset_start) =< late[s]
    /\ state = "START" /\ Cleared => address[s] = 0

Trusted ==
    state \in {"REPEAT", "WAIT", "VERIFY", "FINISH"} /\ Cleared /\ ~wrapped

\* Addresses are below the counter, or at it once it has been assigned, and
\* no two slaves have or will take the same one.
Below ==
    \A s \in Slave, id \in Byte :
        MayHave(s, id) => id =< slave_id /\ (state = "WAIT" /\ received => id < slave_id)

Unshared ==
    \A s, t \in Slave, id \in Byte : s # t /\ MayHave(s, id) /\ MayHave(t, id) => id = 0

\* The address that is being verified belongs to the slave it was meant for.
Named ==
    state = "VERIFY" =>
        /\ rsp_serialno # ZeroSerial
        /\ \A s \in Slave : MayHave(s, slave_id) => self_serialno[s] = rsp_serialno

\* When a response is there, whoever could answer the verify read has done so.
Answered ==
    state = "VERIFY" /\ verify_sent /\ rx # << >> /\ slave_id # PA_DISCO_ADDR =>
        \A s \in Slave : MayHave(s, slave_id) => \A f \in Waiting(s) : f.fn = "write"

\* No left-over read of another block is going to be answered during a query.
Unanswerable ==
    state \in {"REPEAT", "WAIT"} /\ slave_id # PA_DISCO_ADDR =>
        \A s \in Slave : \A f \in Waiting(s) :
            f.fn = "read" /\ NotQuery(f) => f.dst # PA_DISCO_ADDR /\ ~MayHave(s, f.dst)

\* So what the master hears in the window of a query has a serial number.
HeardNames ==
    state = "WAIT" =>
        /\ received => rsp_serialno # ZeroSerial
        /\ slave_id # PA_DISCO_ADDR => \A i \in 1 .. Len(rx) : rx[i].serialno # ZeroSerial

SearchInv ==
    Trusted => Below /\ Unshared /\ Named /\ Answered /\ Unanswerable /\ HeardNames

\* Records name the slaves that have or will take their addresses.
ListedOwn ==
    ~wrapped /\ MaxFaults < reset_repeat_cycles =>
        \A r \in Records :
            r.slave_id # 0 /\ \A s \in Slave : MayHave(s, r.slave_id) => self_serialno[s] = r.serialno

NamesSlave == ~wrapped /\ MaxFaults < reset_repeat_cycles => AssignmentNamesSlave

\* No request that waits could give an address to everybody.
ZeroMeansReset(s) ==
    ~wrapped /\ MaxFaults < reset_repeat_cycles =>
        \A f \in Waiting(s) : f.fn = "write" /\ f.serialno = ZeroSerial => f.slave_id = 0

FaultsOK == faults \in 0 .. MaxFaults /\ clean \in BOOLEAN

AddressInv ==
    /\ AllReady /\ ListInv /\ Numbered /\ VerifyPhase
    /\ FaultsOK
    /\ RoundLeft /\ \A s \in Slave : Frames(s) /\ ResetHeard(s) /\ ZeroMeansReset(s)
    /\ SearchInv /\ ListedOwn /\ NamesSlave
------------------------------------------------------------------------------
(***************************************************************************)
(* What waits for a slave, and what it has.                                *)
(***************************************************************************)
LEMMA WaitingTypes ==
    ASSUME BusTypeInv, NEW s \in Slave
    PROVE  \A f \in Waiting(s) : f \in RequestType
<1>1. srx[s] \in Seq(RequestType)
  BY SlaveTypes
<1> QED BY <1>1 DEF Waiting

\* An empty receiver has nothing, and nothing is taken out of one request.
LEMMA NothingWaits ==
    ASSUME NEW s \in Slave, srx[s] = << >>
    PROVE  Waiting(s) = {}
<1>1. 1 .. Len(srx[s]) = {}
  OBVIOUS
<1> QED BY <1>1 DEF Waiting

\* A service() call that transmits f adds f to what waits for some slaves.
LEMMA WaitingHeard ==
    ASSUME BusTypeInv, MasterStep, NEW s \in Slave
    PROVE  /\ tx' = << >> => srx'[s] = srx[s] /\ Waiting(s)' = Waiting(s)
           /\ \A f : tx' = <<f>> =>
                 \/ srx'[s] = srx[s] /\ Waiting(s)' = Waiting(s)
                 \/ srx'[s] = srx[s] \o <<f>> /\ Waiting(s)' = Waiting(s) \cup {f}
           /\ address' = address
<1> DEFINE q == srx[s]
           r == srx'[s]
<1>1. /\ r = q \/ r = q \o tx'
      /\ tx' = << >> => r = q
      /\ q \in Seq(RequestType)
  BY MasterHeard, SlaveTypes
<1>2. address' = address
  BY DEF MasterStep, deviceVars
<1>3. Waiting(s) = {q[i] : i \in 1 .. Len(q)} /\ Waiting(s)' = {r[i] : i \in 1 .. Len(r)}
  BY DEF Waiting
<1> HIDE DEF q, r
<1>4. ASSUME NEW f, r = q \o <<f>>
      PROVE  {r[i] : i \in 1 .. Len(r)} = {q[i] : i \in 1 .. Len(q)} \cup {f}
  <2>1. /\ Len(r) = Len(q) + 1
        /\ \A i \in 1 .. Len(q) : r[i] = q[i]
        /\ r[Len(q) + 1] = f
    BY <1>1, <1>4, Appended
  <2>2. Len(q) \in Nat
    BY <1>1
  <2>3. 1 .. Len(r) = (1 .. Len(q)) \cup {Len(q) + 1}
    BY <2>1, <2>2
  <2> QED BY <2>1, <2>3
<1>5. tx' = << >> => srx'[s] = srx[s] /\ Waiting(s)' = Waiting(s)
  BY <1>1, <1>3 DEF q, r
<1>6. ASSUME NEW f, tx' = <<f>>
      PROVE  \/ srx'[s] = srx[s] /\ Waiting(s)' = Waiting(s)
             \/ srx'[s] = srx[s] \o <<f>> /\ Waiting(s)' = Waiting(s) \cup {f}
  <2>1. r = q => Waiting(s)' = Waiting(s)
    BY <1>3
  <2>2. r = q \o <<f>> => Waiting(s)' = Waiting(s) \cup {f}
    BY <1>3, <1>4
  <2> QED BY <1>1, <1>6, <2>1, <2>2 DEF q, r
<1> QED BY <1>2, <1>5, <1>6

\* Taking the first request leaves the others.
LEMMA FirstTaken ==
    ASSUME BusTypeInv, NEW s \in Slave, srx[s] # << >>, srx'[s] = Tail(srx[s])
    PROVE  /\ Waiting(s)' \subseteq Waiting(s)
           /\ Head(srx[s]) \in Waiting(s) /\ Head(srx[s]) \in RequestType
<1> DEFINE q == srx[s]
           r == srx'[s]
<1>1. q \in Seq(RequestType) /\ q # << >> /\ r = Tail(q)
  BY SlaveTypes
<1>2. Waiting(s) = {q[i] : i \in 1 .. Len(q)} /\ Waiting(s)' = {r[i] : i \in 1 .. Len(r)}
  BY DEF Waiting
<1> HIDE DEF q, r
<1>3. /\ Len(q) \in Nat \ {0} /\ Len(r) = Len(q) - 1
      /\ Head(q) = q[1]
      /\ \A i \in 1 .. (Len(q) - 1) : r[i] = q[i + 1]
  BY <1>1, Tails
<1>4. Head(q) \in Waiting(s)
  <2>1. 1 \in 1 .. Len(q)
    BY <1>3
  <2> QED BY <1>2, <1>3, <2>1
<1>5. ASSUME NEW i \in 1 .. Len(r) PROVE r[i] \in Waiting(s)
  <2>1. i + 1 \in 1 .. Len(q) /\ r[i] = q[i + 1]
    BY <1>3
  <2> QED BY <1>2, <2>1
<1> QED BY <1>2, <1>4, <1>5, WaitingTypes DEF q
------------------------------------------------------------------------------
(***************************************************************************)
(* What a slave's step does to its address, and what it answers.           *)
(***************************************************************************)
\* The slaves that do not run keep what they have.
LEMMA OthersKeepAddress ==
    ASSUME BusTypeInv, NEW s \in Slave, SlaveStep(s) \/ SlaveRestart(s), NEW t \in Slave \ {s}
    PROVE  srx'[t] = srx[t] /\ address'[t] = address[t] /\ delay'[t] = delay[t]
<1> USE DEF BusTypeInv, SlavesOK
<1>1. CASE SlaveRestart(s)
  BY <1>1 DEF SlaveRestart, Dev!Restart
<1>2. CASE SlaveStep(s) /\ Dev!pa_disco_slave_service(s)
  BY <1>2 DEF Dev!pa_disco_slave_service
<1>3. CASE SlaveStep(s) /\ Dev!Reply(s)
  BY <1>3 DEF Dev!Reply
<1>4. CASE SlaveStep(s) /\ Dev!pa_disco_register_map_service(s)
  <2> DEFINE f == Head(srx[s])
  <2>1. srx'[t] = srx[t]
    BY <1>4 DEF Dev!pa_disco_register_map_service
  <2>2. CASE UNCHANGED <<address, delay>>
    BY <2>1, <2>2
  <2>3. CASE Dev!pa_disco_slave_read_cb(s, f) /\ UNCHANGED address
    <3>1. delay'[t] = delay[t]
      BY <2>3 DEF Dev!pa_disco_slave_read_cb, Dev!AnswerQuery
    <3> QED BY <2>1, <2>3, <3>1
  <2>4. CASE Dev!pa_disco_slave_write_cb(s, f) /\ UNCHANGED delay
    <3>1. address'[t] = address[t]
      BY <2>4 DEF Dev!pa_disco_slave_write_cb
    <3> QED BY <2>1, <2>4, <3>1
  <2> QED BY <1>4, <2>2, <2>3, <2>4 DEF Dev!pa_disco_register_map_service
<1> QED BY <1>1, <1>2, <1>3, <1>4 DEF SlaveStep, Dev!Run

\* An answer of the slave to a request, without a serial number.
ZeroAnswer(s) == stx' = <<[src |-> address[s], serialno |-> ZeroSerial]>>

\* The slave that takes the request f: it adopts the address of an assignment
\* that is for it; it answers reads of other blocks, and writes of other
\* blocks, at once.
TakesRequest(s, f) ==
    \/ address'[s] = address[s] /\ stx' = << >>
    \/ address'[s] = f.slave_id /\ stx' = << >> /\ f.fn = "write" /\ Dev!Adopts(s, f)
    \/ /\ address'[s] = address[s] /\ ZeroAnswer(s)
       /\ f.fn = "read" /\ NotQuery(f) /\ f.dst \in {address[s], PA_DISCO_ADDR}
    \/ /\ address'[s] = address[s] /\ ZeroAnswer(s)
       /\ f.fn = "write" /\ ~IsFullBlock(f)

LEMMA RequestHandled ==
    ASSUME BusTypeInv, NEW s \in Slave, SlaveStep(s), Dev!pa_disco_register_map_service(s)
    PROVE  LET f == Head(srx[s])
           IN  /\ srx[s] # << >> /\ srx'[s] = Tail(srx[s])
               /\ TakesRequest(s, f)
               /\ f.fn = "write" /\ f.dst = PA_DISCO_ADDR /\ IsFullBlock(f) /\ Dev!Adopts(s, f)
                     => address'[s] = f.slave_id
<1> DEFINE f == Head(srx[s])
<1>1. srx[s] # << >> /\ srx'[s] = Tail(srx[s])
  BY DEF Dev!pa_disco_register_map_service, BusTypeInv, SlavesOK
<1>2. address \in [Slave -> Byte]
  BY DEF BusTypeInv, SlavesOK
<1>3. \/ ~Dev!Addressed(s, f) /\ Dev!NoAnswer /\ UNCHANGED address
      \/ Dev!Addressed(s, f) /\ f.fn = "read" /\ Dev!pa_disco_slave_read_cb(s, f) /\ UNCHANGED address
      \/ Dev!Addressed(s, f) /\ f.fn = "write" /\ Dev!pa_disco_slave_write_cb(s, f)
  BY DEF Dev!pa_disco_register_map_service
<1> HIDE DEF f
<1>4. CASE ~Dev!Addressed(s, f) /\ Dev!NoAnswer /\ UNCHANGED address
  BY <1>1, <1>4 DEF TakesRequest, Dev!NoAnswer, Dev!Addressed, f
<1>5. CASE Dev!Addressed(s, f) /\ f.fn = "read" /\ Dev!pa_disco_slave_read_cb(s, f) /\ UNCHANGED address
  <2>1. \/ Dev!NoAnswer
        \/ ~Dev!InBlock(f) /\ Dev!Answer(s, ZeroSerial)
    BY <1>5 DEF Dev!pa_disco_slave_read_cb, Dev!AnswerQuery, Dev!ReadAllowed
  <2>2. ~Dev!InBlock(f) => NotQuery(f)
    BY DEF Dev!InBlock, NotQuery, IsFullBlock, PA_DISCO_REG_START, PA_DISCO_REG_COUNT,
           Dev!PA_DISCO_REG_START, Dev!PA_DISCO_REG_COUNT
  <2>3. TakesRequest(s, f)
    BY <1>5, <2>1, <2>2 DEF TakesRequest, Dev!NoAnswer, Dev!Answer, ZeroAnswer, Dev!Addressed
  <2> QED BY <1>1, <1>5, <2>3 DEF f
<1>6. CASE Dev!Addressed(s, f) /\ f.fn = "write" /\ Dev!pa_disco_slave_write_cb(s, f)
  <2>1. \/ IsFullBlock(f) /\ Dev!NoAnswer
        \/ ~IsFullBlock(f) /\ Dev!Answer(s, ZeroSerial)
    BY <1>6, SameBlock DEF Dev!pa_disco_slave_write_cb, Dev!WriteAllowed
  <2>2. \/ IsFullBlock(f) /\ Dev!Adopts(s, f) /\ address'[s] = f.slave_id
        \/ ~(IsFullBlock(f) /\ Dev!Adopts(s, f)) /\ address'[s] = address[s]
    BY <1>2, <1>6, SameBlock DEF Dev!pa_disco_slave_write_cb
  <2>3. TakesRequest(s, f)
    BY <1>6, <2>1, <2>2 DEF TakesRequest, Dev!NoAnswer, Dev!Answer, ZeroAnswer
  <2> QED BY <1>1, <2>2, <2>3 DEF f
<1> QED BY <1>3, <1>4, <1>5, <1>6

\* A slave never has, or will take, more than before; and it answers a query
\* after its delay, or a request as above.
LEMMA SlaveTakes ==
    ASSUME BusTypeInv, NEW s \in Slave, SlaveStep(s)
    PROVE  \/ /\ address'[s] = address[s] /\ stx' = << >>
              /\ srx'[s] = srx[s] \/ srx'[s] = << >>
           \/ /\ address'[s] = address[s] /\ srx'[s] = srx[s] /\ delay[s] = 0
              /\ stx' = <<[src |-> address[s], serialno |-> map_serialno[s]]>>
           \/ Dev!pa_disco_register_map_service(s)
<1>1. CASE Dev!pa_disco_slave_service(s)
  BY <1>1 DEF Dev!pa_disco_slave_service, Dev!NoAnswer, BusTypeInv, SlavesOK
<1>2. CASE Dev!Reply(s)
  BY <1>2 DEF Dev!Reply, Dev!Answer, Dev!NoAnswer
<1> QED BY <1>1, <1>2 DEF SlaveStep, Dev!Run

\* In steps of slaves nothing is added to what a slave has, but for the
\* address 0 of one that restarts, and then no request is left.
Shrinks(s) ==
    /\ Waiting(s)' \subseteq Waiting(s)
    /\ \A id : MayHave(s, id)' => MayHave(s, id) \/ (id = 0 /\ Waiting(s)' = {})

LEMMA SameShrinks ==
    ASSUME NEW s \in Slave, Waiting(s)' \subseteq Waiting(s), address'[s] = address[s]
    PROVE  Shrinks(s) /\ \A id : MayHave(s, id)' => MayHave(s, id)
BY DEF Shrinks, MayHave, MayTake, Dev!Adopts

LEMMA SlaveShrinks ==
    ASSUME BusTypeInv, NEW s \in Slave, SlaveStep(s) \/ SlaveRestart(s), NEW t \in Slave
    PROVE  Shrinks(t)
<1>1. CASE t # s
  <2>1. srx'[t] = srx[t] /\ address'[t] = address[t]
    BY <1>1, OthersKeepAddress
  <2>2. Waiting(t)' = Waiting(t)
    BY <2>1 DEF Waiting
  <2> QED BY <2>1, <2>2, SameShrinks
<1>2. CASE t = s /\ SlaveRestart(s)
  <2>1. srx'[s] = << >> /\ address'[s] = 0
    BY <1>2 DEF SlaveRestart, Dev!Restart, BusTypeInv, SlavesOK
  <2>2. Waiting(s)' = {}
    <3>1. 1 .. Len(srx'[s]) = {}
      BY <2>1
    <3> QED BY <3>1 DEF Waiting
  <2> QED BY <1>2, <2>1, <2>2 DEF Shrinks, MayHave, MayTake
<1>3. CASE t = s /\ SlaveStep(s)
  <2>1. CASE Dev!pa_disco_register_map_service(s)
    <3> DEFINE f == Head(srx[s])
    <3>1. srx[s] # << >> /\ srx'[s] = Tail(srx[s]) /\ TakesRequest(s, f)
      BY <1>3, <2>1, RequestHandled
    <3>2. Waiting(s)' \subseteq Waiting(s) /\ f \in Waiting(s)
      BY <3>1, FirstTaken
    <3> HIDE DEF f
    <3>3. CASE address'[s] = address[s]
      BY <1>3, <3>2, <3>3, SameShrinks
    <3>4. CASE address'[s] = f.slave_id /\ f.fn = "write" /\ Dev!Adopts(s, f)
      BY <1>3, <3>2, <3>4 DEF Shrinks, MayHave, MayTake, Dev!Adopts
    <3> QED BY <3>1, <3>3, <3>4 DEF TakesRequest
  <2>2. CASE ~Dev!pa_disco_register_map_service(s)
    <3>1. address'[s] = address[s] /\ (srx'[s] = srx[s] \/ srx'[s] = << >>)
      BY <1>3, <2>2, SlaveTakes
    <3>2. Waiting(s)' \subseteq Waiting(s)
      <4>1. CASE srx'[s] = srx[s]
        BY <4>1 DEF Waiting
      <4>2. CASE srx'[s] = << >>
        <5>1. 1 .. Len(srx'[s]) = {}
          BY <4>2
        <5> QED BY <5>1 DEF Waiting
      <4> QED BY <3>1, <4>1, <4>2
    <3> QED BY <1>3, <3>1, <3>2, SameShrinks
  <2> QED BY <2>1, <2>2
<1> QED BY <1>1, <1>2, <1>3
------------------------------------------------------------------------------
(***************************************************************************)
(* The moves of a master whose transmissions succeed.                      *)
(***************************************************************************)
LEMMA AlwaysSent == Wired => SendOutcomes = {TRUE}
BY EnvironmentAssumption DEF Wired, SendOutcomes

LEMMA RepeatMoves ==
    ASSUME Wired, TypeInv, do_state_repeat
    PROVE  /\ UNCHANGED <<slave_id, wrapped, list, rsp_serialno, reset_repeat, verify_sent>>
           /\ state = "REPEAT" /\ repeat >= 0 /\ repeat' = repeat - 1
           /\ \/ /\ state' = "WAIT" /\ received' = FALSE /\ rx' = << >> /\ repeat # 0
                 /\ tx' = <<QueryFrame(PA_DISCO_ADDR, ZeroSerial)>>
              \/ state' = "FINISH" /\ tx' = << >> /\ repeat = 0
<1> USE DEF do_state_repeat, resetVars, verifyVars, idVars, listVars
<1>1. state = "REPEAT" /\ repeat \in Int /\ repeat >= 0
  BY DEF TypeInv, TypeOK, CountersOK, Conserved
<1>2. CASE repeat - 1 >= 0
  <2>1. PICK sent \in SendOutcomes :
           /\ Send(QueryFrame(PA_DISCO_ADDR, ZeroSerial), sent)
           /\ IF sent THEN received' = FALSE /\ state' = "WAIT" ELSE TRUE
    BY <1>1, <1>2
  <2>2. sent = TRUE
    BY AlwaysSent
  <2>3. tx' = <<QueryFrame(PA_DISCO_ADDR, ZeroSerial)>> /\ received' = FALSE /\ state' = "WAIT"
    BY <2>1, <2>2, Zenon DEF Send
  <2>4. rx' = << >> /\ repeat # 0
    BY <1>1, <1>2 DEF Flushed, Wired
  <2> QED BY <1>1, <2>3, <2>4
<1>3. CASE repeat - 1 < 0
  <2>1. repeat = 0
    BY <1>1, <1>3
  <2> QED BY <1>1, <1>3, <2>1 DEF NoTransmission
<1> QED BY <1>1, <1>2, <1>3

\* Where nothing may wait any more, nothing waits for anybody.
NobodyWaits == \A s \in Slave : srx[s] = << >>

LEMMA WaitMoves ==
    ASSUME Wired, AllReady, do_state_wait
    PROVE  /\ UNCHANGED <<list, reset_repeat, verify_sent>>
           /\ state = "WAIT" /\ slave_id' = HeardId /\ rsp_serialno' = HeardSerial
           /\ received' = Heard /\ wrapped' = (wrapped \/ HeardId < slave_id)
           /\ \/ state' = "WAIT" /\ tx' = << >> /\ rx' = LeftInRx
              \/ /\ state' = "VERIFY" /\ Heard /\ NobodyWaits /\ rx' = << >>
                 /\ tx' = <<AssignFrame(PA_DISCO_ADDR, HeardId, HeardSerial)>>
                 /\ repeat' = repeat + 1
              \/ state' = "REPEAT" /\ ~Heard /\ NobodyWaits /\ tx' = << >> /\ repeat' = repeat
<1>1. /\ UNCHANGED <<list, reset_repeat, verify_sent>>
      /\ state = "WAIT" /\ slave_id' = HeardId /\ rsp_serialno' = HeardSerial
      /\ received' = Heard /\ wrapped' = (wrapped \/ HeardId < slave_id)
  BY Zenon DEF do_state_wait, resetVars, listVars
<1>2. WindowClosed => NobodyWaits
  BY <1>1, WindowsOver DEF AllReady, Ready, Idle, NobodyWaits, Wired
<1>3. CASE KeepWaiting
  BY <1>1, <1>3 DEF KeepWaiting, NoTransmission
<1>4. CASE AssignHeard
  <2>1. PICK sent \in SendOutcomes :
           /\ Send(AssignFrame(PA_DISCO_ADDR, HeardId, HeardSerial), sent)
           /\ IF sent THEN Assigned ELSE NotAssigned
    BY <1>4 DEF AssignHeard
  <2>2. sent = TRUE
    BY AlwaysSent
  <2>3. tx' = <<AssignFrame(PA_DISCO_ADDR, HeardId, HeardSerial)>> /\ Assigned
    BY <2>1, <2>2, Zenon DEF Send
  <2>4. rx' = << >> /\ WindowClosed /\ Heard
    BY <1>4 DEF AssignHeard, Flushed, Wired
  <2> QED BY <1>1, <1>2, <2>3, <2>4 DEF Assigned
<1>5. CASE NobodyAnswered
  BY <1>1, <1>2, <1>5 DEF NobodyAnswered, NoTransmission
<1> QED BY <1>3, <1>4, <1>5 DEF do_state_wait

\* When a verify read has timed out, every slave has taken it.
LEMMA VerifyOver ==
    ASSUME Wired, AllReady, do_state_verify, verify_sent, VerifyTimedOut
    PROVE  NobodyWaits
<1> SUFFICES ASSUME NEW s \in Slave PROVE srx[s] = << >>
  BY DEF NobodyWaits
<1> DEFINE n   == Len(srx[s])
           age == Since(verify_start)
<1>1. BusTypeInv /\ Listening(s) /\ state = "VERIFY"
  BY DEF AllReady, Ready, do_state_verify
<1>2. srx[s] \in Seq(RequestType) /\ n \in Nat
  BY <1>1, SlaveTypes
<1>3. age \in Int
  <2>1. age \in Clock
    BY <1>1, SinceType, ClockTypes
  <2> QED BY <2>1, <1>1, ClockTypes DEF Clock
<1>4. age >= PA_DISCO_VERIFY_TIMEOUT_MS
  BY DEF VerifyTimedOut, Elapsed, Since
<1>5. /\ late[s] \in 0 .. SlaveLatency /\ SlaveLatency \in Nat
      /\ PA_DISCO_VERIFY_TIMEOUT_MS \in Nat
  BY <1>1, SlaveTypes
<1>6. /\ n =< 2
      /\ n = 2 => age =< late[s]
      /\ n = 1 => age =< SlaveLatency + late[s]
  BY <1>1 DEF Listening
<1> HIDE DEF n, age
<1>7. n # 1 /\ n # 2
  BY <1>3, <1>4, <1>5, <1>6, TimingAssumption
<1>8. n = 0
  BY <1>2, <1>6, <1>7
<1> QED BY <1>2, <1>8 DEF n

LEMMA VerifyMoves ==
    ASSUME Wired, AllReady, do_state_verify
    PROVE  /\ UNCHANGED <<slave_id, wrapped, received, rsp_serialno, repeat, reset_repeat>>
           /\ state = "VERIFY"
           /\ \/ /\ ~verify_sent /\ verify_sent' /\ state' = "VERIFY"
                 /\ tx' = <<VerifyRead>> /\ rx' = << >> /\ list' = list
              \/ /\ verify_sent /\ ~verify_sent' /\ state' = "REPEAT" /\ tx' = << >>
                 /\ RecvOK /\ update_slave_list
              \/ /\ verify_sent /\ ~verify_sent' /\ state' \in {"VERIFY", "REPEAT"}
                 /\ tx' = << >> /\ NobodyWaits /\ list' = list
              \/ /\ verify_sent /\ verify_sent' /\ state' = "VERIFY"
                 /\ tx' = << >> /\ rx' = RecvRest /\ list' = list
<1>1. /\ UNCHANGED <<slave_id, wrapped, received, rsp_serialno, repeat, reset_repeat>>
      /\ state = "VERIFY"
  BY Zenon DEF do_state_verify, resetVars, roundVars, idVars
<1>2. CASE SendVerify
  <2>1. PICK sent \in SendOutcomes :
           /\ Send(VerifyFrame(slave_id, ZeroSerial), sent)
           /\ IF sent
              THEN /\ verify_sent' = TRUE
                   /\ verify_start' = Now
                   /\ UNCHANGED <<verify_repeat, state>>
              ELSE VerifyFailed /\ UNCHANGED <<verify_sent, verify_start>>
    BY <1>2 DEF SendVerify
  <2>2. sent = TRUE
    BY AlwaysSent
  <2>3. tx' = <<VerifyRead>> /\ verify_sent' = TRUE /\ state' = state
    BY <2>1, <2>2, Zenon DEF Send, VerifyRead
  <2>4. rx' = << >> /\ list' = list /\ ~verify_sent
    BY <1>2 DEF SendVerify, Flushed, Wired, listVars
  <2> QED BY <1>1, <2>3, <2>4
<1>3. CASE PollVerify
  <2>1. verify_sent /\ rx' = RecvRest /\ tx' = << >>
    BY <1>3 DEF PollVerify, NoTransmission
  <2>2. CASE VerifyConfirmed
    <3>1. ~verify_sent' /\ state' = "REPEAT" /\ RecvOK /\ update_slave_list
      BY <2>2 DEF VerifyConfirmed
    <3> QED BY <1>1, <2>1, <3>1
  <2>3. CASE VerifyTimedOut
    <3>1. ~verify_sent' /\ state' \in {"VERIFY", "REPEAT"} /\ list' = list
      BY <1>1, <2>3 DEF VerifyTimedOut, VerifyFailed, listVars
    <3>2. NobodyWaits
      BY <2>1, <2>3, VerifyOver
    <3> QED BY <1>1, <2>1, <3>1, <3>2
  <2>4. CASE VerifyPending
    <3>1. verify_sent' = verify_sent /\ state' = state /\ list' = list
      BY <2>4 DEF VerifyPending, listVars
    <3>2. verify_sent'
      BY <2>1, <3>1, Zenon
    <3> QED BY <1>1, <2>1, <3>1, <3>2
  <2> QED BY <1>3, <2>2, <2>3, <2>4 DEF PollVerify
<1> QED BY <1>2, <1>3 DEF do_state_verify

LEMMA ResetRepeatMoves ==
    ASSUME Wired, TypeInv, do_state_reset_repeat
    PROVE  /\ UNCHANGED <<slave_id, wrapped, list, received, rsp_serialno, verify_sent, repeat>>
           /\ state = "RESET_REPEAT" /\ reset_repeat \in Int
           /\ \/ /\ reset_repeat >= 1 /\ reset_repeat' = reset_repeat - 1
                 /\ state' = "RESET_WAIT" /\ tx' = <<BusResetFrame>> /\ wait_reset_start' = ticks
              \/ reset_repeat = 0 /\ state' = "START" /\ tx' = << >>
<1>1. /\ UNCHANGED <<slave_id, wrapped, list, received, rsp_serialno, verify_sent, repeat>>
      /\ state = "RESET_REPEAT" /\ reset_repeat' = reset_repeat - 1
  BY Zenon DEF do_state_reset_repeat, idVars, listVars, roundVars, verifyVars
<1>2. reset_repeat \in Int /\ reset_repeat >= 0
  BY <1>1 DEF TypeInv, TypeOK, CountersOK, Conserved
<1>3. CASE reset_repeat - 1 >= 0
  <2>1. PICK sent \in SendOutcomes :
           /\ Send(ResetFrame(PA_DISCO_ADDR, ZeroSerial), sent)
           /\ IF sent
              THEN wait_reset_start' = Now /\ state' = "RESET_WAIT"
              ELSE UNCHANGED <<wait_reset_start, state>>
    BY <1>2, <1>3 DEF do_state_reset_repeat
  <2>2. sent = TRUE
    BY AlwaysSent
  <2>3. tx' = <<BusResetFrame>> /\ state' = "RESET_WAIT" /\ wait_reset_start' = Now
    BY <2>1, <2>2, Zenon DEF Send, BusResetFrame
  <2>4. Now = ticks
    BY DEF Now, Wired, ClocksWork
  <2>5. reset_repeat >= 1
    BY <1>2, <1>3
  <2> QED BY <1>1, <1>2, <2>3, <2>4, <2>5
<1>4. CASE reset_repeat - 1 < 0
  <2>1. reset_repeat = 0
    BY <1>2, <1>4
  <2> QED BY <1>1, <1>2, <1>4, <2>1 DEF do_state_reset_repeat, NoTransmission
<1> QED BY <1>2, <1>3, <1>4

\* The handlers that transmit nothing and leave the receiver alone.
LEMMA OtherMoves ==
    ASSUME pa_disco_master_service,
           do_state_idle \/ do_state_start \/ do_state_reset_start \/ do_state_reset_wait
              \/ do_state_finish
    PROVE  /\ tx' = << >> /\ UNCHANGED <<received, rsp_serialno, verify_sent>>
           /\ \/ UNCHANGED <<state, repeat, slave_id, wrapped, list, reset_repeat, wait_reset_start>>
              \/ /\ state = "IDLE" /\ state' = "RESET_START"
                 /\ UNCHANGED <<repeat, slave_id, wrapped, list, reset_repeat>>
              \/ /\ state = "START" /\ state' = "REPEAT" /\ slave_id' = 0 /\ wrapped' = FALSE
                 /\ repeat' = repeat_cycles /\ UNCHANGED <<list, reset_repeat>>
              \/ /\ state = "RESET_START" /\ state' = "RESET_REPEAT" /\ list' = << >>
                 /\ reset_repeat' = reset_repeat_cycles
                 /\ UNCHANGED <<repeat, slave_id, wrapped>>
              \/ /\ state = "RESET_WAIT" /\ state' = "RESET_REPEAT"
                 /\ Elapsed(wait_reset_start, window_guard_time * 2)
                 /\ UNCHANGED <<repeat, slave_id, wrapped, list, reset_repeat>>
              \/ /\ state = "FINISH" /\ state' = "IDLE"
                 /\ UNCHANGED <<repeat, slave_id, wrapped, list, reset_repeat>>
<1> USE DEF resetVars, verifyVars, roundVars, idVars, listVars, NoTransmission
<1>1. CASE do_state_idle
  BY <1>1, Zenon DEF do_state_idle
<1>2. CASE do_state_start
  BY <1>2, Zenon DEF do_state_start
<1>3. CASE do_state_reset_start
  BY <1>3, Zenon DEF do_state_reset_start, pa_disco_list_clear
<1>4. CASE do_state_reset_wait
  <2>1. CASE Elapsed(wait_reset_start, window_guard_time * 2)
    BY <1>4, <2>1, Zenon DEF do_state_reset_wait
  <2>2. CASE ~Elapsed(wait_reset_start, window_guard_time * 2)
    BY <1>4, <2>2, Zenon DEF do_state_reset_wait
  <2> QED BY <2>1, <2>2
<1>5. CASE do_state_finish
  BY <1>5, Zenon DEF do_state_finish
<1> QED BY <1>1, <1>2, <1>3, <1>4, <1>5
------------------------------------------------------------------------------
(***************************************************************************)
(* Steps that are not a service() call, and faults.                        *)
(***************************************************************************)
LEMMA OthersKeepMaster ==
    ASSUME [BusNext]_busVars, ~MasterStep
    PROVE  /\ UNCHANGED <<state, repeat, reset_repeat, verify_sent, wait_reset_start, slave_id,
                          wrapped, received, rsp_serialno, list, pam_slave>>
           /\ tx' = << >> \/ tx' = tx
<1> USE DEF ctxVars, resetVars, verifyVars, roundVars, idVars, listVars
<1>1. CASE BusReset
  BY <1>1 DEF BusReset, pa_disco_master_reset
<1>2. CASE BusTick
  BY <1>2 DEF BusTick, Tick
<1>3. ASSUME NEW s \in Slave, SlaveStep(s) \/ SlaveRestart(s)
      PROVE  /\ UNCHANGED <<state, repeat, reset_repeat, verify_sent, wait_reset_start, slave_id,
                            wrapped, received, rsp_serialno, list, pam_slave>>
             /\ tx' = << >>
  BY <1>3 DEF SlaveStep, SlaveRestart
<1>4. CASE UNCHANGED busVars
  BY <1>4 DEF busVars, vars, pamVars
<1> QED BY <1>1, <1>2, <1>3, <1>4 DEF BusNext

LEMMA OthersKeepVerify ==
    ASSUME [BusNext]_busVars, ~MasterStep, VerifyPhase
    PROVE  VerifyPhase'
<1> USE DEF ctxVars, verifyVars
<1>1. UNCHANGED <<state, slave_id, verify_sent, pam_slave>>
  BY OthersKeepMaster
<1>2. verifies' = verifies
  <2>1. CASE BusReset
    BY <2>1 DEF BusReset, pa_disco_master_reset
  <2>2. CASE BusTick
    BY <2>2 DEF BusTick, Tick
  <2>3. ASSUME NEW s \in Slave, SlaveStep(s) \/ SlaveRestart(s) PROVE verifies' = verifies
    BY <2>3 DEF SlaveStep, SlaveRestart
  <2>4. CASE UNCHANGED busVars
    BY <2>4 DEF busVars, vars
  <2> QED BY <2>1, <2>2, <2>3, <2>4 DEF BusNext
<1> QED BY <1>1, <1>2 DEF VerifyPhase

\* They only ever shorten what waits for a slave.
LEMMA OthersShrink ==
    ASSUME BusTypeInv, [BusNext]_busVars, ~MasterStep, NEW s \in Slave
    PROVE  /\ Shrinks(s)
           /\ \/ srx'[s] = srx[s]
              \/ srx'[s] = << >>
              \/ srx[s] # << >> /\ srx'[s] = Tail(srx[s])
<1>1. CASE UNCHANGED <<address, srx>>
  <2>1. Waiting(s)' = Waiting(s)
    BY <1>1 DEF Waiting
  <2> QED BY <1>1, <2>1, SameShrinks
<1>2. ASSUME NEW t \in Slave, SlaveStep(t) \/ SlaveRestart(t)
      PROVE  \/ srx'[s] = srx[s]
             \/ srx'[s] = << >>
             \/ srx[s] # << >> /\ srx'[s] = Tail(srx[s])
  <2>1. CASE s # t
    BY <1>2, <2>1, OthersKeepAddress
  <2>2. CASE s = t /\ SlaveStep(s)
    BY <2>2, SlaveTakes, RequestHandled
  <2>3. CASE s = t /\ SlaveRestart(s)
    BY <2>3 DEF SlaveRestart, Dev!Restart, BusTypeInv, SlavesOK
  <2> QED BY <1>2, <2>1, <2>2, <2>3
<1>3. \/ UNCHANGED <<address, srx>>
      \/ \E t \in Slave : SlaveStep(t) \/ SlaveRestart(t)
  BY DEF BusNext, BusReset, BusTick, deviceVars, busVars
<1> QED BY <1>1, <1>2, <1>3, SlaveShrinks

\* A step's faults come off what is left, and spoil the cycle.
LEMMA FaultyTypes ==
    ASSUME FaultsOK, NEW n \in Nat, Faulty(n)
    PROVE  /\ FaultsOK' /\ faults' =< faults /\ faults' = faults - n
           /\ clean' => n = 0 /\ (clean \/ (state = "IDLE" /\ state' = "RESET_START"))
<1>1. MaxFaults \in Nat
  BY SlaveAssumption
<1>2. clean' \in BOOLEAN
  BY DEF Faulty
<1>3. clean' => n = 0 /\ (clean \/ (state = "IDLE" /\ state' = "RESET_START"))
  BY Zenon DEF Faulty
<1>4. faults' \in 0 .. MaxFaults /\ faults' =< faults /\ faults' = faults - n
  BY <1>1 DEF Faulty, FaultsOK
<1> QED BY <1>2, <1>3, <1>4 DEF FaultsOK

LEMMA DeafTypes ==
    ASSUME NEW deaf \in SUBSET Slave
    PROVE  Cardinality(deaf) \in Nat /\ \A s \in deaf : Cardinality(deaf) >= 1
<1>1. IsFiniteSet(deaf)
  BY SlaveAssumption, FS_Subset
<1>2. Cardinality(deaf) \in Nat
  BY <1>1, FS_CardinalityType
<1>3. ASSUME NEW s \in deaf PROVE Cardinality(deaf) >= 1
  <2>1. Cardinality(deaf) # 0
    BY <1>1, <1>3, FS_EmptySet
  <2> QED BY <1>2, <2>1
<1> QED BY <1>2, <1>3

LEMMA FaultsStep ==
    ASSUME FaultsOK, BusTypeInv, [BusNext]_busVars
    PROVE  /\ FaultsOK' /\ faults' =< faults
           /\ clean' => clean \/ (state = "IDLE" /\ state' = "RESET_START")
<1>1. CASE MasterStep
  BY <1>1, DeafTypes, FaultyTypes DEF MasterStep
<1>2. CASE UNCHANGED <<faults, clean>>
  BY <1>2, SlaveAssumption DEF FaultsOK
<1>3. ASSUME NEW s \in Slave, SlaveStep(s)
      PROVE  /\ FaultsOK' /\ faults' =< faults
             /\ clean' => clean \/ (state = "IDLE" /\ state' = "RESET_START")
  <2>1. PICK lost \in 0 .. Len(stx') : Faulty(lost)
    BY <1>3 DEF SlaveStep
  <2>2. lost \in Nat
    OBVIOUS
  <2> QED BY <2>1, <2>2, FaultyTypes
<1>4. ASSUME NEW s \in Slave, SlaveRestart(s)
      PROVE  /\ FaultsOK' /\ faults' =< faults
             /\ clean' => clean \/ (state = "IDLE" /\ state' = "RESET_START")
  <2>1. Faulty(1) /\ 1 \in Nat
    BY <1>4 DEF SlaveRestart
  <2> QED BY <2>1, FaultyTypes
<1> QED BY <1>1, <1>2, <1>3, <1>4 DEF BusNext, BusReset, BusTick, busVars

\* Whoever does not hear a request is one of the faults.
LEMMA DeafCounts ==
    ASSUME FaultsOK, BusTypeInv, MasterStep, NEW f, tx' = <<f>>, NEW s \in Slave, srx'[s] = srx[s]
    PROVE  faults' =< faults - 1 /\ ~clean'
<1>1. PICK deaf \in SUBSET Slave :
         /\ Faulty(Cardinality(deaf))
         /\ srx' = [t \in Slave |-> IF t \in deaf THEN srx[t] ELSE srx[t] \o tx']
  BY DEF MasterStep
<1>2. s \in deaf
  <2> DEFINE q == srx[s]
  <2>1. srx'[s] = srx[s] \o <<f>> => FALSE
    <3>1. q \in Seq(RequestType) /\ Len(q) \in Nat
      BY SlaveTypes
    <3> HIDE DEF q
    <3>2. ASSUME q = q \o <<f>> PROVE FALSE
      <4>1. Len(q) = Len(q) + 1
        BY <3>1, <3>2, Appended
      <4> QED BY <3>1, <4>1
    <3> QED BY <3>2 DEF q
  <2> QED BY <1>1, <2>1
<1>3. Cardinality(deaf) \in Nat /\ Cardinality(deaf) >= 1
  BY <1>2, DeafTypes
<1>4. /\ faults' = faults - Cardinality(deaf) /\ faults \in Int
      /\ clean' => Cardinality(deaf) = 0
  BY <1>1, <1>3, FaultyTypes DEF FaultsOK
<1> QED BY <1>3, <1>4

------------------------------------------------------------------------------
(***************************************************************************)
(* Which requests wait.                                                    *)
(***************************************************************************)
LEMMA FramesOthers ==
    ASSUME BusTypeInv, [BusNext]_busVars, ~MasterStep, NEW s \in Slave, Frames(s)
    PROVE  Frames(s)'
<1>1. /\ UNCHANGED <<state, repeat, slave_id, rsp_serialno, verify_sent>>
      /\ Waiting(s)' \subseteq Waiting(s)
  BY OthersKeepMaster, OthersShrink DEF Shrinks
<1>2. Resetting' = Resetting /\ Assignment' = Assignment /\ VerifyRead' = VerifyRead
      /\ BusResetFrame' = BusResetFrame
  BY <1>1 DEF Resetting, Assignment, VerifyRead, BusResetFrame
<1> DEFINE q == srx[s]
           r == srx'[s]
<1>3. ASSUME state = "VERIFY" PROVE \A i \in 1 .. (Len(r) - 1) : r[i].fn = "write"
  <2>1. q \in Seq(RequestType) /\ \A i \in 1 .. (Len(q) - 1) : q[i].fn = "write"
    BY <1>3, SlaveTypes DEF Frames
  <2>2. r = q \/ r = << >> \/ (q # << >> /\ r = Tail(q))
    BY OthersShrink
  <2> HIDE DEF q, r
  <2>3. CASE r = << >>
    <3>1. 1 .. (Len(r) - 1) = {}
      BY <2>3
    <3> QED BY <3>1
  <2>4. CASE q # << >> /\ r = Tail(q)
    <3>1. /\ Len(q) \in Nat /\ Len(r) = Len(q) - 1
          /\ \A i \in 1 .. (Len(q) - 1) : r[i] = q[i + 1]
      BY <2>1, <2>4, Tails
    <3> QED BY <2>1, <3>1
  <2> QED BY <2>1, <2>2, <2>3, <2>4
<1> HIDE DEF q, r
<1>4. (\A f \in Waiting(s) : f.fn = "write" => IsFullBlock(f) /\ f.dst = PA_DISCO_ADDR)'
  BY <1>1 DEF Frames, IsFullBlock
<1>5. (Resetting => \A f \in Waiting(s) : f = BusResetFrame)'
  BY <1>1, <1>2 DEF Frames
<1>6. (state = "VERIFY" => \A f \in Waiting(s) : f = Assignment \/ (verify_sent /\ f = VerifyRead))'
  BY <1>1, <1>2 DEF Frames
<1> QED BY <1>1, <1>3, <1>4, <1>5, <1>6 DEF Frames, r

\* The four requests of the master.
LEMMA RequestsKnown ==
    /\ \A id, serial :
          /\ AssignFrame(PA_DISCO_ADDR, id, serial).fn = "write"
          /\ AssignFrame(PA_DISCO_ADDR, id, serial).dst = PA_DISCO_ADDR
          /\ AssignFrame(PA_DISCO_ADDR, id, serial).slave_id = id
          /\ AssignFrame(PA_DISCO_ADDR, id, serial).serialno = serial
          /\ IsFullBlock(AssignFrame(PA_DISCO_ADDR, id, serial))
    /\ BusResetFrame = AssignFrame(PA_DISCO_ADDR, 0, ZeroSerial)
    /\ QueryFrame(PA_DISCO_ADDR, ZeroSerial).fn = "read"
    /\ ~NotQuery(QueryFrame(PA_DISCO_ADDR, ZeroSerial))
    /\ \A id : VerifyFrame(id, ZeroSerial).fn = "read" /\ VerifyFrame(id, ZeroSerial).dst = id
BY DEF AssignFrame, Request, IsFullBlock, ResetFrame, BusResetFrame, QueryFrame, VerifyFrame, NotQuery

LEMMA RoundLeftStep ==
    ASSUME Wired, AllReady, [BusNext]_busVars, RoundLeft
    PROVE  RoundLeft'
<1>1. CASE ~MasterStep
  BY <1>1, OthersKeepMaster DEF RoundLeft
<1>2. CASE MasterStep /\ do_state_wait
  <2>1. repeat \in Int /\ repeat >= 0
    BY <1>2 DEF do_state_wait, AllReady, BusTypeInv, TypeInv, TypeOK, CountersOK, Conserved
  <2>2. state' = "VERIFY" => repeat' = repeat + 1
    BY <1>2, WaitMoves
  <2> QED BY <2>1, <2>2 DEF RoundLeft
<1>3. CASE MasterStep /\ do_state_verify
  BY <1>3, VerifyMoves DEF RoundLeft
<1>4. CASE MasterStep /\ ~do_state_wait /\ ~do_state_verify
  <2>1. state' # "VERIFY"
    BY <1>4 DEF MasterStep, pa_disco_master_service, do_state_idle, do_state_start,
                do_state_repeat, do_state_reset_start, do_state_reset_repeat,
                do_state_reset_wait, do_state_finish
  <2> QED BY <2>1 DEF RoundLeft
<1> QED BY <1>1, <1>2, <1>3, <1>4

LEMMA FramesService ==
    ASSUME Wired, AllReady, MasterStep, NEW s \in Slave, Frames(s), RoundLeft
    PROVE  Frames(s)'
<1> USE DEF Frames
<1>0. BusTypeInv /\ TypeInv /\ srx[s] \in Seq(RequestType)
  BY SlaveTypes DEF AllReady, BusTypeInv
<1>1. ASSUME tx' = << >>, state' # "VERIFY", Resetting' => Resetting \/ Waiting(s) = {}
      PROVE  Frames(s)'
  <2>1. Waiting(s)' = Waiting(s) /\ BusResetFrame' = BusResetFrame
    BY <1>0, <1>1, WaitingHeard DEF BusResetFrame
  <2> QED BY <1>1, <2>1 DEF IsFullBlock
<1>2. CASE do_state_idle \/ do_state_start \/ do_state_reset_start \/ do_state_reset_wait
              \/ do_state_finish
  <2>1. tx' = << >> /\ state \notin {"VERIFY", "REPEAT", "WAIT"} /\ state' # "VERIFY"
    BY <1>2, OtherMoves DEF MasterStep, do_state_idle, do_state_start, do_state_reset_start,
                            do_state_reset_wait, do_state_finish
  <2>2. Resetting
    BY <1>2 DEF Resetting, do_state_idle, do_state_start, do_state_reset_start,
                do_state_reset_wait, do_state_finish
  <2> QED BY <1>1, <2>1, <2>2
<1>3. CASE do_state_repeat
  <2>1. CASE state' = "FINISH" /\ tx' = << >> /\ repeat = 0 /\ state = "REPEAT"
    BY <1>1, <2>1 DEF Resetting
  <2>2. CASE state' = "WAIT" /\ tx' = <<QueryFrame(PA_DISCO_ADDR, ZeroSerial)>>
    <3>1. Waiting(s)' \subseteq Waiting(s) \cup {QueryFrame(PA_DISCO_ADDR, ZeroSerial)}
      BY <1>0, <2>2, WaitingHeard
    <3> QED BY <2>2, <3>1, RequestsKnown DEF Resetting, IsFullBlock
  <2> QED BY <1>0, <1>3, <2>1, <2>2, RepeatMoves
<1>4. CASE do_state_wait
  <2>0. NobodyWaits => Waiting(s) = {} /\ srx[s] = << >>
    BY NothingWaits DEF NobodyWaits
  <2>1. CASE state' = "WAIT" /\ tx' = << >>
    BY <1>1, <2>1 DEF Resetting
  <2>2. CASE state' = "REPEAT" /\ NobodyWaits /\ tx' = << >>
    BY <1>1, <2>0, <2>2
  <2>3. CASE /\ state' = "VERIFY" /\ NobodyWaits
             /\ tx' = <<AssignFrame(PA_DISCO_ADDR, HeardId, HeardSerial)>>
             /\ slave_id' = HeardId /\ rsp_serialno' = HeardSerial
    <3> DEFINE f == AssignFrame(PA_DISCO_ADDR, HeardId, HeardSerial)
    <3>1. Assignment' = f
      BY <2>3 DEF Assignment, AssignFrame, Request
    <3>2. f.fn = "write" /\ IsFullBlock(f) /\ f.dst = PA_DISCO_ADDR
      BY RequestsKnown
    <3>3. Waiting(s)' \subseteq {f} /\ (srx'[s] = << >> \/ srx'[s] = <<f>>)
      <4> HIDE DEF f
      <4>1. tx' = <<f>>
        BY <2>3 DEF f
      <4>2. << >> \o <<f>> = <<f>>
        OBVIOUS
      <4> QED BY <1>0, <2>0, <2>3, <4>1, <4>2, WaitingHeard
    <3> HIDE DEF f
    <3>4. 1 .. (Len(srx'[s]) - 1) = {}
      <4>1. Len(<< >>) = 0 /\ Len(<<f>>) = 1
        OBVIOUS
      <4>2. Len(srx'[s]) = 0 \/ Len(srx'[s]) = 1
        BY <3>3, <4>1
      <4>3. 1 .. (0 - 1) = {} /\ 1 .. (1 - 1) = {}
        OBVIOUS
      <4> QED BY <4>2, <4>3
    <3> QED BY <2>3, <3>1, <3>2, <3>3, <3>4 DEF Resetting, IsFullBlock
  <2> QED BY <1>4, <2>1, <2>2, <2>3, WaitMoves
<1>5. CASE do_state_verify
  <2>0. UNCHANGED <<slave_id, rsp_serialno, repeat>> /\ state = "VERIFY" /\ repeat >= 1
    BY <1>5, VerifyMoves DEF RoundLeft
  <2>1. Assignment' = Assignment /\ VerifyRead' = VerifyRead
    BY <2>0 DEF Assignment, VerifyRead
  <2>2. CASE ~verify_sent /\ verify_sent' /\ state' = "VERIFY" /\ tx' = <<VerifyRead>>
    <3> DEFINE q == srx[s]
               r == srx'[s]
    <3>1. \A f \in Waiting(s) : f = Assignment
      BY <2>0, <2>2
    <3>2. \A i \in 1 .. Len(q) : q[i] = Assignment
      BY <3>1 DEF Waiting
    <3>3. Assignment.fn = "write" /\ IsFullBlock(Assignment) /\ Assignment.dst = PA_DISCO_ADDR
          /\ VerifyRead.fn = "read"
      BY RequestsKnown DEF Assignment, VerifyRead
    <3>4. Waiting(s)' \subseteq Waiting(s) \cup {VerifyRead} /\ (r = q \/ r = q \o <<VerifyRead>>)
      BY <1>0, <2>2, WaitingHeard
    <3>5. \A i \in 1 .. (Len(r) - 1) : r[i].fn = "write"
      <4> HIDE DEF q, r
      <4>1. CASE r = q
        <5>1. Len(q) \in Nat
          BY <1>0 DEF q
        <5> QED BY <3>2, <3>3, <4>1, <5>1
      <4>2. CASE r = q \o <<VerifyRead>>
        <5>1. Len(r) = Len(q) + 1 /\ \A i \in 1 .. Len(q) : r[i] = q[i]
          BY <1>0, <4>2, Appended DEF q
        <5>2. Len(q) \in Nat
          BY <1>0 DEF q
        <5> QED BY <3>2, <3>3, <5>1, <5>2
      <4> QED BY <3>4, <4>1, <4>2
    <3>6. \A f \in Waiting(s)' : f = Assignment \/ f = VerifyRead
      BY <3>1, <3>4
    <3> HIDE DEF q
    <3> QED BY <2>1, <2>2, <3>3, <3>5, <3>6 DEF Resetting, IsFullBlock
  <2>3. CASE tx' = << >> /\ verify_sent /\ verify_sent' /\ state' = "VERIFY"
    <3>1. srx'[s] = srx[s] /\ Waiting(s)' = Waiting(s)
      BY <1>0, <2>3, WaitingHeard
    <3> QED BY <2>0, <2>1, <2>3, <3>1 DEF Resetting, IsFullBlock
  <2>4. CASE tx' = << >> /\ NobodyWaits
    <3>1. srx'[s] = << >> /\ Waiting(s)' = {}
      BY <1>0, <2>4, WaitingHeard, NothingWaits DEF NobodyWaits
    <3>2. 1 .. (Len(srx'[s]) - 1) = {}
      BY <3>1
    <3> QED BY <3>1, <3>2
  <2>5. CASE state' = "REPEAT" /\ tx' = << >> /\ verify_sent
    <3>1. repeat # 0 => ~Resetting'
      BY <2>0, <2>5 DEF Resetting
    <3>2. repeat # 0
      BY <2>0
    <3> QED BY <1>1, <2>5, <3>1, <3>2
  <2> QED BY <1>5, <2>2, <2>3, <2>4, <2>5, VerifyMoves
<1>6. CASE do_state_reset_repeat
  <2>1. CASE state = "RESET_REPEAT" /\ state' = "START" /\ tx' = << >>
    BY <1>1, <2>1 DEF Resetting
  <2>2. CASE state = "RESET_REPEAT" /\ state' = "RESET_WAIT" /\ tx' = <<BusResetFrame>>
    <3>1. Waiting(s)' \subseteq Waiting(s) \cup {BusResetFrame} /\ BusResetFrame' = BusResetFrame
      BY <1>0, <2>2, WaitingHeard DEF BusResetFrame
    <3> QED BY <2>2, <3>1, RequestsKnown DEF Resetting, IsFullBlock
  <2> QED BY <1>0, <1>6, <2>1, <2>2, ResetRepeatMoves
<1> QED BY <1>2, <1>3, <1>4, <1>5, <1>6 DEF MasterStep, pa_disco_master_service
------------------------------------------------------------------------------
(***************************************************************************)
(* The reset phase: an address survives it only where every reset got lost.*)
(***************************************************************************)
\* Between two searches a slave that runs keeps its address or drops it; it
\* drops it when a bus reset was waiting.
LEMMA ResetTaken ==
    ASSUME BusTypeInv, NEW s \in Slave, SlaveStep(s), Resetting, Frames(s)
    PROVE  /\ address'[s] = address[s] \/ address'[s] = 0
           /\ Listening(s) => address'[s] = 0
<1>1. CASE Dev!pa_disco_register_map_service(s)
  <2> DEFINE f == Head(srx[s])
  <2>1. /\ srx[s] # << >> /\ srx'[s] = Tail(srx[s])
        /\ f.fn = "write" /\ f.dst = PA_DISCO_ADDR /\ IsFullBlock(f) /\ Dev!Adopts(s, f)
              => address'[s] = f.slave_id
    BY <1>1, RequestHandled
  <2>2. f \in Waiting(s)
    BY <2>1, FirstTaken
  <2> HIDE DEF f
  <2>3. f = AssignFrame(PA_DISCO_ADDR, 0, ZeroSerial)
    BY <2>2, RequestsKnown DEF Frames
  <2>4. /\ f.fn = "write" /\ f.dst = PA_DISCO_ADDR /\ IsFullBlock(f)
        /\ f.slave_id = 0 /\ f.serialno = ZeroSerial
    BY <2>3, RequestsKnown
  <2>5. Dev!Adopts(s, f)
    BY <2>4 DEF Dev!Adopts
  <2> QED BY <2>1, <2>4, <2>5
<1>2. CASE ~Dev!pa_disco_register_map_service(s)
  <2>1. address'[s] = address[s]
    BY <1>2, SlaveTakes
  <2>2. ~Listening(s)
    BY <1>2 DEF SlaveStep, Dev!Run, Dev!pa_disco_slave_service, Dev!Reply, Listening, Attentive,
                Dev!NoDelay
  <2> QED BY <2>1, <2>2
<1> QED BY <1>1, <1>2

\* What was lost stays lost.
LEMMA MissedKept ==
    ASSUME FaultsOK, BusTypeInv, [BusNext]_busVars, state # "IDLE", reset_repeat' = reset_repeat
    PROVE  (Missed => Missed') /\ (Cleared' => Cleared)
<1> DEFINE left == faults'
<1>1. /\ faults \in Int /\ left \in Int /\ left =< faults
      /\ clean' => clean
  BY FaultsStep DEF FaultsOK
<1>2. reset_repeat \in Int /\ reset_repeat_cycles \in Nat /\ MaxFaults \in Nat
  BY SettingsAssumption, SlaveAssumption DEF BusTypeInv, TypeInv, TypeOK, CountersOK
<1>3. Missed => reset_repeat_cycles - reset_repeat =< MaxFaults - faults'
  <2> HIDE DEF left
  <2>1. Missed => reset_repeat_cycles - reset_repeat =< MaxFaults - left
    BY <1>1, <1>2 DEF Missed
  <2> QED BY <2>1, Zenon DEF left
<1>4. Missed => (clean' => reset_repeat = reset_repeat_cycles)
  BY <1>1 DEF Missed
<1>5. Missed => Missed'
  BY <1>3, <1>4, Zenon DEF Missed
<1>6. Cleared' => Cleared
  BY <1>1, Zenon DEF Cleared
<1> QED BY <1>5, <1>6

LEMMA ResetHeardOthers ==
    ASSUME Wired, FaultsOK, AllReady, [BusNext]_busVars, ~MasterStep,
           NEW s \in Slave, Frames(s), ResetHeard(s)
    PROVE  ResetHeard(s)'
<1>0. BusTypeInv /\ UNCHANGED <<state, repeat, reset_repeat, wait_reset_start>>
  BY OthersKeepMaster DEF AllReady
<1>1. CASE state \notin {"RESET_REPEAT", "RESET_WAIT", "START"}
  BY <1>0, <1>1 DEF ResetHeard
<1>2. CASE state \in {"RESET_REPEAT", "RESET_WAIT", "START"}
  <2>1. Resetting /\ (Missed => Missed') /\ (Cleared' => Cleared)
    BY <1>0, <1>2, MissedKept DEF Resetting
  <2>2. CASE BusTick
    <3>1. address' = address /\ srx'[s] = srx[s]
      BY <1>0, <2>2, SlaveTick DEF BusTick
    <3>2. ASSUME state = "RESET_WAIT", srx[s] # << >>, Since(wait_reset_start) =< late[s]
          PROVE  Since(wait_reset_start)' =< late'[s]
      <4> DEFINE age  == Since(wait_reset_start)
                 age2 == Since(wait_reset_start)'
      <4>1. late'[s] = late[s] + 1 /\ late[s] \in Nat
        <5>1. Attentive(s)
          BY <3>2 DEF AllReady, Ready, Listening
        <5>2. late[s] \in Nat
          BY <1>0, SlaveTypes
        <5> QED BY <1>0, <2>2, <3>2, <5>1, <5>2, QueueTick
      <4>2. age \in Nat /\ age2 \in Nat /\ age2 =< age + 1
        <5>1. age2 = (ticks' - wait_reset_start) % TickModulus
          BY <1>0 DEF Since
        <5>2. wait_reset_start \in Clock
          BY <1>0, ClockTypes
        <5> HIDE DEF age2
        <5> QED BY <1>0, <2>2, <5>1, <5>2, SinceLater
      <4>3. age =< late[s]
        BY <3>2
      <4> HIDE DEF age, age2
      <4>4. age2 =< late'[s]
        BY <4>1, <4>2, <4>3
      <4> QED BY <4>4 DEF age2
    <3> QED BY <1>0, <2>1, <3>1, <3>2 DEF ResetHeard
  <2>3. ASSUME NEW t \in Slave, SlaveStep(t) \/ SlaveRestart(t) PROVE ResetHeard(s)'
    <3>1. CASE t # s
      <4>1. srx'[s] = srx[s] /\ address'[s] = address[s] /\ late'[s] = late[s] /\ ticks' = ticks
        BY <1>0, <2>3, <3>1, OthersKeepAddress, SlaveRuns
      <4> QED BY <1>0, <2>1, <4>1 DEF ResetHeard, Since
    <3>2. CASE t = s /\ SlaveRestart(s)
      <4>1. address'[s] = 0
        BY <1>0, <3>2 DEF SlaveRestart, Dev!Restart, BusTypeInv, SlavesOK
      <4> QED BY <4>1 DEF ResetHeard
    <3>3. CASE t = s /\ SlaveStep(s)
      <4>1. /\ address'[s] = address[s] \/ address'[s] = 0
            /\ Listening(s) => address'[s] = 0
        BY <1>0, <2>1, <3>3, ResetTaken
      <4>2. Listening(s)
        BY <1>2 DEF AllReady, Ready
      <4> QED BY <4>1, <4>2 DEF ResetHeard
    <3> QED BY <2>3, <3>1, <3>2, <3>3
  <2>4. CASE UNCHANGED <<srx, address, late, ticks>>
    BY <1>0, <2>1, <2>4 DEF ResetHeard, Since
  <2>5. BusReset \/ UNCHANGED busVars => UNCHANGED <<srx, address, late, ticks>>
    BY DEF BusReset, pa_disco_master_reset, deviceVars, busVars, vars
  <2> QED BY <2>2, <2>3, <2>4, <2>5 DEF BusNext
<1> QED BY <1>1, <1>2

\* The wait after a bus reset is long enough for a slave to take it.
LEMMA ResetWaited ==
    ASSUME Wired, BusTypeInv, NEW s \in Slave, Elapsed(wait_reset_start, window_guard_time * 2)
    PROVE  ~(Since(wait_reset_start) =< late[s])
<1> DEFINE age == Since(wait_reset_start)
<1>1. age \in Int
  <2>1. age \in Clock
    BY SinceType, ClockTypes
  <2> QED BY <2>1, ClockTypes DEF Clock
<1>2. age >= window_guard_time * 2
  BY DEF Elapsed, Since
<1>3. late[s] \in 0 .. SlaveLatency /\ SlaveLatency \in Nat /\ window_guard_time \in Nat
  BY SlaveTypes
<1> HIDE DEF age
<1>4. ~(age =< late[s])
  BY <1>1, <1>2, <1>3, TimingAssumption
<1> QED BY <1>4 DEF age

LEMMA ResetHeardService ==
    ASSUME Wired, FaultsOK, AllReady, MasterStep, NEW s \in Slave, Frames(s), ResetHeard(s)
    PROVE  ResetHeard(s)'
<1>0. BusTypeInv /\ TypeInv /\ address' = address /\ [BusNext]_busVars
  BY WaitingHeard DEF AllReady, BusTypeInv, BusNext
<1>1. CASE do_state_repeat \/ do_state_wait \/ do_state_verify
  <2>1. state' \notin {"RESET_REPEAT", "RESET_WAIT", "START"}
    BY <1>0, <1>1, RepeatMoves, WaitMoves, VerifyMoves
  <2> QED BY <2>1 DEF ResetHeard
<1>2. CASE do_state_idle \/ do_state_start \/ do_state_reset_start \/ do_state_reset_wait
              \/ do_state_finish
  <2>1. tx' = << >>
    BY <1>2, OtherMoves DEF MasterStep
  <2>2. srx'[s] = srx[s] /\ late'[s] = late[s] /\ ticks' = ticks
    BY <1>0, <2>1, MasterHeard
  <2>3. CASE state' \notin {"RESET_REPEAT", "RESET_WAIT", "START"}
    BY <2>3 DEF ResetHeard
  <2>4. CASE /\ UNCHANGED <<state, reset_repeat, wait_reset_start>>
             /\ state \in {"RESET_REPEAT", "RESET_WAIT", "START"}
    <3>1. (Missed => Missed') /\ (Cleared' => Cleared)
      BY <1>0, <2>4, MissedKept
    <3> QED BY <1>0, <2>2, <2>4, <3>1 DEF ResetHeard, Since
  <2>5. CASE state = "RESET_START" /\ state' = "RESET_REPEAT" /\ reset_repeat' = reset_repeat_cycles
    <3>1. reset_repeat_cycles \in Nat /\ MaxFaults \in Nat /\ faults' \in 0 .. MaxFaults
      BY <1>0, SettingsAssumption, SlaveAssumption, FaultsStep DEF FaultsOK
    <3>2. Missed'
      <4>1. reset_repeat_cycles - reset_repeat_cycles =< MaxFaults - faults'
        <5> DEFINE left == faults'
        <5>1. left \in 0 .. MaxFaults
          BY <3>1
        <5> HIDE DEF left
        <5>2. reset_repeat_cycles - reset_repeat_cycles =< MaxFaults - left
          BY <3>1, <5>1
        <5> QED BY <5>2, Zenon DEF left
      <4> QED BY <2>5, <4>1, Zenon DEF Missed
    <3> QED BY <2>5, <3>2 DEF ResetHeard
  <2>6. CASE /\ state = "RESET_WAIT" /\ state' = "RESET_REPEAT" /\ reset_repeat' = reset_repeat
             /\ Elapsed(wait_reset_start, window_guard_time * 2)
    <3>1. Missed => Missed'
      BY <1>0, <2>6, MissedKept
    <3>2. address[s] = 0 \/ Missed
      BY <1>0, <2>6, ResetWaited DEF ResetHeard
    <3> QED BY <1>0, <2>6, <3>1, <3>2 DEF ResetHeard
  <2>7. \/ state' \notin {"RESET_REPEAT", "RESET_WAIT", "START"}
        \/ UNCHANGED <<state, reset_repeat, wait_reset_start>>
        \/ state = "RESET_START" /\ state' = "RESET_REPEAT" /\ reset_repeat' = reset_repeat_cycles
        \/ /\ state = "RESET_WAIT" /\ state' = "RESET_REPEAT" /\ reset_repeat' = reset_repeat
           /\ Elapsed(wait_reset_start, window_guard_time * 2)
    BY <1>2, OtherMoves DEF MasterStep
  <2> QED BY <2>3, <2>4, <2>5, <2>6, <2>7
<1>3. CASE do_state_reset_repeat
  <2>0. reset_repeat_cycles \in Nat /\ MaxFaults \in Nat /\ faults \in 0 .. MaxFaults
        /\ faults' \in 0 .. MaxFaults /\ reset_repeat \in Int
    BY <1>0, <1>3, SettingsAssumption, SlaveAssumption, FaultsStep, ResetRepeatMoves DEF FaultsOK
  <2>1. CASE /\ reset_repeat >= 1 /\ reset_repeat' = reset_repeat - 1
             /\ state' = "RESET_WAIT" /\ tx' = <<BusResetFrame>> /\ wait_reset_start' = ticks
    <3>1. CASE srx'[s] = srx[s]
      <4>1. faults' =< faults - 1 /\ ~clean'
        BY <1>0, <2>1, <3>1, DeafCounts
      <4>2. address[s] = 0 \/ Missed
        BY <1>3, ResetRepeatMoves, <1>0 DEF ResetHeard
      <4>3. Missed => reset_repeat_cycles - reset_repeat' =< MaxFaults - faults'
        <5>1. Missed => reset_repeat_cycles - reset_repeat =< MaxFaults - faults
          BY Zenon DEF Missed
        <5> DEFINE left == faults'
                   next == reset_repeat'
        <5>2. left \in Int /\ left =< faults - 1 /\ next = reset_repeat - 1
          BY <2>0, <2>1, <4>1
        <5> HIDE DEF left, next
        <5>3. Missed => reset_repeat_cycles - next =< MaxFaults - left
          BY <2>0, <5>1, <5>2
        <5> QED BY <5>3, Zenon DEF left, next
      <4>4. Missed => Missed'
        BY <4>1, <4>3 DEF Missed
      <4> QED BY <1>0, <2>1, <4>2, <4>4 DEF ResetHeard
    <3>2. CASE srx'[s] = srx[s] \o <<BusResetFrame>>
      <4>1. srx'[s] # << >>
        BY <1>0, <3>2, SlaveTypes, Appended
      <4>2. Since(wait_reset_start)' = 0
        <5>1. ticks' = ticks /\ Since(ticks) = 0
          BY <1>0, MasterHeard, SinceType, ClockTypes
        <5> QED BY <2>1, <5>1 DEF Since
      <4>3. 0 =< late'[s]
        BY <1>0, MasterHeard, SlaveTypes
      <4> QED BY <2>1, <4>1, <4>2, <4>3 DEF ResetHeard
    <3> QED BY <1>0, <2>1, <3>1, <3>2, WaitingHeard
  <2>2. CASE reset_repeat = 0 /\ state' = "START"
    <3>1. address[s] = 0 \/ Missed
      BY <1>0, <1>3, ResetRepeatMoves DEF ResetHeard
    <3>2. clean' => clean
      BY <1>0, <1>3, FaultsStep, ResetRepeatMoves
    <3>3. Missed => ~Cleared'
      BY <2>0, <2>2, <3>2 DEF Missed, Cleared
    <3> QED BY <1>0, <2>2, <3>1, <3>3 DEF ResetHeard
  <2> QED BY <1>0, <1>3, <2>1, <2>2, ResetRepeatMoves
<1> QED BY <1>1, <1>2, <1>3 DEF MasterStep, pa_disco_master_service
------------------------------------------------------------------------------
(***************************************************************************)
(* The search: who has which address, and whom the master hears.           *)
(***************************************************************************)
\* A search is trusted from its beginning or not at all.
LEMMA TrustedKept ==
    ASSUME FaultsOK, BusTypeInv, [BusNext]_busVars, state # "START", Trusted'
    PROVE  Trusted
<1>1. state \in {"REPEAT", "WAIT", "VERIFY", "FINISH"} /\ (wrapped => wrapped')
  <2>1. CASE ~MasterStep
    <3>1. state' = state /\ wrapped' = wrapped
      BY <2>1, OthersKeepMaster
    <3>2. state' \in {"REPEAT", "WAIT", "VERIFY", "FINISH"}
      BY DEF Trusted
    <3> QED BY <3>1, <3>2, Zenon
  <2>2. CASE MasterStep
    <3>1. state' \in {"REPEAT", "WAIT", "VERIFY", "FINISH"}
             => state \in {"REPEAT", "WAIT", "VERIFY", "FINISH"}
      BY <2>2 DEF MasterStep, pa_disco_master_service, do_state_idle, do_state_start,
                  do_state_repeat, do_state_wait, do_state_verify, do_state_reset_start,
                  do_state_reset_repeat, do_state_reset_wait, do_state_finish
    <3>0. state' \in {"REPEAT", "WAIT", "VERIFY", "FINISH"}
      BY DEF Trusted
    <3>2. wrapped => wrapped'
      BY <2>2, Zenon DEF MasterStep, pa_disco_master_service, do_state_idle, do_state_start,
                  do_state_repeat, do_state_wait, do_state_verify, do_state_reset_start,
                  do_state_reset_repeat, do_state_reset_wait, do_state_finish, idVars
    <3> QED BY <3>0, <3>1, <3>2, Zenon
  <2> QED BY <2>1, <2>2
<1>2. clean' => clean
  BY <1>1, FaultsStep
<1>3. Cleared' => Cleared
  BY <1>2, Zenon DEF Cleared
<1> QED BY <1>1, <1>3, Zenon DEF Trusted

\* What the steps of slaves leave of the search, as long as no answer arrives.
LEMMA SearchShrinks ==
    ASSUME BusTypeInv, Numbered, SearchInv, Trusted,
           UNCHANGED <<state, slave_id, received, rsp_serialno, verify_sent>>,
           \A s \in Slave : Shrinks(s)
    PROVE  /\ Below' /\ Unshared' /\ Named' /\ Unanswerable'
           /\ rx' = rx => Answered' /\ HeardNames'
<1>0. slave_id \in Byte /\ slave_id >= 0
  BY DEF BusTypeInv, TypeInv, TypeOK, DataOK, Byte
<1>1. Below'
  <2>1. 0 \in Byte /\ 0 =< slave_id
    BY <1>0, WidthAssumption DEF Byte
  <2>2. state = "WAIT" /\ received => 0 < slave_id
    BY <1>0 DEF Numbered, Byte
  <2>3. ASSUME NEW s \in Slave, NEW id \in Byte, MayHave(s, id)'
        PROVE  id =< slave_id /\ (state = "WAIT" /\ received => id < slave_id)
    <3>1. MayHave(s, id) \/ id = 0
      BY <2>3 DEF Shrinks
    <3> QED BY <2>1, <2>2, <3>1 DEF SearchInv, Below
  <2> QED BY <2>3 DEF Below
<1>2. Unshared'
  BY DEF Shrinks, SearchInv, Unshared
<1>3. state = "VERIFY" => slave_id # 0
  BY DEF Numbered
<1>4. Named'
  BY <1>3 DEF Shrinks, SearchInv, Named
<1>5. Unanswerable'
  <2> SUFFICES ASSUME state \in {"REPEAT", "WAIT"}, slave_id # PA_DISCO_ADDR,
                      NEW s \in Slave, NEW f \in Waiting(s)', f.fn = "read", NotQuery(f)
               PROVE  f.dst # PA_DISCO_ADDR /\ ~MayHave(s, f.dst)'
    BY DEF Unanswerable, NotQuery, IsFullBlock
  <2>1. f \in Waiting(s)
    BY DEF Shrinks
  <2>2. f.dst # PA_DISCO_ADDR /\ ~MayHave(s, f.dst)
    BY <2>1 DEF SearchInv, Unanswerable
  <2> QED BY <2>2 DEF Shrinks
<1>6. rx' = rx => Answered'
  BY <1>3 DEF Shrinks, SearchInv, Answered
<1>7. rx' = rx => HeardNames'
  BY DEF SearchInv, HeardNames
<1> QED BY <1>1, <1>2, <1>4, <1>5, <1>6, <1>7

\* The answers that can arrive during a trusted search: one with a serial
\* number, to a query, or the one answer to the verify read.
LEMMA AnswerKnown ==
    ASSUME Wired, AllReady, SearchInv, Trusted, NEW s \in Slave, SlaveStep(s), Frames(s),
           stx' # << >>
    PROVE  \E r \in ResponseType :
              /\ stx' = <<r>>
              /\ state = "WAIT" /\ slave_id # PA_DISCO_ADDR => r.serialno # ZeroSerial
              /\ state = "VERIFY" /\ slave_id # PA_DISCO_ADDR =>
                    MayHave(s, slave_id) /\ Waiting(s)' = {}
<1>0. BusTypeInv /\ address[s] \in Byte
  BY DEF AllReady, BusTypeInv, SlavesOK
<1>1. CASE Dev!pa_disco_register_map_service(s)
  <2> DEFINE f == Head(srx[s])
             r == [src |-> address[s], serialno |-> ZeroSerial]
  <2>1. srx[s] # << >> /\ srx'[s] = Tail(srx[s]) /\ TakesRequest(s, f)
    BY <1>0, <1>1, RequestHandled
  <2>2. f \in Waiting(s)
    BY <1>0, <2>1, FirstTaken
  <2>3. r \in ResponseType
    BY <1>0, SerialAssumption DEF ResponseType
  <2> DEFINE q == srx[s]
  <2>4. ASSUME f.fn = "read", state = "VERIFY" PROVE Waiting(s)' = {}
    <3>1. q \in Seq(RequestType) /\ q # << >> /\ f = Head(q)
      BY <1>0, <2>1, SlaveTypes
    <3>2. \A i \in 1 .. (Len(q) - 1) : q[i].fn = "write"
      BY <2>4 DEF Frames
    <3> HIDE DEF q, f
    <3>3. Len(q) \in Nat \ {0} /\ Head(q) = q[1] /\ (Len(q) = 1 => Tail(q) = << >>)
      BY <3>1, Tails
    <3>4. Len(q) = 1
      <4>1. q[1].fn # "write"
        BY <2>4, <3>1, <3>3
      <4> DEFINE n == Len(q)
      <4>2. ~(1 \in 1 .. (n - 1)) /\ n \in Nat \ {0}
        BY <3>2, <3>3, <4>1
      <4> HIDE DEF n
      <4>3. n = 1
        BY <4>2
      <4> QED BY <4>3 DEF n
    <3>5. srx'[s] = << >>
      BY <2>1, <3>3, <3>4 DEF q
    <3>6. 1 .. Len(srx'[s]) = {}
      BY <3>5
    <3> QED BY <3>6 DEF Waiting
  <2> HIDE DEF f, q
  <2>5. /\ stx' = <<r>>
        /\ f.fn = "read" /\ NotQuery(f) /\ f.dst \in {address[s], PA_DISCO_ADDR}
    <3>1. f.fn = "write" => IsFullBlock(f)
      BY <2>2 DEF Frames
    <3> QED BY <2>1, <3>1 DEF TakesRequest, ZeroAnswer
  <2>6. ~(state = "WAIT" /\ slave_id # PA_DISCO_ADDR)
    BY <2>2, <2>5 DEF SearchInv, Unanswerable, MayHave
  <2>7. state = "VERIFY" /\ slave_id # PA_DISCO_ADDR => MayHave(s, slave_id)
    <3> SUFFICES ASSUME state = "VERIFY", slave_id # PA_DISCO_ADDR PROVE MayHave(s, slave_id)
      OBVIOUS
    <3>1. f = Assignment \/ f = VerifyRead
      BY <2>2 DEF Frames
    <3>2. f.dst = slave_id
      BY <2>5, <3>1, RequestsKnown DEF Assignment, VerifyRead
    <3> QED BY <2>5, <3>2 DEF MayHave
  <2> QED BY <2>3, <2>4, <2>5, <2>6, <2>7
<1>2. CASE ~Dev!pa_disco_register_map_service(s)
  <2> DEFINE r == [src |-> address[s], serialno |-> map_serialno[s]]
  <2>1. delay[s] = 0 /\ stx' = <<r>>
    BY <1>0, <1>2, SlaveTakes
  <2>2. r \in ResponseType /\ r.serialno # ZeroSerial
    BY <1>0, SlaveAssumption DEF ResponseType, Wired
  <2>3. state = "WAIT"
    BY <2>1 DEF AllReady, Ready, Listening, Attentive, Dev!NoDelay
  <2> QED BY <2>1, <2>2, <2>3
<1> QED BY <1>1, <1>2
LEMMA SearchOthers ==
    ASSUME Wired, AllReady, FaultsOK, Numbered, SearchInv, [BusNext]_busVars, ~MasterStep,
           \A s \in Slave : Frames(s)
    PROVE  SearchInv'
<1> SUFFICES ASSUME Trusted'
             PROVE  Below' /\ Unshared' /\ Named' /\ Answered' /\ Unanswerable' /\ HeardNames'
  BY DEF SearchInv
<1>0. BusTypeInv /\ rx \in Seq(ResponseType) /\ slave_id \in Byte
  BY DEF AllReady, BusTypeInv, TypeInv, TypeOK, DataOK
<1>1. UNCHANGED <<state, slave_id, received, rsp_serialno, verify_sent>>
  BY OthersKeepMaster
<1>2. Trusted
  <2>1. state # "START"
    BY <1>1 DEF Trusted
  <2> QED BY <1>0, <2>1, TrustedKept
<1>3. \A s \in Slave : Shrinks(s)
  BY <1>0, OthersShrink
<1>4. /\ Below' /\ Unshared' /\ Named' /\ Unanswerable'
      /\ rx' = rx => Answered' /\ HeardNames'
  BY <1>0, <1>1, <1>2, <1>3, SearchShrinks
<1>5. ASSUME NEW s \in Slave, SlaveStep(s), rx' # rx PROVE Answered' /\ HeardNames'
  <2>1. rx' = rx \o stx'
    BY <1>5 DEF SlaveStep
  <2>2. stx' # << >>
    BY <1>0, <1>5, <2>1
  <2>3. PICK r \in ResponseType :
           /\ stx' = <<r>>
           /\ state = "WAIT" /\ slave_id # PA_DISCO_ADDR => r.serialno # ZeroSerial
           /\ state = "VERIFY" /\ slave_id # PA_DISCO_ADDR =>
                 MayHave(s, slave_id) /\ Waiting(s)' = {}
    BY <1>2, <1>5, <2>2, AnswerKnown
  <2>4. Answered'
    <3> SUFFICES ASSUME state = "VERIFY", slave_id # PA_DISCO_ADDR,
                        NEW t \in Slave, MayHave(t, slave_id)'
                 PROVE  Waiting(t)' = {}
      BY <1>1 DEF Answered
    <3>1. slave_id # 0
      BY DEF Numbered
    <3>2. MayHave(t, slave_id)
      BY <1>1, <1>3, <3>1 DEF Shrinks
    <3>3. t = s
      BY <1>0, <1>2, <2>3, <3>1, <3>2 DEF SearchInv, Unshared
    <3> QED BY <2>3, <3>3
  <2>5. HeardNames'
    <3>1. \A i \in 1 .. Len(rx') : (i \in 1 .. Len(rx) /\ rx'[i] = rx[i]) \/ rx'[i] = r
      BY <1>0, <2>1, <2>3
    <3>2. state = "WAIT" /\ slave_id # PA_DISCO_ADDR => \A i \in 1 .. Len(rx') : rx'[i].serialno # ZeroSerial
      BY <1>2, <2>3, <3>1 DEF SearchInv, HeardNames
    <3>3. state = "WAIT" => (received => rsp_serialno # ZeroSerial)
      BY <1>2 DEF SearchInv, HeardNames
    <3> QED BY <1>1, <3>2, <3>3 DEF HeardNames
  <2> QED BY <2>4, <2>5
<1>6. rx' = rx \/ \E s \in Slave : SlaveStep(s)
  BY DEF BusNext, BusReset, pa_disco_master_reset, BusTick, Tick, SlaveRestart, busVars, vars, pamVars
<1> QED BY <1>4, <1>5, <1>6

\* Requests that are no assignments give nobody an address.
LEMMA ReadsGiveNothing ==
    ASSUME BusTypeInv, MasterStep, tx' = << >> \/ \E f : tx' = <<f>> /\ f.fn = "read",
           NEW s \in Slave
    PROVE  \A id : MayHave(s, id)' <=> MayHave(s, id)
<1>1. /\ address' = address
      /\ \A f : (f \in Waiting(s)' /\ f.fn = "write") <=> (f \in Waiting(s) /\ f.fn = "write")
  <2>1. CASE tx' = << >>
    BY <2>1, WaitingHeard
  <2>2. ASSUME NEW g, tx' = <<g>>, g.fn = "read"
        PROVE  /\ address' = address
               /\ \A f : (f \in Waiting(s)' /\ f.fn = "write") <=> (f \in Waiting(s) /\ f.fn = "write")
    BY <2>2, WaitingHeard
  <2> QED BY <2>1, <2>2
<1> QED BY <1>1 DEF MayHave, MayTake, Dev!Adopts

\* The slaves an assignment is for may take its address, and nothing else.
LEMMA AssignmentGives ==
    ASSUME BusTypeInv, MasterStep, NEW f, tx' = <<f>>, NEW s \in Slave
    PROVE  \A id : MayHave(s, id)' => MayHave(s, id) \/ (Dev!Adopts(s, f) /\ f.slave_id = id)
<1>1. address' = address /\ Waiting(s)' \subseteq Waiting(s) \cup {f}
  BY WaitingHeard
<1> QED BY <1>1 DEF MayHave, MayTake, Dev!Adopts

\* Where only bus resets wait, a slave has its address or may drop it.
LEMMA ResetsGiveNothing ==
    ASSUME NEW s \in Slave, \A f \in Waiting(s) : f = BusResetFrame
    PROVE  \A id : MayHave(s, id) => id = address[s] \/ id = 0
<1>1. \A f \in Waiting(s) : f.slave_id = 0
  BY RequestsKnown
<1> QED BY <1>1 DEF MayHave, MayTake

\* What the master knows of the addresses when it hears a slave.
LEMMA HeardFresh ==
    ASSUME AllReady, Trusted, SearchInv, Wired, do_state_wait, ~wrapped'
    PROVE  /\ \A s \in Slave, id \in Byte : MayHave(s, id) => id =< HeardId
           /\ Heard => \A s \in Slave, id \in Byte : MayHave(s, id) => id < HeardId
           /\ Heard => HeardSerial # ZeroSerial
           /\ HeardId # PA_DISCO_ADDR => slave_id # PA_DISCO_ADDR
           /\ slave_id \in Byte /\ HeardId \in Byte
<1>1. TypeInv /\ slave_id \in Byte /\ HeardId \in Byte /\ rx \in Seq(ResponseType)
  BY HeardTypes DEF AllReady, BusTypeInv, TypeInv, TypeOK, DataOK
<1>2. state = "WAIT" /\ ~(HeardId < slave_id)
  BY WaitMoves, Zenon
<1>3. CASE Arrived
  <2>1. HeardId = slave_id + 1
    BY <1>1, <1>2, <1>3, IncSlaveId DEF HeardId
  <2>2. slave_id # PA_DISCO_ADDR
    BY <1>1, <2>1, WidthAssumption DEF Byte
  <2>3. 1 \in 1 .. Len(rx) /\ Head(rx) = rx[1]
    BY <1>1, <1>3 DEF Arrived, RecvOK
  <2>4. HeardSerial # ZeroSerial
    BY <1>2, <1>3, <2>2, <2>3 DEF HeardSerial, SearchInv, HeardNames
  <2>5. \A s \in Slave, id \in Byte : MayHave(s, id) => id < HeardId /\ id =< HeardId
    <3>1. \A s \in Slave, id \in Byte : MayHave(s, id) => id =< slave_id
      BY DEF SearchInv, Below
    <3> QED BY <1>1, <2>1, <3>1 DEF Byte
  <2> QED BY <1>1, <2>2, <2>4, <2>5
<1>4. CASE ~Arrived
  <2>1. HeardId = slave_id /\ HeardSerial = rsp_serialno /\ (Heard => received)
    BY <1>4 DEF HeardId, HeardSerial, Heard
  <2>2. Heard => HeardSerial # ZeroSerial
    BY <1>2, <2>1 DEF SearchInv, HeardNames
  <2>3. \A s \in Slave, id \in Byte : MayHave(s, id) => id =< slave_id /\ (received => id < slave_id)
    BY <1>2 DEF SearchInv, Below
  <2> QED BY <1>1, <2>1, <2>2, <2>3
<1> QED BY <1>3, <1>4

LEMMA SearchWait ==
    ASSUME Wired, AllReady, FaultsOK, SearchInv, MasterStep, do_state_wait, Trusted'
    PROVE  Below' /\ Unshared' /\ Named' /\ Answered' /\ Unanswerable' /\ HeardNames'
<1>0. BusTypeInv /\ rx \in Seq(ResponseType)
  BY DEF AllReady, BusTypeInv, TypeInv, TypeOK, DataOK
<1>1. /\ state = "WAIT" /\ slave_id' = HeardId /\ rsp_serialno' = HeardSerial /\ received' = Heard
      /\ ~wrapped'
  BY WaitMoves DEF Trusted
<1>2. Trusted
  <2>1. [BusNext]_busVars /\ state # "START"
    BY <1>1 DEF BusNext
  <2> QED BY <1>0, <2>1, TrustedKept
<1>3. /\ \A s \in Slave, id \in Byte : MayHave(s, id) => id =< HeardId
      /\ Heard => \A s \in Slave, id \in Byte : MayHave(s, id) => id < HeardId
      /\ Heard => HeardSerial # ZeroSerial
      /\ HeardId # PA_DISCO_ADDR => slave_id # PA_DISCO_ADDR
      /\ slave_id \in Byte /\ HeardId \in Byte
  BY <1>1, <1>2, HeardFresh
<1>4. ASSUME tx' = << >>, state' \in {"WAIT", "REPEAT"}
      PROVE  Below' /\ Unshared' /\ Named' /\ Answered' /\ Unanswerable'
  <2>1. \A s \in Slave : Waiting(s)' = Waiting(s) /\ \A id : MayHave(s, id)' <=> MayHave(s, id)
    BY <1>0, <1>4, ReadsGiveNothing, WaitingHeard
  <2>2. Below'
    BY <1>1, <1>3, <2>1 DEF Below
  <2>3. Unshared'
    BY <1>2, <2>1 DEF SearchInv, Unshared
  <2>4. Named' /\ Answered'
    BY <1>4 DEF Named, Answered
  <2>5. Unanswerable'
    BY <1>1, <1>2, <1>3, <2>1 DEF SearchInv, Unanswerable, NotQuery, IsFullBlock
  <2> QED BY <2>2, <2>3, <2>4, <2>5
<1>5. CASE state' = "WAIT" /\ tx' = << >> /\ rx' = LeftInRx
  <2>1. Heard => HeardSerial # ZeroSerial
    BY <1>3
  <2>2. HeardId # PA_DISCO_ADDR => \A i \in 1 .. Len(rx') : rx'[i].serialno # ZeroSerial
    <3>1. HeardId # PA_DISCO_ADDR => \A i \in 1 .. Len(rx) : rx[i].serialno # ZeroSerial
      BY <1>1, <1>2, <1>3 DEF SearchInv, HeardNames
    <3>2. rx' = rx \/ (rx # << >> /\ rx' = Tail(rx))
      BY <1>5 DEF LeftInRx, RecvRest
    <3>3. ASSUME rx # << >>, rx' = Tail(rx), NEW i \in 1 .. Len(rx')
          PROVE  i + 1 \in 1 .. Len(rx) /\ rx'[i] = rx[i + 1]
      BY <1>0, <3>3
    <3> QED BY <3>1, <3>2, <3>3
  <2>3. HeardNames'
    BY <1>1, <2>1, <2>2 DEF HeardNames
  <2> QED BY <1>4, <1>5, <2>3
<1>6. CASE state' = "REPEAT" /\ tx' = << >>
  BY <1>4, <1>6 DEF HeardNames
<1>7. CASE /\ state' = "VERIFY" /\ Heard /\ rx' = << >>
           /\ tx' = <<AssignFrame(PA_DISCO_ADDR, HeardId, HeardSerial)>>
  <2> DEFINE f == AssignFrame(PA_DISCO_ADDR, HeardId, HeardSerial)
  <2>1. f.slave_id = HeardId /\ f.serialno = HeardSerial
    BY RequestsKnown
  <2>2. ASSUME NEW s \in Slave, NEW id, MayHave(s, id)'
        PROVE  MayHave(s, id) \/ (self_serialno[s] = HeardSerial /\ id = HeardId)
    <3> HIDE DEF f
    <3>1. tx' = <<f>>
      BY <1>7 DEF f
    <3>2. MayHave(s, id) \/ (Dev!Adopts(s, f) /\ f.slave_id = id)
      BY <1>0, <2>2, <3>1, AssignmentGives
    <3> QED BY <1>3, <1>7, <2>1, <3>2 DEF Dev!Adopts
  <2> HIDE DEF f
  <2>3. ASSUME NEW s \in Slave, MayHave(s, HeardId) PROVE FALSE
    <3>1. HeardId < HeardId
      BY <1>3, <1>7, <2>3
    <3> QED BY <1>3, <3>1 DEF Byte
  <2>4. Below'
    <3>1. ASSUME NEW s \in Slave, NEW id \in Byte, MayHave(s, id)' PROVE id =< HeardId
      BY <1>3, <2>2, <3>1 DEF Byte
    <3> QED BY <1>1, <1>7, <3>1 DEF Below
  <2>5. Unshared'
    <3> SUFFICES ASSUME NEW s \in Slave, NEW t \in Slave, NEW id \in Byte, s # t,
                        MayHave(s, id)', MayHave(t, id)'
                 PROVE  id = 0
      BY DEF Unshared
    <3>1. CASE id = HeardId
      <4>1. self_serialno[s] = HeardSerial /\ self_serialno[t] = HeardSerial
        BY <2>2, <2>3, <3>1
      <4> QED BY <4>1, SlaveAssumption
    <3>2. CASE id # HeardId
      BY <1>2, <2>2, <3>2 DEF SearchInv, Unshared
    <3> QED BY <3>1, <3>2
  <2>6. Named'
    <3>1. ASSUME NEW s \in Slave, NEW id, id = HeardId, MayHave(s, id)'
          PROVE  self_serialno[s] = HeardSerial
      BY <2>2, <2>3, <3>1
    <3>2. ASSUME NEW s \in Slave, MayHave(s, slave_id)'
          PROVE  self_serialno[s] = rsp_serialno'
      <4>1. \A id : id = slave_id' => MayHave(s, id)'
        BY <3>2 DEF MayHave, MayTake
      <4> QED BY <1>1, <3>1, <4>1
    <3> QED BY <1>1, <1>3, <1>7, <3>2 DEF Named
  <2> QED BY <1>7, <2>4, <2>5, <2>6 DEF Answered, Unanswerable, HeardNames
<1> QED BY <1>5, <1>6, <1>7, WaitMoves

LEMMA SearchVerify ==
    ASSUME Wired, AllReady, FaultsOK, SearchInv, Numbered, VerifyPhase, MasterStep,
           do_state_verify, Trusted', \A s \in Slave : Frames(s)
    PROVE  Below' /\ Unshared' /\ Named' /\ Answered' /\ Unanswerable' /\ HeardNames'
<1>0. BusTypeInv
  BY DEF AllReady
<1>1. UNCHANGED <<slave_id, received, rsp_serialno>> /\ state = "VERIFY"
      /\ state' \in {"VERIFY", "REPEAT"}
  BY VerifyMoves
<1>2. Trusted
  <2>1. [BusNext]_busVars /\ state # "START"
    BY <1>1 DEF BusNext
  <2> QED BY <1>0, <2>1, TrustedKept
<1>3. \A s \in Slave : \A id : MayHave(s, id)' <=> MayHave(s, id)
  <2>1. tx' = << >> \/ tx' = <<VerifyRead>>
    BY VerifyMoves
  <2>2. VerifyRead.fn = "read"
    BY RequestsKnown DEF VerifyRead
  <2> QED BY <1>0, <2>1, <2>2, ReadsGiveNothing
<1>4. Below' /\ Unshared' /\ Named' /\ HeardNames'
  <2>1. Below'
    BY <1>1, <1>2, <1>3 DEF SearchInv, Below
  <2>2. Unshared'
    BY <1>2, <1>3 DEF SearchInv, Unshared
  <2>3. Named'
    <3>1. (\A s \in Slave : MayHave(s, slave_id) => self_serialno[s] = rsp_serialno)'
      BY <1>1, <1>2, <1>3 DEF SearchInv, Named
    <3> QED BY <1>1, <1>2, <3>1 DEF SearchInv, Named
  <2> QED BY <1>1, <2>1, <2>2, <2>3 DEF HeardNames
<1>5. CASE ~verify_sent /\ state' = "VERIFY" /\ rx' = << >>
  BY <1>4, <1>5 DEF Answered, Unanswerable
<1>6. CASE verify_sent /\ state' = "REPEAT" /\ tx' = << >> /\ RecvOK
  <2>1. Unanswerable'
    <3> SUFFICES ASSUME slave_id # PA_DISCO_ADDR, NEW s \in Slave, NEW f \in Waiting(s)',
                        f.fn = "read"
                 PROVE  f.dst # PA_DISCO_ADDR /\ ~MayHave(s, f.dst)'
      BY <1>1 DEF Unanswerable
    <3>1. f \in Waiting(s)
      BY <1>0, <1>6, WaitingHeard
    <3>2. f.dst = slave_id
      BY <1>1, <3>1, RequestsKnown DEF Frames, Assignment, VerifyRead
    <3>3. ~MayHave(s, slave_id)
      <4>1. "read" # "write" /\ rx # << >>
        BY <1>6 DEF RecvOK
      <4> QED BY <1>1, <1>2, <1>6, <3>1, <4>1 DEF SearchInv, Answered
    <3> QED BY <1>3, <3>2, <3>3
  <2> QED BY <1>4, <1>6, <2>1 DEF Answered
<1>7. CASE ~verify_sent' /\ tx' = << >> /\ NobodyWaits
  <2>1. \A s \in Slave : Waiting(s)' = {}
    BY <1>0, <1>7, NothingWaits, WaitingHeard DEF NobodyWaits
  <2> QED BY <1>4, <1>7, <2>1 DEF Answered, Unanswerable
<1>8. CASE verify_sent /\ state' = "VERIFY" /\ tx' = << >> /\ rx' = RecvRest
  <2>1. \A s \in Slave : Waiting(s)' = Waiting(s)
    BY <1>0, <1>8, WaitingHeard
  <2>2. rx' # << >> => rx # << >>
    BY <1>8 DEF RecvRest
  <2>3. Answered'
    BY <1>1, <1>2, <1>3, <1>8, <2>1, <2>2 DEF SearchInv, Answered
  <2> QED BY <1>4, <1>8, <2>3 DEF Unanswerable
<1> QED BY <1>5, <1>6, <1>7, <1>8, VerifyMoves

LEMMA SearchService ==
    ASSUME Wired, AllReady, FaultsOK, Numbered, VerifyPhase, SearchInv, MasterStep,
           \A s \in Slave : Frames(s) /\ ResetHeard(s)
    PROVE  SearchInv'
<1> SUFFICES ASSUME Trusted'
             PROVE  Below' /\ Unshared' /\ Named' /\ Answered' /\ Unanswerable' /\ HeardNames'
  BY DEF SearchInv
<1>0. BusTypeInv /\ TypeInv /\ [BusNext]_busVars /\ slave_id \in Byte
  BY DEF AllReady, BusTypeInv, BusNext, TypeInv, TypeOK, DataOK
<1>1. state # "START" => Trusted
  BY <1>0, TrustedKept
<1>2. CASE do_state_wait
  BY <1>2, SearchWait
<1>3. CASE do_state_verify
  BY <1>3, SearchVerify
<1>4. CASE do_state_repeat
  <2>0. slave_id' = slave_id /\ rsp_serialno' = rsp_serialno /\ state = "REPEAT" /\ Trusted
    BY <1>0, <1>1, <1>4, RepeatMoves
  <2>1. CASE /\ state' = "WAIT" /\ received' = FALSE /\ rx' = << >>
             /\ tx' = <<QueryFrame(PA_DISCO_ADDR, ZeroSerial)>>
    <3> DEFINE f == QueryFrame(PA_DISCO_ADDR, ZeroSerial)
    <3>1. f.fn = "read" /\ ~NotQuery(f)
      BY RequestsKnown
    <3> HIDE DEF f
    <3>2. tx' = <<f>>
      BY <2>1 DEF f
    <3>3. \A s \in Slave : \A id : MayHave(s, id)' <=> MayHave(s, id)
      BY <1>0, <3>1, <3>2, ReadsGiveNothing
    <3>4. \A s \in Slave : Waiting(s)' \subseteq Waiting(s) \cup {f}
      BY <1>0, <3>2, WaitingHeard
    <3>5. Below'
      BY <2>0, <2>1, <3>3 DEF SearchInv, Below
    <3>6. Unshared'
      BY <2>0, <3>3 DEF SearchInv, Unshared
    <3>7. Unanswerable'
      <4> SUFFICES ASSUME slave_id # PA_DISCO_ADDR, NEW s \in Slave, NEW g \in Waiting(s)',
                          g.fn = "read", NotQuery(g)
                   PROVE  g.dst # PA_DISCO_ADDR /\ ~MayHave(s, g.dst)'
        BY <2>0 DEF Unanswerable, NotQuery, IsFullBlock
      <4>1. g \in Waiting(s)
        BY <3>1, <3>4
      <4> QED BY <2>0, <3>3, <4>1 DEF SearchInv, Unanswerable
    <3>8. HeardNames'
      <4>1. \A i \in 1 .. Len(rx') : FALSE
        BY <2>1
      <4> QED BY <2>1, <4>1 DEF HeardNames
    <3> QED BY <2>1, <3>5, <3>6, <3>7, <3>8 DEF Named, Answered
  <2>2. CASE state' = "FINISH" /\ tx' = << >>
    <3>1. \A s \in Slave : \A id : MayHave(s, id)' <=> MayHave(s, id)
      BY <1>0, <2>2, ReadsGiveNothing
    <3>2. Below'
      BY <2>0, <2>2, <3>1 DEF SearchInv, Below
    <3>3. Unshared'
      BY <2>0, <3>1 DEF SearchInv, Unshared
    <3> QED BY <2>2, <3>2, <3>3 DEF Named, Answered, Unanswerable, HeardNames
  <2> QED BY <1>0, <1>4, <2>1, <2>2, RepeatMoves
<1>5. CASE do_state_start
  <2>1. /\ state = "START" /\ state' = "REPEAT" /\ slave_id' = 0 /\ tx' = << >>
    BY <1>5 DEF do_state_start, NoTransmission
  <2>2. ASSUME NEW s \in Slave
        PROVE  /\ \A id : MayHave(s, id)' => id = 0
               /\ \A f \in Waiting(s)' : f.fn # "read"
    <3>1. Cleared
      <4>1. clean' => clean
        BY <1>0, <2>1, FaultsStep
      <4>2. Cleared'
        BY DEF Trusted
      <4> QED BY <4>1, <4>2, Zenon DEF Cleared
    <3>2. address[s] = 0 /\ \A f \in Waiting(s) : f = BusResetFrame
      BY <2>1, <3>1 DEF ResetHeard, Frames, Resetting
    <3>3. \A id : MayHave(s, id) => id = 0
      BY <3>2, ResetsGiveNothing
    <3>4. \A f \in Waiting(s) : f.fn # "read"
      BY <3>2, RequestsKnown
    <3>5. Waiting(s)' = Waiting(s)
      BY <1>0, <2>1, WaitingHeard
    <3> QED BY <1>0, <2>1, <3>3, <3>4, <3>5, ReadsGiveNothing
  <2>3. Below' /\ Unshared' /\ Unanswerable'
    BY <2>1, <2>2 DEF Below, Unshared, Unanswerable
  <2> QED BY <2>1, <2>3 DEF Named, Answered, HeardNames
<1>6. CASE do_state_idle \/ do_state_reset_start \/ do_state_reset_repeat \/ do_state_reset_wait
              \/ do_state_finish
  <2>1. state' \notin {"REPEAT", "WAIT", "VERIFY", "FINISH"}
    BY <1>6 DEF do_state_idle, do_state_reset_start, do_state_reset_repeat, do_state_reset_wait,
                do_state_finish
  <2> QED BY <2>1 DEF Trusted
<1> QED BY <1>2, <1>3, <1>4, <1>5, <1>6 DEF MasterStep, pa_disco_master_service

------------------------------------------------------------------------------
(***************************************************************************)
(* What the list and the requests say about the slaves.                    *)
(***************************************************************************)
\* What a service() call may transmit.
LEMMA Transmits ==
    ASSUME Wired, AllReady, MasterStep
    PROVE  \/ tx' = << >> \/ tx' = <<BusResetFrame>>
           \/ \E f : tx' = <<f>> /\ f.fn = "read"
           \/ /\ do_state_wait /\ Heard
              /\ tx' = <<AssignFrame(PA_DISCO_ADDR, HeardId, HeardSerial)>>
<1>1. TypeInv /\ pa_disco_master_service
  BY DEF AllReady, BusTypeInv, MasterStep
<1>2. CASE do_state_repeat
  BY <1>1, <1>2, RepeatMoves, RequestsKnown
<1>3. CASE do_state_wait
  BY <1>1, <1>3, WaitMoves
<1>4. CASE do_state_verify
  BY <1>1, <1>4, VerifyMoves, RequestsKnown DEF VerifyRead
<1>5. CASE do_state_reset_repeat
  BY <1>1, <1>5, ResetRepeatMoves
<1>6. CASE do_state_idle \/ do_state_start \/ do_state_reset_start \/ do_state_reset_wait
              \/ do_state_finish
  BY <1>1, <1>6, OtherMoves
<1> QED BY <1>1, <1>2, <1>3, <1>4, <1>5, <1>6 DEF pa_disco_master_service

\* Only the start of a search forgets that the counter went round.
LEMMA WrapKept ==
    ASSUME [BusNext]_busVars, state # "START", ~wrapped'
    PROVE  ~wrapped
<1>1. CASE ~MasterStep
  <2>1. wrapped' = wrapped
    BY <1>1, OthersKeepMaster
  <2> QED BY <2>1, Zenon
<1>2. CASE MasterStep
  BY <1>2, Zenon DEF MasterStep, pa_disco_master_service, do_state_idle, do_state_start,
              do_state_repeat, do_state_wait, do_state_verify, do_state_reset_start,
              do_state_reset_repeat, do_state_reset_wait, do_state_finish, idVars
<1> QED BY <1>1, <1>2

\* An assignment names the slave whose answer was heard.
LEMMA NamesStep ==
    ASSUME Wired, AllReady, SearchInv, NamesSlave, [BusNext]_busVars
    PROVE  NamesSlave'
<1> SUFFICES ASSUME ~wrapped', MaxFaults < reset_repeat_cycles
             PROVE  AssignmentNamesSlave'
  BY DEF NamesSlave
<1>1. ASSUME tx' = << >> PROVE AssignmentNamesSlave'
  <2>1. \A i \in 1 .. Len(tx') : FALSE
    BY <1>1
  <2> QED BY <2>1 DEF AssignmentNamesSlave
<1>2. ASSUME NEW f, tx' = <<f>>, f.fn = "read" \/ f.slave_id = 0 \/ f.serialno # ZeroSerial
      PROVE  AssignmentNamesSlave'
  <2>1. \A i \in 1 .. Len(tx') : tx'[i] = f
    BY <1>2
  <2> QED BY <1>2, <2>1 DEF AssignmentNamesSlave
<1>3. CASE ~MasterStep
  <2>1. wrapped' = wrapped /\ (tx' = << >> \/ tx' = tx)
    BY <1>3, OthersKeepMaster
  <2>2. ~wrapped
    BY <2>1, Zenon
  <2> QED BY <1>1, <2>1, <2>2 DEF NamesSlave, AssignmentNamesSlave
<1>4. CASE MasterStep
  <2>1. CASE tx' = <<BusResetFrame>>
    BY <1>2, <2>1, RequestsKnown
  <2>2. CASE /\ do_state_wait /\ Heard
             /\ tx' = <<AssignFrame(PA_DISCO_ADDR, HeardId, HeardSerial)>>
    <3>1. state = "WAIT"
      BY <2>2, WaitMoves
    <3>2. ~wrapped
      BY <3>1, WrapKept
    <3>3. Trusted
      BY <3>1, <3>2 DEF Trusted, Cleared
    <3>4. HeardSerial # ZeroSerial
      BY <2>2, <3>3, HeardFresh
    <3> QED BY <1>2, <2>2, <3>4, RequestsKnown
  <2> QED BY <1>1, <1>2, <1>4, <2>1, <2>2, Transmits
<1> QED BY <1>3, <1>4

\* So no request that waits gives an address to everybody.
LEMMA ZeroStep ==
    ASSUME Wired, AllReady, NamesSlave', [BusNext]_busVars,
           NEW s \in Slave, Frames(s), ZeroMeansReset(s)
    PROVE  ZeroMeansReset(s)'
<1> SUFFICES ASSUME ~wrapped', MaxFaults < reset_repeat_cycles,
                    NEW f \in Waiting(s)', f.fn = "write", f.serialno = ZeroSerial
             PROVE  f.slave_id = 0
  BY DEF ZeroMeansReset
<1>0. BusTypeInv
  BY DEF AllReady
<1>1. CASE f \in Waiting(s)
  <2>1. CASE state = "START"
    BY <1>1, <2>1, RequestsKnown DEF Frames, Resetting
  <2>2. CASE state # "START"
    BY <1>1, <2>2, WrapKept DEF ZeroMeansReset
  <2> QED BY <2>1, <2>2
<1>2. CASE ~MasterStep
  BY <1>0, <1>1, <1>2, OthersShrink DEF Shrinks
<1>3. CASE MasterStep /\ f \notin Waiting(s)
  <2>1. tx' # << >> /\ \A g : tx' = <<g>> => f = g
    BY <1>0, <1>3, WaitingHeard
  <2>2. \E g : tx' = <<g>>
    BY <1>3, <2>1, Transmits
  <2>3. tx' = <<f>>
    BY <2>1, <2>2
  <2>4. 1 \in 1 .. Len(tx') /\ tx'[1] = f
    BY <2>3
  <2> QED BY <2>4 DEF NamesSlave, AssignmentNamesSlave
<1> QED BY <1>1, <1>2, <1>3

\* A record that was true of the slaves stays true while they get no other
\* address than 0 and new ones.
LEMMA OwnKept ==
    ASSUME ListedOwn, ~wrapped, Records' \subseteq Records,
           \A s \in Slave, r \in Records :
               MayHave(s, r.slave_id)' => MayHave(s, r.slave_id) \/ r.slave_id = 0
    PROVE  ListedOwn'
BY DEF ListedOwn

\* The address that a verification confirms is the one of the slave it names.
LEMMA OwnConfirmed ==
    ASSUME Wired, AllReady, ListInv, Numbered, SearchInv, ListedOwn, MasterStep,
           do_state_verify, ~wrapped', update_slave_list, tx' = << >>
    PROVE  ListedOwn'
<1> DEFINE rec == pa_disco_slave_new(slave_id, rsp_serialno)
<1>0. BusTypeInv /\ TypeInv /\ BusNext
  BY DEF AllReady, BusTypeInv, BusNext
<1>1. state = "VERIFY"
  BY VerifyMoves
<1>2. ~wrapped
  BY <1>0, <1>1, WrapKept
<1>3. rec.slave_id = slave_id /\ rec.serialno = rsp_serialno
  BY DEF pa_disco_slave_new
<1>4. Records' \subseteq Records \cup {rec}
  <2>1. CASE Records' = {r \in Records : r.serialno # rec.serialno} \cup {rec}
    BY <2>1
  <2>2. CASE list' = list
    BY <2>2 DEF Records
  <2> QED BY <1>0, <2>1, <2>2, RecordsUpdated
<1> HIDE DEF rec
<1>5. \A s \in Slave : \A id : MayHave(s, id)' <=> MayHave(s, id)
  BY <1>0, ReadsGiveNothing
<1> SUFFICES ASSUME MaxFaults < reset_repeat_cycles, NEW r \in Records'
             PROVE  r.slave_id # 0
                    /\ \A s \in Slave : MayHave(s, r.slave_id)' => self_serialno[s] = r.serialno
  BY DEF ListedOwn
<1>6. CASE r \in Records
  BY <1>2, <1>5, <1>6 DEF ListedOwn
<1>7. CASE r = rec
  <2>1. Trusted
    BY <1>1, <1>2 DEF Trusted, Cleared
  <2>2. \A s \in Slave : MayHave(s, slave_id) => self_serialno[s] = rsp_serialno
    BY <1>1, <2>1 DEF SearchInv, Named
  <2> QED BY <1>1, <1>3, <1>5, <1>7, <2>2 DEF Numbered
<1> QED BY <1>4, <1>6, <1>7

LEMMA OwnService ==
    ASSUME Wired, AllReady, ListInv, Numbered, SearchInv, ListedOwn, MasterStep
    PROVE  ListedOwn'
<1>0. BusTypeInv /\ TypeInv /\ BusNext /\ pa_disco_master_service
  BY DEF AllReady, BusTypeInv, BusNext, MasterStep
<1>1. ASSUME list' = << >> PROVE ListedOwn'
  <2>1. Records' = {}
    BY <1>1 DEF Records
  <2> QED BY <2>1 DEF ListedOwn
<1> SUFFICES ASSUME ~wrapped', MaxFaults < reset_repeat_cycles PROVE ListedOwn'
  BY DEF ListedOwn
<1>2. CASE do_state_start
  <2>1. list' = << >>
    BY <1>2 DEF do_state_start, listVars, ListInv
  <2> QED BY <1>1, <2>1
<1>3. CASE do_state_reset_start
  <2>1. list' = << >>
    BY <1>3 DEF do_state_reset_start, pa_disco_list_clear
  <2> QED BY <1>1, <2>1
<1>4. ASSUME ~do_state_start, ~do_state_reset_start, list' = list PROVE ListedOwn'
  <2>1. ~wrapped
    BY <1>0, <1>4, WrapKept DEF pa_disco_master_service, do_state_idle, do_state_repeat,
          do_state_wait, do_state_verify, do_state_reset_repeat, do_state_reset_wait, do_state_finish
  <2>2. Records' = Records
    BY <1>4 DEF Records
  <2>3. ASSUME tx' = << >> \/ \E f : tx' = <<f>> /\ f.fn = "read" PROVE ListedOwn'
    <3>1. \A s \in Slave : \A id : MayHave(s, id)' <=> MayHave(s, id)
      BY <1>0, <2>3, ReadsGiveNothing
    <3> QED BY <2>1, <2>2, <3>1, OwnKept
  <2>4. CASE tx' = <<BusResetFrame>>
    <3>1. BusResetFrame.slave_id = 0
      BY RequestsKnown
    <3>2. \A s \in Slave : \A id : MayHave(s, id)' => MayHave(s, id) \/ 0 = id
      BY <1>0, <2>4, <3>1, AssignmentGives
    <3> QED BY <2>1, <2>2, <3>2, OwnKept
  <2>5. CASE /\ do_state_wait /\ Heard
             /\ tx' = <<AssignFrame(PA_DISCO_ADDR, HeardId, HeardSerial)>>
    <3> DEFINE f == AssignFrame(PA_DISCO_ADDR, HeardId, HeardSerial)
    <3>1. f.slave_id = HeardId /\ tx' = <<f>>
      BY <2>5, RequestsKnown
    <3>2. \A i \in 1 .. Len(list) : list[i].slave_id < HeardId
      BY <1>0, <2>5, ListWait
    <3>3. \A i \in 1 .. Len(list) : list[i].slave_id \in Byte /\ HeardId \in Byte
      BY <1>0, HeardTypes, ListedAddresses DEF TypeInv, TypeOK, DataOK
    <3>4. \A r \in Records : r.slave_id # HeardId
      <4>1. \A i \in 1 .. Len(list) : list[i].slave_id # HeardId
        BY <3>2, <3>3 DEF Byte
      <4> QED BY <4>1 DEF Records
    <3> HIDE DEF f
    <3>5. \A s \in Slave : \A id : MayHave(s, id)' => MayHave(s, id) \/ HeardId = id
      BY <1>0, <3>1, AssignmentGives
    <3> QED BY <2>1, <2>2, <3>4, <3>5, OwnKept
  <2> QED BY <2>3, <2>4, <2>5, Transmits
<1>5. CASE do_state_verify
  <2>1. CASE update_slave_list /\ tx' = << >>
    BY <1>5, <2>1, OwnConfirmed
  <2>2. CASE list' = list
    BY <1>4, <1>5, <2>2 DEF do_state_start, do_state_reset_start, do_state_verify
  <2> QED BY <1>5, <2>1, <2>2, VerifyMoves
<1>6. CASE do_state_idle \/ do_state_repeat \/ do_state_wait \/ do_state_reset_repeat
              \/ do_state_reset_wait \/ do_state_finish
  <2>1. list' = list
    BY <1>6, Zenon DEF do_state_idle, do_state_repeat, do_state_wait, do_state_reset_repeat,
                 do_state_reset_wait, do_state_finish, listVars
  <2>2. ~do_state_start /\ ~do_state_reset_start
    BY <1>6 DEF do_state_idle, do_state_repeat, do_state_wait, do_state_reset_repeat,
                 do_state_reset_wait, do_state_finish, do_state_start, do_state_reset_start
  <2> QED BY <1>4, <2>1, <2>2
<1> QED BY <1>0, <1>2, <1>3, <1>5, <1>6 DEF pa_disco_master_service

LEMMA OwnOthers ==
    ASSUME AllReady, ListedOwn, [BusNext]_busVars, ~MasterStep
    PROVE  ListedOwn'
<1>1. wrapped' = wrapped /\ list' = list
  BY OthersKeepMaster
<1>2. Records' = Records
  BY <1>1 DEF Records
<1>3. \A s \in Slave : \A id : MayHave(s, id)' => MayHave(s, id) \/ id = 0
  BY OthersShrink DEF Shrinks, AllReady
<1>4. CASE ~wrapped
  BY <1>2, <1>3, <1>4, OwnKept
<1>5. CASE wrapped
  <2>1. wrapped'
    BY <1>1, <1>5, Zenon
  <2> QED BY <2>1 DEF ListedOwn
<1> QED BY <1>4, <1>5

------------------------------------------------------------------------------
(***************************************************************************)
(* The invariant, and what it says of the slaves.                          *)
(***************************************************************************)
LEMMA AddressInit ==
    ASSUME BusInit
    PROVE  AddressInv
<1>1. state = "IDLE" /\ list = << >> /\ tx = << >> /\ verify_sent = FALSE /\ Init
  BY DEF BusInit, Init, pa_disco_list_clear
<1>2. AllReady /\ ListInv
  BY <1>1, AllReadyInit, ListInit
<1>3. Numbered /\ VerifyPhase /\ RoundLeft
  BY <1>1 DEF Numbered, VerifyPhase, RoundLeft
<1>4. FaultsOK
  <2>1. faults = MaxFaults /\ clean = FALSE
    BY Zenon DEF BusInit
  <2>2. faults \in 0 .. MaxFaults
    BY <2>1, SlaveAssumption
  <2> QED BY <2>1, <2>2, Zenon DEF FaultsOK
<1>5. ASSUME NEW s \in Slave PROVE Frames(s) /\ ResetHeard(s) /\ ZeroMeansReset(s)
  <2>1. Waiting(s) = {}
    BY NothingWaits DEF BusInit
  <2> QED BY <1>1, <2>1 DEF Frames, ResetHeard, ZeroMeansReset
<1>6. SearchInv
  BY <1>1 DEF SearchInv, Trusted
<1>7. ListedOwn
  <2>1. Records = {}
    BY <1>1 DEF Records
  <2> QED BY <2>1 DEF ListedOwn
<1>8. NamesSlave
  <2>1. \A i \in 1 .. Len(tx) : FALSE
    BY <1>1
  <2> QED BY <2>1 DEF NamesSlave, AssignmentNamesSlave
<1> QED BY <1>2, <1>3, <1>4, <1>5, <1>6, <1>7, <1>8 DEF AddressInv

LEMMA AddressStep ==
    ASSUME Wired, AddressInv, [BusNext]_busVars
    PROVE  AddressInv'
<1> USE DEF AddressInv
<1>0. BusTypeInv /\ TypeInv /\ ClocksWork
  BY DEF AllReady, BusTypeInv, Wired
<1>1. AllReady'
  BY <1>0, AllReadyStep
<1>2. ListInv' /\ Numbered'
  BY <1>0, BusCycleStep DEF BusCycleInv
<1>3. FaultsOK' /\ RoundLeft'
  BY <1>0, FaultsStep, RoundLeftStep
<1>4. NamesSlave'
  BY NamesStep
<1>5. \A s \in Slave : ZeroMeansReset(s)'
  BY <1>4, ZeroStep
<1>6. CASE MasterStep
  <2>1. VerifyPhase'
    BY <1>0, <1>6, VerifyPhaseService DEF MasterStep
  <2>2. \A s \in Slave : Frames(s)' /\ ResetHeard(s)'
    BY <1>6, FramesService, ResetHeardService
  <2>3. SearchInv' /\ ListedOwn'
    BY <1>6, SearchService, OwnService
  <2> QED BY <1>1, <1>2, <1>3, <1>4, <1>5, <2>1, <2>2, <2>3
<1>7. CASE ~MasterStep
  <2>1. VerifyPhase'
    BY <1>7, OthersKeepVerify
  <2>2. \A s \in Slave : Frames(s)' /\ ResetHeard(s)'
    BY <1>0, <1>7, FramesOthers, ResetHeardOthers
  <2>3. SearchInv' /\ ListedOwn'
    BY <1>7, SearchOthers, OwnOthers
  <2> QED BY <1>1, <1>2, <1>3, <1>4, <1>5, <2>1, <2>2, <2>3
<1> QED BY <1>6, <1>7

LEMMA AddressInvariant ==
    ASSUME Wired
    PROVE  BusSpec => []AddressInv
<1>1. BusInit => AddressInv
  BY AddressInit
<1>2. AddressInv /\ [BusNext]_busVars => AddressInv'
  BY AddressStep
<1> QED BY <1>1, <1>2, PTL DEF BusSpec

\* From the end of the reset phase on no two slaves answer to the same
\* address, however many slaves there are, whatever they remember, whichever
\* frames get lost and whoever restarts, as long as that happens less often
\* than a reset is repeated and the address counter does not go round.
THEOREM AddressesUnique ==
    ASSUME Wired
    PROVE  BusSpec => []OneSlavePerAddress
<1>1. AddressInv => OneSlavePerAddress
  <2> SUFFICES ASSUME AddressInv, AddressesGiven, ~wrapped, MaxFaults < reset_repeat_cycles,
                      NEW s \in Slave, NEW t \in Slave, address[s] = address[t], s # t
               PROVE  address[s] = 0
    BY DEF OneSlavePerAddress
  <2>1. CASE state = "START"
    BY <2>1 DEF AddressInv, ResetHeard, Cleared
  <2>2. CASE state # "START"
    <3>1. Trusted
      BY <2>2 DEF Trusted, Cleared, AddressesGiven
    <3>2. address[s] \in Byte
      BY DEF AddressInv, AllReady, BusTypeInv, SlavesOK
    <3> QED BY <3>1, <3>2 DEF AddressInv, SearchInv, Unshared, MayHave
  <2> QED BY <2>1, <2>2
<1> QED BY <1>1, AddressInvariant, PTL

\* Whoever answers to an address of the list is the slave that the list names
\* for it, under the same conditions.
THEOREM ListNamesSlaves ==
    ASSUME Wired
    PROVE  BusSpec => []ListedAreThemselves
<1>1. AddressInv => ListedAreThemselves
  <2> SUFFICES ASSUME AddressInv, ~wrapped, MaxFaults < reset_repeat_cycles,
                      NEW i \in 1 .. Len(list), NEW s \in Slave, address[s] = list[i].slave_id
               PROVE  self_serialno[s] = list[i].serialno
    BY DEF ListedAreThemselves
  <2>1. list[i] \in Records
    BY DEF Records
  <2> QED BY <2>1 DEF AddressInv, ListedOwn, MayHave
<1> QED BY <1>1, AddressInvariant, PTL

\* Under the same conditions an assignment is never addressed to everybody.
THEOREM AssignmentsNameSlaves ==
    ASSUME Wired, MaxFaults < reset_repeat_cycles
    PROVE  BusSpec => [](~wrapped => AssignmentNamesSlave)
<1>1. AddressInv => (~wrapped => AssignmentNamesSlave)
  BY DEF AddressInv, NamesSlave
<1> QED BY <1>1, AddressInvariant, PTL
==============================================================================
