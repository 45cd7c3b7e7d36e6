------------------------ MODULE DiscoCompleteProofs ------------------------
(***************************************************************************)
(* Proofs that the search comes to the right end: the address counter does *)
(* not go round, so that what DiscoAddressProofs shows holds without that  *)
(* proviso, and a cycle without faults finishes with every slave on the    *)
(* list.                                                                   *)
(*                                                                         *)
(* The counter is bounded by counting: it goes up once for a slave that    *)
(* answers, a slave that answers has no address, and the assignment either *)
(* gives it one or is a fault.  Completeness follows every slave through   *)
(* the search: it has no address, and then each query is on its way to it  *)
(* until its answer is on its way to the master, or it has the address it  *)
(* is listed with, but for the one that is being verified.                 *)
(***************************************************************************)
EXTENDS DiscoAddressProofs

------------------------------------------------------------------------------
(***************************************************************************)
(* The invariant.                                                          *)
(***************************************************************************)
\* The register maps hold the serial numbers that the slaves compare with.
SerialsAgree == map_serialno = self_serialno

\* The slaves that have, or will take, an address.
Taken == {s \in Slave : \E id \in Byte \ {0} : MayHave(s, id)}

Searching == state \in {"REPEAT", "WAIT", "VERIFY", "FINISH"}

\* The faults that may have cost an address: none in a cycle without faults.
Spent == IF clean THEN 0 ELSE MaxFaults - faults

\* There are addresses for the slaves, and one for each fault.
Ample == Cardinality(Slave) + Spent < PA_DISCO_ADDR

\* A slave whose answer is due has no address.
DelayedOpen == \A s \in Slave : delay[s] # Dev!NoDelay => address[s] = 0

\* Each address that was given belongs to a slave or to a fault.
Counted ==
    slave_id =< Cardinality(Taken) + Spent + (IF state = "WAIT" /\ received THEN 1 ELSE 0)

\* Answers that were heard come from slaves without an address.
FromOpen(serial) == \E s \in Slave \ Taken : self_serialno[s] = serial

HeardOpen ==
    state = "WAIT" =>
        /\ received => FromOpen(rsp_serialno)
        /\ \A i \in 1 .. Len(rx) : FromOpen(rx[i].serialno)

\* No bus reset is left for a slave that has an address.
NoLateReset == \A s \in Taken : \A f \in Waiting(s) : f.fn = "write" => f.slave_id # 0

CountInv == Searching /\ Cleared /\ Ample => ~wrapped /\ Counted /\ HeardOpen /\ NoLateReset

\* With fewer faults than reset repetitions, and an address for each, the
\* counter has never gone round.
Unwrapped ==
    MaxFaults < reset_repeat_cycles /\ Cardinality(Slave) + MaxFaults < PA_DISCO_ADDR => ~wrapped

\* A slave that has its address for good, and is listed with it.
Settled(s) ==
    Listed(s) /\ address[s] # 0 /\ \A f \in Waiting(s) : f.fn = "write" => ~Dev!Adopts(s, f)

\* A slave that the query of this round is going to make answer.
QueryDue(s) ==
    \/ srx[s] # << >> /\ srx[s][Len(srx[s])] = QueryFrame(PA_DISCO_ADDR, ZeroSerial)
    \/ delay[s] # Dev!NoDelay

\* The slave that is being verified takes its address, hears the verify read,
\* and answers it.
Verified(s) ==
    \/ /\ ~verify_sent \/ VerifyRead \in Waiting(s)
       /\ address[s] = slave_id \/ Assignment \in Waiting(s)
    \/ verify_sent /\ rx # << >> /\ address[s] = slave_id /\ Waiting(s) = {}

Followed(s) ==
    \/ Settled(s)
    \/ s \notin Taken
    \/ state = "VERIFY" /\ self_serialno[s] = rsp_serialno /\ Verified(s)

\* Whoever has no address answers the query of this round.
QueryAnswered ==
    state = "WAIT" /\ ~received /\ rx = << >> =>
        \A s \in Slave : s \in Taken \/ QueryDue(s)

\* What the receiver holds during a verification is the verify answer.
VerifyAnswers ==
    state = "VERIFY" =>
        /\ \E s \in Slave : self_serialno[s] = rsp_serialno /\ Verified(s)
        /\ verify_sent => \A i \in 1 .. Len(rx) : rx[i].src = slave_id

Complete ==
    /\ \A s \in Slave : Followed(s)
    /\ QueryAnswered /\ VerifyAnswers
    /\ quiet > 0 => \A s \in Slave : Settled(s)

CompleteInv == Searching /\ clean /\ Cleared /\ Ample /\ ~AllocMayFail => Complete

NoWaste == Searching => wasted = 0

\* In the window of a query the master listens to everybody.
Tuned == state = "WAIT" => pam_slave = PA_DISCO_ADDR

------------------------------------------------------------------------------
(***************************************************************************)
(* Delays, faults, and the slaves that have an address.                    *)
(***************************************************************************)
\* A slave holds an answer back only for a query, and only without an address;
\* while it does, it takes no request.
LEMMA DelayStep ==
    ASSUME BusTypeInv, [BusNext]_busVars, DelayedOpen
    PROVE  DelayedOpen'
<1> SUFFICES ASSUME NEW s \in Slave, delay'[s] # Dev!NoDelay
             PROVE  address'[s] = 0
  BY DEF DelayedOpen, Dev!NoDelay
<1>0. address \in [Slave -> Byte] /\ delay \in [Slave -> Int]
  BY DEF BusTypeInv, SlavesOK
<1>1. ASSUME delay'[s] = delay[s], address'[s] = address[s] PROVE address'[s] = 0
  BY <1>1 DEF DelayedOpen
<1>2. CASE MasterStep \/ BusReset \/ UNCHANGED busVars
  BY <1>1, <1>2 DEF MasterStep, BusReset, busVars, deviceVars
<1>3. CASE BusTick
  <2>1. delay'[s] = (IF delay[s] > 0 THEN delay[s] - 1 ELSE delay[s]) /\ address' = address
    BY <1>3, SlaveTick DEF BusTick
  <2>2. delay[s] # Dev!NoDelay
    BY <1>0, <2>1 DEF Dev!NoDelay
  <2> QED BY <2>1, <2>2 DEF DelayedOpen
<1>4. ASSUME NEW t \in Slave \ {s}, SlaveStep(t) \/ SlaveRestart(t) PROVE address'[s] = 0
  BY <1>1, <1>4, OthersKeepAddress
<1>5. CASE SlaveRestart(s)
  BY <1>0, <1>5 DEF SlaveRestart, Dev!Restart
<1>6. CASE SlaveStep(s) /\ Dev!pa_disco_slave_service(s)
  BY <1>1, <1>6 DEF Dev!pa_disco_slave_service
<1>7. CASE SlaveStep(s) /\ Dev!Reply(s)
  <2>1. delay'[s] = Dev!NoDelay
    BY <1>0, <1>7 DEF Dev!Reply
  <2> QED BY <2>1
<1>8. CASE SlaveStep(s) /\ Dev!pa_disco_register_map_service(s)
  <2> DEFINE f == Head(srx[s])
  <2>1. delay[s] = Dev!NoDelay
    BY <1>8 DEF Dev!pa_disco_register_map_service
  <2>2. CASE delay' = delay
    BY <2>1, <2>2
  <2>3. CASE Dev!pa_disco_slave_read_cb(s, f) /\ UNCHANGED address
    <3>1. delay' = delay \/ address[s] = 0
      BY <2>3 DEF Dev!pa_disco_slave_read_cb
    <3> QED BY <2>1, <2>3, <3>1
  <2> QED BY <1>8, <2>2, <2>3 DEF Dev!pa_disco_register_map_service
<1> QED BY <1>2, <1>3, <1>4, <1>5, <1>6, <1>7, <1>8 DEF BusNext, SlaveStep, Dev!Run

LEMMA TakenTypes ==
    /\ IsFiniteSet(Taken) /\ Cardinality(Taken) \in Nat
    /\ Cardinality(Taken) =< Cardinality(Slave) /\ Cardinality(Slave) \in Nat
    /\ \A s \in Slave \ Taken : Cardinality(Taken) < Cardinality(Slave)
<1>1. IsFiniteSet(Slave) /\ Taken \in SUBSET Slave
  BY SlaveAssumption DEF Taken
<1>2. /\ IsFiniteSet(Taken) /\ Cardinality(Taken) =< Cardinality(Slave)
      /\ Cardinality(Slave) = Cardinality(Taken) => Slave = Taken
  BY <1>1, FS_Subset
<1>3. Cardinality(Taken) \in Nat /\ Cardinality(Slave) \in Nat
  BY <1>1, <1>2, FS_CardinalityType
<1>4. ASSUME NEW s \in Slave \ Taken PROVE Cardinality(Taken) # Cardinality(Slave)
  BY <1>2
<1> QED BY <1>2, <1>3, <1>4

\* More slaves with an address, by one at least when one is new.
LEMMA TakenGrows ==
    ASSUME Taken \subseteq Taken'
    PROVE  /\ Cardinality(Taken') \in Nat /\ Cardinality(Taken) =< Cardinality(Taken')
           /\ \A s \in Slave \ Taken : s \in Taken' => Cardinality(Taken) + 1 =< Cardinality(Taken')
<1> DEFINE more == Taken'
<1>1. IsFiniteSet(Slave) /\ more \in SUBSET Slave /\ Taken \in SUBSET Slave
  BY SlaveAssumption DEF Taken
<1> HIDE DEF more
<1>2. IsFiniteSet(more)
  BY <1>1, FS_Subset
<1>3. Cardinality(more) \in Nat
  BY <1>2, FS_CardinalityType
<1>4. Taken \in SUBSET more
  BY DEF more
<1>5. /\ Cardinality(Taken) =< Cardinality(more)
      /\ Cardinality(more) = Cardinality(Taken) => more = Taken
  BY <1>2, <1>4, FS_Subset
<1>6. ASSUME NEW s \in Slave \ Taken, s \in more
      PROVE  Cardinality(Taken) + 1 =< Cardinality(more)
  <2>1. Cardinality(more) # Cardinality(Taken)
    BY <1>5, <1>6
  <2> QED BY <1>3, <1>5, <2>1, TakenTypes
<1>7. \A s \in Slave \ Taken : s \in more => Cardinality(Taken) + 1 =< Cardinality(more)
  BY <1>6
<1> QED BY <1>3, <1>5, <1>7 DEF more

\* A slave that restarts is one less.
LEMMA TakenLess ==
    ASSUME NEW s \in Slave, Taken \ {s} \subseteq Taken'
    PROVE  Cardinality(Taken') \in Nat /\ Cardinality(Taken) =< Cardinality(Taken') + 1
<1> DEFINE more == Taken'
<1>1. IsFiniteSet(Slave) /\ more \in SUBSET Slave
  BY SlaveAssumption DEF Taken
<1>4. Taken \ {s} \in SUBSET more
  BY DEF more
<1> HIDE DEF more
<1>2. IsFiniteSet(more)
  BY <1>1, FS_Subset
<1>3. Cardinality(more) \in Nat
  BY <1>2, FS_CardinalityType
<1>5. Cardinality(Taken \ {s}) =< Cardinality(more)
  BY <1>2, <1>4, FS_Subset
<1>6. Cardinality(Taken \ {s}) = IF s \in Taken THEN Cardinality(Taken) - 1 ELSE Cardinality(Taken)
  BY TakenTypes, FS_RemoveElement
<1>7. Cardinality(Taken) =< Cardinality(more) + 1
  BY <1>3, <1>5, <1>6, TakenTypes
<1> QED BY <1>3, <1>7 DEF more

LEMMA SpentType == FaultsOK => Spent \in 0 .. MaxFaults
BY SlaveAssumption DEF FaultsOK, Spent

\* Every fault is accounted for.
LEMMA SpentFaulty ==
    ASSUME FaultsOK, NEW n \in Nat, Faulty(n), state # "IDLE"
    PROVE  Spent + n =< Spent'
<1>1. /\ faults \in 0 .. MaxFaults /\ MaxFaults \in Nat
      /\ faults' \in 0 .. MaxFaults /\ faults' = faults - n
  BY SlaveAssumption, FaultyTypes DEF FaultsOK
<1>2. clean' => n = 0 /\ clean
  BY FaultyTypes
<1>3. ~clean /\ n = 0 => ~clean'
  BY <1>2
<1> DEFINE left == faults'
<1>4. left \in 0 .. MaxFaults /\ left = faults - n
  BY <1>1
<1>5. CASE clean'
  <2>1. Spent = 0 /\ n = 0
    BY <1>2, <1>5 DEF Spent
  <2>2. Spent' = 0
    BY <1>5 DEF Spent
  <2> QED BY <2>1, <2>2
<1>6. CASE ~clean'
  <2> DEFINE after == Spent'
  <2>1. after = MaxFaults - left
    BY <1>6 DEF Spent
  <2> HIDE DEF left, after
  <2>2. Spent + n =< after
    BY <1>1, <1>4, <2>1 DEF Spent
  <2> QED BY <2>2 DEF after
<1> QED BY <1>5, <1>6

LEMMA SpentStep ==
    ASSUME FaultsOK, BusTypeInv, [BusNext]_busVars, state # "IDLE"
    PROVE  Spent =< Spent' /\ Spent' \in Nat
<1>1. FaultsOK' /\ Spent \in 0 .. MaxFaults /\ MaxFaults \in Nat
  BY FaultsStep, SpentType, SlaveAssumption
<1>2. Spent' \in 0 .. MaxFaults
  <2> DEFINE left == faults'
             after == Spent'
  <2>1. left \in 0 .. MaxFaults
    BY <1>1 DEF FaultsOK
  <2>2. after = 0 \/ after = MaxFaults - left
    BY DEF Spent
  <2> HIDE DEF left, after
  <2>3. after \in 0 .. MaxFaults
    BY <1>1, <2>1, <2>2
  <2> QED BY <2>3 DEF after
<1> DEFINE after == Spent'
<1>3. Spent =< after
  <2>1. ASSUME NEW n \in Nat, Faulty(n) PROVE Spent =< after
    <3>1. Spent + n =< after
      BY <2>1, SpentFaulty
    <3>2. after \in Nat
      BY <1>1, <1>2
    <3> HIDE DEF after
    <3> QED BY <1>1, <3>1, <3>2
  <2>2. CASE UNCHANGED <<faults, clean>>
    <3>1. after = Spent
      BY <2>2 DEF Spent
    <3> QED BY <1>1, <3>1
  <2>3. CASE MasterStep
    BY <2>1, <2>3, DeafTypes DEF MasterStep
  <2>4. ASSUME NEW s \in Slave, SlaveStep(s) PROVE Spent =< after
    <3>1. PICK lost \in 0 .. Len(stx') : Faulty(lost)
      BY <2>4 DEF SlaveStep
    <3>2. lost \in Nat
      OBVIOUS
    <3> QED BY <2>1, <3>1, <3>2
  <2>5. ASSUME NEW s \in Slave, SlaveRestart(s) PROVE Spent =< after
    BY <2>1, <2>5 DEF SlaveRestart
  <2> QED BY <2>2, <2>3, <2>4, <2>5 DEF BusNext, BusReset, BusTick, busVars
<1> QED BY <1>1, <1>2, <1>3

------------------------------------------------------------------------------
(***************************************************************************)
(* Who has an address after a step.                                        *)
(***************************************************************************)
\* What is not taken still waits.
LEMMA RestWaits ==
    ASSUME BusTypeInv, NEW s \in Slave, srx[s] # << >>, srx'[s] = Tail(srx[s])
    PROVE  Waiting(s) \subseteq Waiting(s)' \cup {Head(srx[s])}
<1> DEFINE q == srx[s]
           r == srx'[s]
<1>1. q \in Seq(RequestType) /\ q # << >> /\ r = Tail(q)
  BY SlaveTypes
<1>2. Waiting(s) = {q[i] : i \in 1 .. Len(q)} /\ Waiting(s)' = {r[i] : i \in 1 .. Len(r)}
  BY DEF Waiting
<1> HIDE DEF q, r
<1>3. /\ Len(q) \in Nat \ {0} /\ Len(r) = Len(q) - 1
      /\ Head(q) = q[1]
      /\ \A i \in 1 .. (Len(q) - 1) : r[i] = q[i + 1]
  BY <1>1, Tails
<1>4. ASSUME NEW i \in 1 .. Len(q) PROVE q[i] \in Waiting(s)' \cup {Head(q)}
  <2>1. CASE i = 1
    BY <1>3, <2>1
  <2>2. CASE i # 1
    <3>1. i - 1 \in 1 .. Len(r) /\ r[i - 1] = q[i]
      <4> DEFINE j == i - 1
      <4>1. j \in 1 .. (Len(q) - 1) /\ j + 1 = i
        BY <1>3, <2>2
      <4> HIDE DEF j
      <4>2. j \in 1 .. Len(r) /\ r[j] = q[i]
        BY <1>3, <4>1
      <4> QED BY <4>2 DEF j
    <3> QED BY <1>2, <3>1
  <2> QED BY <2>1, <2>2
<1> QED BY <1>2, <1>4 DEF q

\* A slave that takes no request of its receiver keeps what waits there: its
\* window is flushed only where nothing waits.
LEMMA NothingFlushed ==
    ASSUME AllReady, NEW s \in Slave, SlaveStep(s), ~Dev!pa_disco_register_map_service(s)
    PROVE  srx'[s] = srx[s] /\ address'[s] = address[s]
<1>0. BusTypeInv
  BY DEF AllReady
<1>1. address'[s] = address[s] /\ (srx'[s] = srx[s] \/ srx'[s] = << >>)
  BY <1>0, SlaveTakes
<1>2. CASE Dev!pa_disco_slave_service(s)
  <2>1. disco_window_wait[s]
    BY <1>2 DEF Dev!pa_disco_slave_service
  <2>2. srx[s] = << >>
    BY <2>1 DEF AllReady, Ready, Stage, Idle, Queued, Delaying, Closing, InOwnWindow, Listening,
                Attentive
  <2>3. srx'[s] = << >>
    BY <1>1, <2>2
  <2> QED BY <1>1, <2>2, <2>3
<1>3. CASE Dev!Reply(s)
  BY <1>1, <1>3 DEF Dev!Reply
<1> QED BY <1>2, <1>3 DEF SlaveStep, Dev!Run

LEMMA TakenRun ==
    ASSUME AllReady, NEW s \in Slave, SlaveStep(s), Frames(s), s \in Taken,
           \A f \in Waiting(s) : f.fn = "write" => f.slave_id # 0
    PROVE  s \in Taken'
<1>0. BusTypeInv /\ address[s] \in Byte
  BY DEF AllReady, BusTypeInv, SlavesOK
<1>1. PICK id \in Byte \ {0} : MayHave(s, id)
  BY DEF Taken
<1>2. ASSUME NEW new \in Byte \ {0}, MayHave(s, new)' PROVE s \in Taken'
  BY <1>2 DEF Taken, Byte
<1>3. CASE ~Dev!pa_disco_register_map_service(s)
  <2>1. Waiting(s)' = Waiting(s) /\ address'[s] = address[s]
    BY <1>3, NothingFlushed DEF Waiting
  <2> QED BY <1>1, <1>2, <2>1 DEF MayHave, MayTake, Dev!Adopts
<1>4. CASE Dev!pa_disco_register_map_service(s)
  <2> DEFINE f == Head(srx[s])
  <2>1. /\ srx[s] # << >> /\ srx'[s] = Tail(srx[s]) /\ TakesRequest(s, f)
        /\ f.fn = "write" /\ f.dst = PA_DISCO_ADDR /\ IsFullBlock(f) /\ Dev!Adopts(s, f)
              => address'[s] = f.slave_id
    BY <1>0, <1>4, RequestHandled
  <2>2. f \in Waiting(s) /\ f \in RequestType /\ Waiting(s) \subseteq Waiting(s)' \cup {f}
    BY <1>0, <2>1, FirstTaken, RestWaits
  <2> HIDE DEF f
  <2>3. f.slave_id \in Byte
    BY <2>2 DEF RequestType
  <2>4. CASE f.fn = "write" /\ address'[s] = f.slave_id
    BY <1>2, <2>2, <2>3, <2>4 DEF MayHave
  <2>5. CASE ~(f.fn = "write" /\ address'[s] = f.slave_id)
    <3>1. address'[s] = address[s] /\ ~(f.fn = "write" /\ Dev!Adopts(s, f))
      BY <2>1, <2>2, <2>5 DEF TakesRequest, Frames
    <3>2. MayHave(s, id)'
      BY <1>1, <2>2, <3>1 DEF MayHave, MayTake, Dev!Adopts
    <3> QED BY <1>1, <1>2, <3>2
  <2> QED BY <2>4, <2>5
<1> QED BY <1>3, <1>4

\* A service() call takes nothing away; a read gives nothing either.
LEMMA TakenHeard ==
    ASSUME AllReady, MasterStep
    PROVE  /\ Taken \subseteq Taken'
           /\ tx' = << >> \/ (\E f : tx' = <<f>> /\ f.fn = "read") => Taken' = Taken
<1>0. BusTypeInv
  BY DEF AllReady
<1>2. ASSUME NEW s \in Slave, NEW id, MayHave(s, id) PROVE MayHave(s, id)'
  <2>1. address' = address /\ Waiting(s) \subseteq Waiting(s)'
    <3>1. PICK deaf \in SUBSET Slave :
             srx' = [t \in Slave |-> IF t \in deaf THEN srx[t] ELSE srx[t] \o tx']
      BY DEF MasterStep
    <3>2. srx[s] \in Seq(RequestType) /\ tx' \in Seq(RequestType)
      BY <1>0, SlaveTypes, BusTypeStep DEF BusNext, BusTypeInv, TypeInv, TypeOK, DataOK
    <3>3. srx'[s] = srx[s] \/ srx'[s] = srx[s] \o tx'
      BY <3>1
    <3> QED BY <3>2, <3>3 DEF MasterStep, deviceVars, Waiting
  <2> QED BY <1>2, <2>1 DEF MayHave, MayTake, Dev!Adopts
<1>3. ASSUME tx' = << >> \/ \E f : tx' = <<f>> /\ f.fn = "read"
      PROVE  Taken' = Taken
  <2>1. \A s \in Slave : \A id : MayHave(s, id)' <=> MayHave(s, id)
    BY <1>0, <1>3, ReadsGiveNothing
  <2> QED BY <2>1 DEF Taken, Byte
<1>4. Taken \subseteq Taken'
  BY <1>2 DEF Taken, Byte
<1> QED BY <1>3, <1>4

\* Steps of slaves give no address to anybody, and cost one only by a fault.
LEMMA TakenOthers ==
    ASSUME AllReady, FaultsOK, [BusNext]_busVars, ~MasterStep, state # "IDLE",
           NoLateReset, \A s \in Slave : Frames(s)
    PROVE  /\ Taken' \subseteq Taken /\ Cardinality(Taken') \in Nat
           /\ Cardinality(Taken) + Spent =< Cardinality(Taken') + Spent'
<1>0. BusTypeInv /\ Cardinality(Taken) \in Nat /\ Spent \in Nat
  BY TakenTypes, SpentType, SlaveAssumption DEF AllReady
<1>1. Taken' \subseteq Taken
  <2>1. \A s \in Slave : \A id : MayHave(s, id)' => MayHave(s, id) \/ id = 0
    BY <1>0, OthersShrink DEF Shrinks
  <2> QED BY <2>1 DEF Taken, Byte
<1>2. Spent' \in Nat /\ Spent =< Spent'
  BY <1>0, SpentStep
<1>3. ASSUME Taken \subseteq Taken'
      PROVE  /\ Cardinality(Taken') \in Nat
             /\ Cardinality(Taken) + Spent =< Cardinality(Taken') + Spent'
  <2> DEFINE many == Cardinality(Taken')
             after == Spent'
  <2>1. many \in Nat /\ Cardinality(Taken) =< many
    BY <1>3, TakenGrows
  <2>2. after \in Nat /\ Spent =< after
    BY <1>2
  <2> HIDE DEF many, after
  <2>3. Cardinality(Taken) + Spent =< many + after
    BY <1>0, <2>1, <2>2
  <2> QED BY <2>1, <2>3, Zenon DEF many, after
<1>4. CASE BusReset \/ BusTick \/ UNCHANGED busVars
  <2>1. address' = address /\ srx' = srx
    BY <1>4 DEF BusReset, BusTick, busVars, deviceVars
  <2>2. \A s \in Slave : Waiting(s)' = Waiting(s)
    BY <2>1 DEF Waiting
  <2>3. Taken \subseteq Taken'
    BY <2>1, <2>2 DEF Taken, MayHave, MayTake, Dev!Adopts, Byte
  <2> QED BY <1>1, <1>3, <2>3
<1>5. ASSUME NEW s \in Slave, SlaveStep(s) \/ SlaveRestart(s), NEW t \in Taken, t # s
      PROVE  t \in Taken'
  <2>1. t \in Slave \ {s}
    BY <1>5 DEF Taken
  <2>2. srx'[t] = srx[t] /\ address'[t] = address[t]
    BY <1>0, <1>5, <2>1, OthersKeepAddress
  <2>3. Waiting(t)' = Waiting(t)
    BY <2>2 DEF Waiting
  <2> QED BY <2>2, <2>3 DEF Taken, MayHave, MayTake, Dev!Adopts, Byte
<1>6. ASSUME NEW s \in Slave, SlaveStep(s)
      PROVE  Taken \subseteq Taken'
  <2>1. s \in Taken => s \in Taken'
    BY <1>6, TakenRun DEF NoLateReset
  <2> QED BY <1>5, <1>6, <2>1
<1>7. ASSUME NEW s \in Slave, SlaveRestart(s)
      PROVE  /\ Cardinality(Taken') \in Nat
             /\ Cardinality(Taken) + Spent =< Cardinality(Taken') + Spent'
  <2> DEFINE many == Cardinality(Taken')
             after == Spent'
  <2>1. Taken \ {s} \subseteq Taken'
    BY <1>5, <1>7
  <2>2. many \in Nat /\ Cardinality(Taken) =< many + 1
    BY <2>1, TakenLess
  <2>3. after \in Nat /\ Spent + 1 =< after
    BY <1>2, <1>7, SpentFaulty DEF SlaveRestart
  <2> HIDE DEF many, after
  <2>4. Cardinality(Taken) + Spent =< many + after
    BY <1>0, <2>2, <2>3
  <2> QED BY <2>2, <2>4, Zenon DEF many, after
<1> QED BY <1>1, <1>3, <1>4, <1>6, <1>7 DEF BusNext

------------------------------------------------------------------------------
(***************************************************************************)
(* The address counter does not go round.                                  *)
(***************************************************************************)
\* A search without faults that matter was one from its beginning.
LEMMA GuardKept ==
    ASSUME FaultsOK, BusTypeInv, [BusNext]_busVars, state # "START", Searching', Cleared', Ample'
    PROVE  Searching /\ Cleared /\ Ample
<1>1. Searching
  <2>1. CASE ~MasterStep
    <3>1. state' = state
      BY <2>1, OthersKeepMaster
    <3> QED BY <3>1 DEF Searching
  <2>2. CASE MasterStep
    <3>1. state' \in {"REPEAT", "WAIT", "VERIFY", "FINISH"}
             => state \in {"REPEAT", "WAIT", "VERIFY", "FINISH"}
      BY <2>2 DEF MasterStep, pa_disco_master_service, do_state_idle, do_state_start,
                  do_state_repeat, do_state_wait, do_state_verify, do_state_reset_start,
                  do_state_reset_repeat, do_state_reset_wait, do_state_finish
    <3>2. state' \in {"REPEAT", "WAIT", "VERIFY", "FINISH"}
      BY DEF Searching
    <3> QED BY <3>1, <3>2 DEF Searching
  <2> QED BY <2>1, <2>2
<1>2. state # "IDLE"
  BY <1>1 DEF Searching
<1>3. Cleared
  <2>1. clean' => clean
    BY <1>2, FaultsStep
  <2>2. Cleared' => Cleared
    BY <2>1, Zenon DEF Cleared
  <2> QED BY <2>2
<1>4. Ample
  <2> DEFINE after == Spent'
  <2>1. Spent =< after /\ after \in Nat
    BY <1>2, SpentStep
  <2>2. Cardinality(Slave) + after < PA_DISCO_ADDR
    BY DEF Ample
  <2> HIDE DEF after
  <2>3. Cardinality(Slave) \in Nat /\ PA_DISCO_ADDR \in Int /\ Spent \in Nat
    BY TakenTypes, SpentType, SlaveAssumption, WidthAssumption
  <2>4. Cardinality(Slave) + Spent < PA_DISCO_ADDR
    BY <2>1, <2>2, <2>3
  <2> QED BY <2>4 DEF Ample
<1> QED BY <1>1, <1>3, <1>4

\* The counter stays below the discovery address.
LEMMA CounterLow ==
    ASSUME FaultsOK, BusTypeInv, Searching, Cleared, Ample, CountInv
    PROVE  /\ slave_id < PA_DISCO_ADDR
           /\ ~(state = "WAIT" /\ received) => slave_id =< Cardinality(Taken) + Spent
<1>1. /\ Cardinality(Taken) \in Nat /\ Cardinality(Taken) =< Cardinality(Slave)
      /\ \A s \in Slave \ Taken : Cardinality(Taken) < Cardinality(Slave)
      /\ Cardinality(Slave) \in Nat /\ PA_DISCO_ADDR \in Int /\ Spent \in Nat
      /\ slave_id \in Nat
  <2>1. slave_id \in Nat
    BY WidthAssumption DEF BusTypeInv, TypeInv, TypeOK, DataOK, Byte
  <2> QED BY <2>1, TakenTypes, SpentType, SlaveAssumption, WidthAssumption
<1>2. Cardinality(Slave) + Spent < PA_DISCO_ADDR
  BY DEF Ample
<1>3. CASE state = "WAIT" /\ received
  <2>1. Cardinality(Taken) < Cardinality(Slave)
    BY <1>1, <1>3 DEF CountInv, HeardOpen, FromOpen
  <2>2. slave_id =< Cardinality(Taken) + Spent + 1
    BY <1>3 DEF CountInv, Counted
  <2>3. slave_id < PA_DISCO_ADDR
    BY <1>1, <1>2, <2>1, <2>2
  <2> QED BY <1>3, <2>3
<1>4. CASE ~(state = "WAIT" /\ received)
  <2>1. slave_id =< Cardinality(Taken) + Spent + 0
    BY <1>4 DEF CountInv, Counted
  <2>2. slave_id =< Cardinality(Taken) + Spent
    BY <1>1, <2>1
  <2>3. slave_id < PA_DISCO_ADDR
    BY <1>1, <1>2, <2>2
  <2> QED BY <2>2, <2>3
<1> QED BY <1>3, <1>4

\* A response from a slave without an address makes the counter go up by one.
LEMMA HeardCounts ==
    ASSUME FaultsOK, BusTypeInv, Searching, Cleared, Ample, CountInv, state = "WAIT"
    PROVE  /\ HeardId \in Byte /\ slave_id =< HeardId
           /\ HeardId =< Cardinality(Taken) + Spent + (IF Heard THEN 1 ELSE 0)
           /\ Arrived => HeardId = slave_id + 1
           /\ Heard => FromOpen(HeardSerial)
           /\ \A i \in 1 .. Len(LeftInRx) : FromOpen(LeftInRx[i].serialno)
<1>0. /\ slave_id \in Byte /\ HeardId \in Byte /\ rx \in Seq(ResponseType) /\ received \in BOOLEAN
      /\ TypeInv /\ slave_id \in Nat
      /\ Cardinality(Taken) \in Nat /\ Spent \in Nat /\ PA_DISCO_ADDR = IdModulus - 1
      /\ IdModulus \in Nat
  <2>1. TypeInv /\ slave_id \in Byte /\ rx \in Seq(ResponseType)
    BY DEF BusTypeInv, TypeInv, TypeOK, DataOK
  <2>2. received \in BOOLEAN
    BY DEF BusTypeInv, TypeInv, TypeOK, FlagsOK
  <2> QED BY <2>1, <2>2, HeardTypes, TakenTypes, SpentType, SlaveAssumption, WidthAssumption DEF Byte
<1>1. HeardOpen /\ Counted
  BY DEF CountInv
<1>2. CASE Arrived
  <2>1. ~received /\ rx # << >> /\ Heard
    BY <1>2 DEF Arrived, RecvOK, Heard
  <2>2. slave_id < PA_DISCO_ADDR /\ slave_id =< Cardinality(Taken) + Spent
    BY <2>1, CounterLow
  <2>3. (slave_id + 1) % IdModulus # 0
    <3> DEFINE x == slave_id + 1
    <3>1. x \in 1 .. (IdModulus - 1)
      BY <1>0, <2>2
    <3> HIDE DEF x
    <3>2. x % IdModulus = x
      BY <1>0, <3>1
    <3>3. x % IdModulus # 0
      BY <3>1, <3>2
    <3> QED BY <3>3 DEF x
  <2>4. HeardId = slave_id + 1
    BY <1>2, <2>3 DEF HeardId, inc_slave_id
  <2>5. HeardId =< Cardinality(Taken) + Spent + 1 /\ slave_id =< HeardId
    BY <1>0, <2>2, <2>4
  <2>6. 1 \in 1 .. Len(rx) /\ Head(rx) = rx[1]
    BY <1>0, <2>1
  <2>7. FromOpen(HeardSerial)
    <3>1. FromOpen(rx[1].serialno)
      BY <1>1, <2>6 DEF HeardOpen
    <3> QED BY <1>2, <2>6, <3>1 DEF HeardSerial
  <2>8. \A i \in 1 .. Len(LeftInRx) : FromOpen(LeftInRx[i].serialno)
    <3>1. LeftInRx = Tail(rx)
      BY <2>1 DEF LeftInRx, RecvRest
    <3>2. ASSUME NEW i \in 1 .. Len(Tail(rx))
          PROVE  i + 1 \in 1 .. Len(rx) /\ Tail(rx)[i] = rx[i + 1]
      BY <1>0, <2>1
    <3>3. ASSUME NEW i \in 1 .. Len(Tail(rx)) PROVE FromOpen(Tail(rx)[i].serialno)
      BY <1>1, <3>2 DEF HeardOpen
    <3> QED BY <3>1, <3>3
  <2> QED BY <1>0, <2>1, <2>4, <2>5, <2>7, <2>8
<1>3. CASE ~Arrived
  <2>1. HeardId = slave_id /\ HeardSerial = rsp_serialno /\ (Heard <=> received)
    BY <1>3 DEF HeardId, HeardSerial, Heard
  <2>2. HeardId =< Cardinality(Taken) + Spent + (IF Heard THEN 1 ELSE 0)
    <3>1. CASE received
      BY <1>0, <1>1, <2>1, <3>1 DEF Counted
    <3>2. CASE ~received
      BY <1>0, <1>1, <2>1, <3>2 DEF Counted
    <3> QED BY <3>1, <3>2
  <2>3. Heard => FromOpen(HeardSerial)
    BY <1>1, <2>1 DEF HeardOpen
  <2>4. \A i \in 1 .. Len(LeftInRx) : FromOpen(LeftInRx[i].serialno)
    <3>1. LeftInRx = rx \/ (rx # << >> /\ LeftInRx = Tail(rx))
      BY DEF LeftInRx, RecvRest
    <3>2. ASSUME rx # << >>, NEW i \in 1 .. Len(Tail(rx))
          PROVE  i + 1 \in 1 .. Len(rx) /\ Tail(rx)[i] = rx[i + 1]
      BY <1>0, <3>2
    <3>3. ASSUME rx # << >>, NEW i \in 1 .. Len(Tail(rx)) PROVE FromOpen(Tail(rx)[i].serialno)
      BY <1>1, <3>2, <3>3 DEF HeardOpen
    <3> QED BY <1>1, <3>1, <3>3 DEF HeardOpen
  <2> QED BY <1>0, <1>3, <2>1, <2>2, <2>3, <2>4
<1> QED BY <1>2, <1>3

\* What is answered in the window of a query comes from a slave without an
\* address, and names it.
LEMMA AnswerOpen ==
    ASSUME Wired, SerialsAgree, AddressInv, DelayedOpen, Trusted, state = "WAIT",
           slave_id # PA_DISCO_ADDR, NEW s \in Slave, SlaveStep(s), stx' # << >>
    PROVE  \E r : stx' = <<r>> /\ FromOpen(r.serialno)
<1>0. AllReady /\ BusTypeInv /\ SearchInv /\ Frames(s)
  BY DEF AddressInv, AllReady
<1>1. PICK r \in ResponseType : stx' = <<r>> /\ r.serialno # ZeroSerial
  BY <1>0, AnswerKnown
<1>2. ~Dev!pa_disco_register_map_service(s)
  <2> SUFFICES ASSUME Dev!pa_disco_register_map_service(s) PROVE FALSE
    OBVIOUS
  <2>1. ZeroAnswer(s)
    BY <1>0, RequestHandled DEF TakesRequest
  <2> QED BY <1>1, <2>1 DEF ZeroAnswer
<1>3. delay[s] = 0 /\ stx' = <<[src |-> address[s], serialno |-> map_serialno[s]]>>
  BY <1>0, <1>2, SlaveTakes
<1>4. address[s] = 0
  BY <1>3 DEF DelayedOpen, Dev!NoDelay
<1>5. srx[s] = << >>
  BY <1>0, <1>3 DEF AllReady, Ready, Stage, Idle, Queued, Delaying, Closing, InOwnWindow,
                    Attentive, Dev!NoDelay
<1>6. s \notin Taken
  BY <1>4, <1>5, NothingWaits DEF Taken, MayHave, MayTake
<1> QED BY <1>3, <1>6 DEF FromOpen, SerialsAgree

LEMMA CountOthers ==
    ASSUME Wired, SerialsAgree, AddressInv, DelayedOpen, CountInv, [BusNext]_busVars, ~MasterStep
    PROVE  CountInv'
<1> SUFFICES ASSUME Searching', Cleared', Ample'
             PROVE  ~wrapped' /\ Counted' /\ HeardOpen' /\ NoLateReset'
  BY DEF CountInv
<1>0. /\ AllReady /\ BusTypeInv /\ FaultsOK /\ rx \in Seq(ResponseType) /\ slave_id \in Nat
      /\ \A s \in Slave : Frames(s)
  BY WidthAssumption DEF AddressInv, AllReady, BusTypeInv, TypeInv, TypeOK, DataOK, Byte
<1>1. UNCHANGED <<state, slave_id, wrapped, received, rsp_serialno>>
  BY OthersKeepMaster
<1>2. Searching /\ Cleared /\ Ample
  <2>1. state # "START"
    BY <1>1 DEF Searching
  <2> QED BY <1>0, <2>1, GuardKept
<1>3. ~wrapped /\ Counted /\ HeardOpen /\ NoLateReset /\ state # "IDLE" /\ Trusted
  BY <1>2 DEF CountInv, Searching, Trusted
<1>4. /\ Taken' \subseteq Taken /\ Cardinality(Taken') \in Nat
      /\ Cardinality(Taken) + Spent =< Cardinality(Taken') + Spent'
  BY <1>0, <1>3, TakenOthers
<1>5. Counted'
  <2> DEFINE many == Cardinality(Taken')
             after == Spent'
             one == IF state = "WAIT" /\ received THEN 1 ELSE 0
  <2>1. slave_id =< Cardinality(Taken) + Spent + one
    BY <1>3 DEF Counted
  <2>2. many \in Nat /\ after \in Nat /\ Cardinality(Taken) + Spent =< many + after
    BY <1>0, <1>3, <1>4, SpentStep
  <2>3. Cardinality(Taken) \in Nat /\ Spent \in Nat /\ one \in Nat
    BY <1>0, TakenTypes, SpentType, SlaveAssumption
  <2> HIDE DEF many, after, one
  <2>4. slave_id =< many + after + one
    BY <1>0, <2>1, <2>2, <2>3
  <2>5. slave_id =< many + after + (IF state = "WAIT" /\ received THEN 1 ELSE 0)
    BY <2>4 DEF one
  <2> QED BY <1>1, <2>5 DEF Counted, many, after
<1>6. \A serial : FromOpen(serial) => FromOpen(serial)'
  BY <1>4 DEF FromOpen
<1>7. HeardOpen'
  <2>1. CASE state # "WAIT"
    BY <1>1, <2>1 DEF HeardOpen
  <2>2. CASE state = "WAIT"
    <3>1. received => FromOpen(rsp_serialno)'
      BY <1>1, <1>3, <1>6, <2>2 DEF HeardOpen, FromOpen
    <3>2. ASSUME NEW i \in 1 .. Len(rx), NEW serial, serial = rx[i].serialno
          PROVE  FromOpen(serial)'
      BY <1>3, <1>6, <2>2, <3>2 DEF HeardOpen
    <3>3. CASE rx' = rx
      <4>1. ASSUME NEW i \in 1 .. Len(rx') PROVE FromOpen(rx[i].serialno)'
        <5>1. i \in 1 .. Len(rx) /\ rx'[i] = rx[i]
          BY <3>3
        <5>2. FromOpen(rx[i].serialno)
          BY <1>3, <2>2, <5>1 DEF HeardOpen
        <5> QED BY <1>4, <3>3, <5>2 DEF FromOpen
      <4> QED BY <1>1, <3>1, <4>1 DEF HeardOpen, FromOpen
    <3>4. CASE rx' # rx
      <4>1. PICK s \in Slave : SlaveStep(s)
        BY <3>4 DEF BusNext, BusReset, pa_disco_master_reset, BusTick, Tick, SlaveRestart, busVars,
                    vars, pamVars
      <4>2. rx' = rx \o stx'
        BY <3>4, <4>1 DEF SlaveStep
      <4>3. stx' # << >>
        BY <1>0, <3>4, <4>2
      <4>4. slave_id # PA_DISCO_ADDR
        BY <1>0, <1>2, CounterLow
      <4>5. PICK r : stx' = <<r>> /\ FromOpen(r.serialno)
        BY <1>3, <2>2, <4>1, <4>3, <4>4, AnswerOpen
      <4>6. \A i \in 1 .. Len(rx') : (i \in 1 .. Len(rx) /\ rx'[i] = rx[i]) \/ rx'[i] = r
        BY <1>0, <4>2, <4>5
      <4>7. ASSUME NEW i \in 1 .. Len(rx') PROVE FromOpen(rx[i].serialno)'
        <5>1. \/ i \in 1 .. Len(rx) /\ rx'[i].serialno = rx[i].serialno
              \/ rx'[i].serialno = r.serialno
          BY <4>6
        <5>2. \E t \in Slave \ Taken : self_serialno[t] = rx'[i].serialno
          BY <1>3, <2>2, <4>5, <5>1 DEF HeardOpen, FromOpen
        <5> QED BY <1>4, <5>2 DEF FromOpen
      <4> QED BY <1>1, <3>1, <4>7 DEF HeardOpen, FromOpen
    <3> QED BY <3>3, <3>4
  <2> QED BY <2>1, <2>2
<1>8. NoLateReset'
  <2>1. \A s \in Slave : Waiting(s)' \subseteq Waiting(s)
    BY <1>0, OthersShrink DEF Shrinks
  <2>2. \A s \in Taken' : s \in Taken /\ s \in Slave
    BY <1>4 DEF Taken
  <2> QED BY <1>3, <2>1, <2>2 DEF NoLateReset
<1> QED BY <1>1, <1>3, <1>5, <1>7, <1>8

\* A request that gives no address leaves the slaves with those they had.
LEMMA ReadKeeps ==
    ASSUME AllReady, MasterStep, NoLateReset, tx' = << >> \/ \E f : tx' = <<f>> /\ f.fn = "read"
    PROVE  Taken' = Taken /\ NoLateReset'
<1>0. BusTypeInv
  BY DEF AllReady
<1>1. Taken' = Taken
  BY TakenHeard
<1>2. ASSUME NEW s \in Taken, NEW g \in Waiting(s)', g.fn = "write" PROVE g.slave_id # 0
  <2>1. s \in Slave
    BY DEF Taken
  <2>2. CASE tx' = << >>
    BY <1>0, <1>2, <2>1, <2>2, WaitingHeard DEF NoLateReset
  <2>3. ASSUME NEW f, tx' = <<f>>, f.fn = "read" PROVE g.slave_id # 0
    <3>1. Waiting(s)' \subseteq Waiting(s) \cup {f}
      BY <1>0, <2>1, <2>3, WaitingHeard
    <3> QED BY <1>2, <2>3, <3>1 DEF NoLateReset
  <2> QED BY <2>2, <2>3
<1> QED BY <1>1, <1>2 DEF NoLateReset

LEMMA CountQuiet ==
    ASSUME AllReady, FaultsOK, MasterStep, state # "IDLE", NoLateReset,
           tx' = << >> \/ \E f : tx' = <<f>> /\ f.fn = "read",
           slave_id' \in Nat,
           slave_id' =< Cardinality(Taken) + Spent + (IF state' = "WAIT" /\ received' THEN 1 ELSE 0)
    PROVE  Counted' /\ NoLateReset' /\ Taken' = Taken
<1>0. BusTypeInv /\ [BusNext]_busVars
  BY DEF AllReady, BusNext
<1>1. Taken' = Taken /\ NoLateReset'
  BY ReadKeeps
<1>2. Cardinality(Taken') = Cardinality(Taken)
  BY <1>1
<1> DEFINE id == slave_id'
           after == Spent'
           one == IF state' = "WAIT" /\ received' THEN 1 ELSE 0
<1>3. id \in Nat /\ after \in Nat /\ Spent =< after /\ id =< Cardinality(Taken) + Spent + one
  BY <1>0, SpentStep
<1>4. Cardinality(Taken) \in Nat /\ Spent \in Nat /\ one \in Nat
  BY TakenTypes, SpentType, SlaveAssumption
<1> HIDE DEF id, after, one
<1>5. id =< Cardinality(Taken) + after + one
  BY <1>3, <1>4
<1>6. id =< Cardinality(Taken') + after + one
  BY <1>2, <1>5
<1> QED BY <1>1, <1>6 DEF Counted, id, after, one

\* The search begins when nobody has an address, nor is going to take one.
LEMMA NoneTaken ==
    ASSUME AddressInv, MasterStep, do_state_start, Cleared'
    PROVE  Taken' = {}
<1>0. BusTypeInv /\ FaultsOK /\ [BusNext]_busVars
  BY DEF AddressInv, AllReady, BusNext
<1>1. state = "START" /\ state' = "REPEAT" /\ tx' = << >>
  BY DEF do_state_start, NoTransmission
<1>2. Cleared
  <2>1. clean' => clean
    BY <1>0, <1>1, FaultsStep
  <2> QED BY <2>1, Zenon DEF Cleared
<1>3. ASSUME NEW s \in Slave, NEW id, MayHave(s, id) PROVE id = 0
  <2>1. address[s] = 0 /\ \A f \in Waiting(s) : f = BusResetFrame
    BY <1>1, <1>2 DEF AddressInv, ResetHeard, Frames, Resetting
  <2> QED BY <1>3, <2>1, ResetsGiveNothing
<1>4. ASSUME NEW s \in Slave, NEW id, MayHave(s, id)' PROVE id = 0
  BY <1>0, <1>1, <1>3, <1>4, ReadsGiveNothing
<1> QED BY <1>4 DEF Taken, Byte

LEMMA CountStart ==
    ASSUME AddressInv, MasterStep, do_state_start, Cleared'
    PROVE  ~wrapped' /\ Counted' /\ HeardOpen' /\ NoLateReset'
<1>0. BusTypeInv /\ FaultsOK /\ [BusNext]_busVars
  BY DEF AddressInv, AllReady, BusNext
<1>1. state = "START" /\ state' = "REPEAT" /\ slave_id' = 0 /\ wrapped' = FALSE
  BY DEF do_state_start
<1>2. Taken' = {}
  BY NoneTaken
<1>3. Counted'
  <2> DEFINE after == Spent'
  <2>1. Cardinality(Taken') = 0
    BY <1>2, FS_EmptySet
  <2>2. after \in Nat
    BY <1>0, <1>1, SpentStep
  <2> HIDE DEF after
  <2>3. 0 =< 0 + after + 0
    BY <2>2
  <2> QED BY <1>1, <2>1, <2>3 DEF Counted, after
<1> QED BY <1>1, <1>2, <1>3 DEF HeardOpen, NoLateReset

LEMMA CountRepeat ==
    ASSUME Wired, AddressInv, MasterStep, do_state_repeat, ~wrapped, Counted, NoLateReset
    PROVE  ~wrapped' /\ Counted' /\ HeardOpen' /\ NoLateReset'
<1>0. AllReady /\ BusTypeInv /\ TypeInv /\ FaultsOK /\ slave_id \in Nat
  BY WidthAssumption DEF AddressInv, AllReady, BusTypeInv, TypeInv, TypeOK, DataOK, Byte
<1>1. /\ slave_id' = slave_id /\ wrapped' = wrapped /\ state = "REPEAT"
      /\ \/ state' = "WAIT" /\ received' = FALSE /\ rx' = << >>
         \/ state' = "FINISH"
      /\ tx' = << >> \/ tx' = <<QueryFrame(PA_DISCO_ADDR, ZeroSerial)>>
  BY <1>0, RepeatMoves
<1>2. tx' = << >> \/ \E f : tx' = <<f>> /\ f.fn = "read"
  BY <1>1, RequestsKnown
<1>3. slave_id' =< Cardinality(Taken) + Spent + (IF state' = "WAIT" /\ received' THEN 1 ELSE 0)
  <2>1. ~(state = "WAIT" /\ received) /\ ~(state' = "WAIT" /\ received')
    BY <1>1
  <2>2. slave_id' =< Cardinality(Taken) + Spent + 0
    BY <1>1, <2>1 DEF Counted
  <2> QED BY <2>1, <2>2
<1>4. Counted' /\ NoLateReset'
  BY <1>0, <1>1, <1>2, <1>3, CountQuiet
<1>5. HeardOpen'
  <2>1. state' = "WAIT" => 1 .. Len(rx') = {} /\ ~received'
    BY <1>1
  <2> QED BY <2>1 DEF HeardOpen
<1> QED BY <1>1, <1>4, <1>5

LEMMA CountVerify ==
    ASSUME Wired, AddressInv, MasterStep, do_state_verify, ~wrapped, Counted, NoLateReset
    PROVE  ~wrapped' /\ Counted' /\ HeardOpen' /\ NoLateReset'
<1>0. AllReady /\ BusTypeInv /\ TypeInv /\ FaultsOK /\ slave_id \in Nat
  BY WidthAssumption DEF AddressInv, AllReady, BusTypeInv, TypeInv, TypeOK, DataOK, Byte
<1>1. /\ slave_id' = slave_id /\ wrapped' = wrapped /\ state = "VERIFY"
      /\ state' \in {"VERIFY", "REPEAT"}
      /\ tx' = << >> \/ tx' = <<VerifyRead>>
  BY <1>0, VerifyMoves
<1>2. tx' = << >> \/ \E f : tx' = <<f>> /\ f.fn = "read"
  BY <1>1, RequestsKnown DEF VerifyRead
<1>3. slave_id' =< Cardinality(Taken) + Spent + (IF state' = "WAIT" /\ received' THEN 1 ELSE 0)
  <2>1. ~(state = "WAIT" /\ received) /\ ~(state' = "WAIT" /\ received')
    BY <1>1
  <2>2. slave_id' =< Cardinality(Taken) + Spent + 0
    BY <1>1, <2>1 DEF Counted
  <2> QED BY <2>1, <2>2
<1>4. Counted' /\ NoLateReset'
  BY <1>0, <1>1, <1>2, <1>3, CountQuiet
<1> QED BY <1>1, <1>4 DEF HeardOpen

\* A fault leaves room for one more address.
LEMMA DeafSpends ==
    ASSUME FaultsOK, BusTypeInv, MasterStep, state # "IDLE", NEW f, tx' = <<f>>,
           NEW s \in Slave, srx'[s] = srx[s]
    PROVE  Spent' \in Nat /\ Spent + 1 =< Spent'
<1> DEFINE left == faults'
           after == Spent'
<1>1. faults' =< faults - 1 /\ ~clean' /\ FaultsOK'
  BY DeafCounts, FaultsStep DEF BusNext
<1>2. left =< faults - 1 /\ left \in 0 .. MaxFaults /\ faults \in 0 .. MaxFaults /\ MaxFaults \in Nat
  BY <1>1, SlaveAssumption DEF FaultsOK
<1>3. after = MaxFaults - left
  BY <1>1 DEF Spent
<1>4. Spent = 0 \/ Spent = MaxFaults - faults
  BY DEF Spent
<1> HIDE DEF left, after
<1>5. after \in Nat /\ Spent + 1 =< after
  BY <1>2, <1>3, <1>4
<1> QED BY <1>5 DEF after

\* Whoever was heard takes the address, or does not hear the assignment.
LEMMA CountAssign ==
    ASSUME Wired, AddressInv, MasterStep, state = "WAIT", NobodyWaits,
           NEW id \in Byte \ {0}, NEW serial, FromOpen(serial),
           id =< Cardinality(Taken) + Spent + 1,
           tx' = <<AssignFrame(PA_DISCO_ADDR, id, serial)>>
    PROVE  /\ id =< Cardinality(Taken') + Spent' + 0
           /\ \A s \in Slave : \A g \in Waiting(s)' : g.fn = "write" => g.slave_id # 0
<1>0. AllReady /\ BusTypeInv /\ FaultsOK /\ [BusNext]_busVars /\ id \in Nat
  BY WidthAssumption DEF AddressInv, AllReady, BusNext, Byte
<1> DEFINE f == AssignFrame(PA_DISCO_ADDR, id, serial)
           many == Cardinality(Taken')
           after == Spent'
<1>1. f.fn = "write" /\ f.slave_id = id /\ f.serialno = serial
  BY RequestsKnown
<1> HIDE DEF f
<1>2. tx' = <<f>>
  BY DEF f
<1>3. PICK s \in Slave \ Taken : self_serialno[s] = serial
  BY DEF FromOpen
<1>4. many \in Nat /\ Cardinality(Taken) =< many /\ (s \in Taken' => Cardinality(Taken) + 1 =< many)
  BY <1>0, TakenHeard, TakenGrows
<1>5. after \in Nat /\ Spent =< after
  BY <1>0, SpentStep
<1>6. Cardinality(Taken) \in Nat /\ Spent \in Nat
  BY <1>0, TakenTypes, SpentType, SlaveAssumption
<1>7. s \in Taken' \/ Spent + 1 =< after
  <2>1. CASE srx'[s] = srx[s]
    BY <1>0, <1>2, <2>1, DeafSpends
  <2>2. CASE Waiting(s)' = Waiting(s) \cup {f}
    <3>1. f \in Waiting(s)' /\ f.fn = "write" /\ f.serialno = self_serialno[s] /\ f.slave_id = id
      BY <1>1, <1>3, <2>2
    <3>2. MayHave(s, id)'
      BY <3>1 DEF MayHave, MayTake, Dev!Adopts
    <3> QED BY <3>2 DEF Taken, Byte
  <2> QED BY <1>0, <1>2, <2>1, <2>2, WaitingHeard
<1>8. id =< many + after + 0
  <2> HIDE DEF many, after
  <2> QED BY <1>0, <1>4, <1>5, <1>6, <1>7
<1>9. ASSUME NEW t \in Slave, NEW g \in Waiting(t)', g.fn = "write" PROVE g.slave_id # 0
  <2>1. Waiting(t) = {}
    BY NothingWaits DEF NobodyWaits
  <2>2. g = f
    BY <1>0, <1>2, <1>9, <2>1, WaitingHeard
  <2> QED BY <1>1, <2>2
<1> QED BY <1>8, <1>9 DEF many, after

LEMMA CountWait ==
    ASSUME Wired, AddressInv, MasterStep, do_state_wait, Searching, Cleared, Ample, CountInv
    PROVE  ~wrapped' /\ Counted' /\ HeardOpen' /\ NoLateReset'
<1>0. /\ AllReady /\ BusTypeInv /\ FaultsOK /\ slave_id \in Nat /\ Numbered /\ TypeInv
      /\ ~wrapped /\ NoLateReset /\ IdModulus \in Nat
  BY WidthAssumption DEF AddressInv, AllReady, BusTypeInv, TypeInv, TypeOK, DataOK, Byte, CountInv
<1>1. /\ state = "WAIT" /\ slave_id' = HeardId /\ rsp_serialno' = HeardSerial
      /\ received' = Heard /\ wrapped' = (wrapped \/ HeardId < slave_id)
  BY <1>0, WaitMoves
<1>2. /\ HeardId \in Byte /\ slave_id =< HeardId /\ HeardId \in Nat
      /\ HeardId =< Cardinality(Taken) + Spent + (IF Heard THEN 1 ELSE 0)
      /\ Heard => FromOpen(HeardSerial)
      /\ \A i \in 1 .. Len(LeftInRx) : FromOpen(LeftInRx[i].serialno)
  BY <1>0, <1>1, HeardCounts DEF Byte
<1>3. ~wrapped'
  <2>1. ~(HeardId < slave_id)
    BY <1>0, <1>2
  <2> QED BY <1>0, <1>1, <2>1
<1>4. ASSUME tx' = << >>, (state' = "WAIT" /\ rx' = LeftInRx) \/ (state' = "REPEAT" /\ ~Heard)
      PROVE  Counted' /\ HeardOpen' /\ NoLateReset'
  <2>1. slave_id' =< Cardinality(Taken) + Spent + (IF state' = "WAIT" /\ received' THEN 1 ELSE 0)
    <3>1. (IF Heard THEN 1 ELSE 0) = (IF state' = "WAIT" /\ received' THEN 1 ELSE 0)
      BY <1>1, <1>4
    <3> QED BY <1>1, <1>2, <3>1
  <2>2. Counted' /\ NoLateReset' /\ Taken' = Taken
    BY <1>0, <1>1, <1>2, <1>4, <2>1, CountQuiet
  <2>3. HeardOpen'
    <3>1. received' => FromOpen(rsp_serialno)'
      <4>1. received' => \E s \in Slave \ Taken : self_serialno[s] = rsp_serialno'
        BY <1>1, <1>2 DEF FromOpen
      <4> QED BY <2>2, <4>1 DEF FromOpen
    <3>2. ASSUME state' = "WAIT", NEW i \in 1 .. Len(rx') PROVE FromOpen(rx[i].serialno)'
      <4>1. \E s \in Slave \ Taken : self_serialno[s] = rx'[i].serialno
        BY <1>2, <1>4, <3>2 DEF FromOpen
      <4> QED BY <2>2, <4>1 DEF FromOpen
    <3> QED BY <3>1, <3>2 DEF HeardOpen
  <2> QED BY <2>2, <2>3
<1>5. CASE /\ state' = "VERIFY" /\ Heard /\ NobodyWaits
           /\ tx' = <<AssignFrame(PA_DISCO_ADDR, HeardId, HeardSerial)>>
  <2>1. HeardId # 0
    BY <1>0, <1>1, <1>5, IncSlaveId DEF Numbered, Heard, HeardId, TypeInv, TypeOK, DataOK
  <2>2. HeardId =< Cardinality(Taken) + Spent + 1 /\ FromOpen(HeardSerial)
    BY <1>2, <1>5
  <2>3. /\ HeardId =< Cardinality(Taken') + Spent' + 0
        /\ \A s \in Slave : \A g \in Waiting(s)' : g.fn = "write" => g.slave_id # 0
    BY <1>1, <1>2, <1>5, <2>1, <2>2, CountAssign
  <2>4. Counted'
    <3>1. slave_id' =< Cardinality(Taken') + Spent' + 0
      BY <1>1, <2>3
    <3>2. state' # "WAIT"
      BY <1>5
    <3> QED BY <3>1, <3>2, Zenon DEF Counted
  <2>5. NoLateReset'
    BY <2>3 DEF NoLateReset, Taken
  <2> QED BY <1>3, <1>5, <2>4, <2>5 DEF HeardOpen
<1>6. Counted' /\ HeardOpen' /\ NoLateReset'
  <2>1. \/ state' = "WAIT" /\ tx' = << >> /\ rx' = LeftInRx
        \/ /\ state' = "VERIFY" /\ Heard /\ NobodyWaits
           /\ tx' = <<AssignFrame(PA_DISCO_ADDR, HeardId, HeardSerial)>>
        \/ state' = "REPEAT" /\ ~Heard /\ tx' = << >>
    BY <1>0, WaitMoves, Zenon
  <2>2. CASE state' = "WAIT" /\ tx' = << >> /\ rx' = LeftInRx
    BY <1>4, <2>2
  <2>3. CASE state' = "REPEAT" /\ ~Heard /\ tx' = << >>
    BY <1>4, <2>3
  <2> QED BY <1>5, <2>1, <2>2, <2>3, Zenon
<1> QED BY <1>3, <1>6

LEMMA CountStep ==
    ASSUME Wired, SerialsAgree, AddressInv, DelayedOpen, CountInv, [BusNext]_busVars
    PROVE  CountInv'
<1>1. CASE ~MasterStep
  BY <1>1, CountOthers
<1>2. CASE MasterStep
  <2> SUFFICES ASSUME Searching', Cleared', Ample'
               PROVE  ~wrapped' /\ Counted' /\ HeardOpen' /\ NoLateReset'
    BY DEF CountInv
  <2>0. FaultsOK /\ BusTypeInv
    BY DEF AddressInv, AllReady
  <2>1. CASE do_state_start
    BY <1>2, <2>1, CountStart
  <2>2. ASSUME state # "START"
        PROVE  Searching /\ Cleared /\ Ample /\ ~wrapped /\ Counted /\ NoLateReset
    <3>1. Searching /\ Cleared /\ Ample
      BY <2>0, <2>2, GuardKept
    <3> QED BY <3>1 DEF CountInv
  <2>3. CASE do_state_repeat
    <3>1. state = "REPEAT"
      BY <2>3 DEF do_state_repeat
    <3> QED BY <1>2, <2>2, <2>3, <3>1, CountRepeat
  <2>4. CASE do_state_wait
    <3>1. state = "WAIT"
      BY <2>4 DEF do_state_wait
    <3> QED BY <1>2, <2>2, <2>4, <3>1, CountWait
  <2>5. CASE do_state_verify
    <3>1. state = "VERIFY"
      BY <2>5 DEF do_state_verify
    <3> QED BY <1>2, <2>2, <2>5, <3>1, CountVerify
  <2>6. CASE do_state_idle \/ do_state_reset_start \/ do_state_reset_repeat \/ do_state_reset_wait
                \/ do_state_finish
    <3>1. state' \notin {"REPEAT", "WAIT", "VERIFY", "FINISH"}
      BY <2>6 DEF do_state_idle, do_state_reset_start, do_state_reset_repeat, do_state_reset_wait,
                  do_state_finish
    <3> QED BY <3>1 DEF Searching
  <2> QED BY <1>2, <2>1, <2>3, <2>4, <2>5, <2>6 DEF MasterStep, pa_disco_master_service
<1> QED BY <1>1, <1>2

LEMMA UnwrappedStep ==
    ASSUME Wired, AddressInv, CountInv, Unwrapped, [BusNext]_busVars
    PROVE  Unwrapped'
<1> SUFFICES ASSUME MaxFaults < reset_repeat_cycles,
                    Cardinality(Slave) + MaxFaults < PA_DISCO_ADDR
             PROVE  ~wrapped'
  BY DEF Unwrapped
<1>0. AllReady /\ FaultsOK /\ BusTypeInv /\ slave_id \in Nat /\ ~wrapped
  BY WidthAssumption DEF AddressInv, AllReady, BusTypeInv, TypeInv, TypeOK, DataOK, Byte, Unwrapped
<1>1. CASE ~MasterStep
  BY <1>0, <1>1, OthersKeepMaster
<1>2. CASE MasterStep /\ do_state_wait
  <2>1. state = "WAIT" /\ wrapped' = (wrapped \/ HeardId < slave_id)
    BY <1>2 DEF do_state_wait
  <2>2. Ample
    <3>1. Spent \in 0 .. MaxFaults /\ Cardinality(Slave) \in Nat /\ MaxFaults \in Nat
          /\ PA_DISCO_ADDR \in Int
      BY <1>0, SpentType, TakenTypes, SlaveAssumption, WidthAssumption
    <3>2. Cardinality(Slave) + Spent < PA_DISCO_ADDR
      BY <3>1
    <3> QED BY <3>2 DEF Ample
  <2>3. Searching /\ Cleared
    BY <2>1 DEF Searching, Cleared
  <2>4. slave_id =< HeardId /\ HeardId \in Nat
    BY <1>0, <2>1, <2>2, <2>3, HeardCounts, WidthAssumption DEF Byte
  <2>5. ~(HeardId < slave_id)
    BY <1>0, <2>4
  <2> QED BY <1>0, <2>1, <2>5
<1>3. CASE MasterStep /\ ~do_state_wait
  <2>1. wrapped' = wrapped \/ wrapped' = FALSE
    BY <1>3 DEF MasterStep, pa_disco_master_service, do_state_idle, do_state_start,
                do_state_repeat, do_state_verify, do_state_reset_start,
                do_state_reset_repeat, do_state_reset_wait, do_state_finish, idVars
  <2> QED BY <1>0, <2>1
<1> QED BY <1>1, <1>2, <1>3

CounterInv == AddressInv /\ DelayedOpen /\ CountInv /\ Unwrapped

LEMMA CounterInit ==
    ASSUME BusInit
    PROVE  CounterInv
<1>1. AddressInv
  BY AddressInit
<1>2. DelayedOpen
  BY DEF BusInit, DelayedOpen
<1>3. CountInv /\ Unwrapped
  BY DEF BusInit, Init, CountInv, Unwrapped, Searching
<1> QED BY <1>1, <1>2, <1>3 DEF CounterInv

LEMMA CounterStep ==
    ASSUME Wired, SerialsAgree, CounterInv, [BusNext]_busVars
    PROVE  CounterInv'
<1> USE DEF CounterInv
<1>1. AddressInv'
  BY AddressStep
<1>2. DelayedOpen'
  BY DelayStep DEF AddressInv, AllReady
<1>3. CountInv'
  BY CountStep
<1>4. Unwrapped'
  BY UnwrappedStep
<1> QED BY <1>1, <1>2, <1>3, <1>4

LEMMA CounterInvariant ==
    ASSUME Wired, SerialsAgree
    PROVE  BusSpec => []CounterInv
<1>1. BusInit => CounterInv
  BY CounterInit
<1>2. CounterInv /\ [BusNext]_busVars => CounterInv'
  BY CounterStep
<1> QED BY <1>1, <1>2, PTL DEF BusSpec

\* The line has fewer faults than a reset has repetitions, and an address for
\* every slave and every fault.
Roomy ==
    /\ Wired /\ SerialsAgree
    /\ MaxFaults < reset_repeat_cycles
    /\ Cardinality(Slave) + MaxFaults < PA_DISCO_ADDR

\* The address counter of a cycle never goes round: it counts slaves, however
\* often they answer, and faults.
THEOREM CounterNeverWraps ==
    ASSUME Roomy
    PROVE  BusSpec => []~wrapped
<1>1. CounterInv => ~wrapped
  BY DEF CounterInv, Unwrapped, Roomy
<1>2. Wired /\ SerialsAgree
  BY DEF Roomy
<1>3. BusSpec => []CounterInv
  BY <1>2, CounterInvariant
<1> QED BY <1>1, <1>3, PTL

\* So no assignment is ever addressed to everybody.
THEOREM AssignmentsNameOneSlave ==
    ASSUME Roomy
    PROVE  BusSpec => []AssignmentNamesSlave
<1>1. Wired /\ MaxFaults < reset_repeat_cycles
  BY DEF Roomy
<1>2. BusSpec => [](~wrapped => AssignmentNamesSlave)
  BY <1>1, AssignmentsNameSlaves
<1>3. BusSpec => []~wrapped
  BY CounterNeverWraps
<1> QED BY <1>2, <1>3, PTL

\* A slave changes its address only for a bus reset, a restart, or an
\* assignment with its own serial number.
THEOREM AddressesKept ==
    ASSUME Roomy
    PROVE  BusSpec => AddressKept
<1>1. Wired /\ SerialsAgree /\ MaxFaults < reset_repeat_cycles
  BY DEF Roomy
<1>2. ASSUME AddressInv, ~wrapped, [BusNext]_busVars, NEW s \in Slave, address'[s] # address[s]
      PROVE  \/ address'[s] = 0
             \/ /\ srx[s] # << >> /\ Head(srx[s]).fn = "write"
                /\ Head(srx[s]).serialno = self_serialno[s]
  <2>0. BusTypeInv /\ Frames(s) /\ ZeroMeansReset(s) /\ address \in [Slave -> Byte]
    BY <1>2 DEF AddressInv, AllReady, BusTypeInv, SlavesOK
  <2>1. CASE MasterStep \/ BusReset \/ BusTick \/ UNCHANGED busVars
    BY <1>2, <2>1 DEF MasterStep, BusReset, BusTick, busVars, deviceVars
  <2>2. ASSUME NEW t \in Slave \ {s}, SlaveStep(t) \/ SlaveRestart(t)
        PROVE  FALSE
    BY <1>2, <2>0, <2>2, OthersKeepAddress
  <2>3. CASE SlaveRestart(s)
    BY <2>0, <2>3 DEF SlaveRestart, Dev!Restart
  <2>4. CASE SlaveStep(s)
    <3>1. Dev!pa_disco_register_map_service(s)
      BY <1>2, <2>0, <2>4, SlaveTakes
    <3> DEFINE f == Head(srx[s])
    <3>2. srx[s] # << >> /\ srx'[s] = Tail(srx[s]) /\ TakesRequest(s, f)
      BY <2>0, <2>4, <3>1, RequestHandled
    <3>3. f \in Waiting(s)
      BY <2>0, <3>2, FirstTaken
    <3>4. address'[s] = f.slave_id /\ f.fn = "write" /\ Dev!Adopts(s, f)
      BY <1>2, <3>2 DEF TakesRequest
    <3>5. CASE f.serialno = self_serialno[s]
      BY <3>2, <3>4, <3>5
    <3>6. CASE f.serialno = ZeroSerial
      <4>1. f.slave_id = 0
        BY <1>1, <1>2, <2>0, <3>3, <3>4, <3>6 DEF ZeroMeansReset
      <4> QED BY <3>4, <4>1
    <3> QED BY <3>4, <3>5, <3>6 DEF Dev!Adopts
  <2> QED BY <1>2, <2>1, <2>2, <2>3, <2>4 DEF BusNext
<1>3. CounterInv => AddressInv /\ ~wrapped
  BY DEF CounterInv, Unwrapped, Roomy
<1>4. BusSpec => []CounterInv
  BY <1>1, CounterInvariant
<1>5. CounterInv /\ [BusNext]_busVars =>
         [\A s \in Slave : address'[s] # address[s] =>
             \/ address'[s] = 0
             \/ /\ srx[s] # << >> /\ Head(srx[s]).fn = "write"
                /\ Head(srx[s]).serialno = self_serialno[s]]_busVars
  BY <1>2, <1>3
<1> QED BY <1>4, <1>5, PTL DEF BusSpec, AddressKept

------------------------------------------------------------------------------
(***************************************************************************)
(* A search without faults misses nobody: steps of the slaves.             *)
(***************************************************************************)
LEMMA ClearKept ==
    ASSUME FaultsOK, BusTypeInv, [BusNext]_busVars, state # "START",
           Searching', clean', Cleared', Ample'
    PROVE  Searching /\ clean /\ Cleared /\ Ample
<1>1. Searching /\ Cleared /\ Ample
  BY GuardKept
<1>2. state # "IDLE"
  BY <1>1 DEF Searching
<1>3. clean
  BY <1>2, FaultsStep
<1> QED BY <1>1, <1>3

\* Who is settled stays so as long as no request makes it change its address.
LEMMA SettledStays ==
    ASSUME NEW s \in Slave, Settled(s), address'[s] = address[s], Records \subseteq Records',
           \A f \in Waiting(s)' : f \in Waiting(s) \/ ~(f.fn = "write" /\ Dev!Adopts(s, f))
    PROVE  Settled(s)'
<1>1. Listed(s)'
  BY DEF Settled, Listed, Records
<1>2. \A f \in Waiting(s)' : f.fn = "write" => ~Dev!Adopts(s, f)
  BY DEF Settled
<1> QED BY <1>1, <1>2 DEF Settled, Dev!Adopts

LEMMA SettledTaken ==
    ASSUME BusTypeInv, NEW s \in Slave, Settled(s)
    PROVE  s \in Taken
<1>1. address[s] \in Byte \ {0}
  BY DEF BusTypeInv, SlavesOK, Settled
<1> QED BY <1>1 DEF Taken, MayHave

LEMMA SettledOthers ==
    ASSUME AllReady, [BusNext]_busVars, ~MasterStep, NEW s \in Slave, Settled(s),
           ~SlaveRestart(s)
    PROVE  Settled(s)'
<1>0. BusTypeInv
  BY DEF AllReady
<1>1. Records' = Records
  BY OthersKeepMaster DEF Records
<1>2. ASSUME address'[s] = address[s], srx'[s] = srx[s] PROVE Settled(s)'
  <2>1. Waiting(s)' = Waiting(s)
    BY <1>2 DEF Waiting
  <2> QED BY <1>1, <1>2, <2>1, SettledStays
<1>3. CASE BusReset \/ BusTick \/ UNCHANGED busVars
  BY <1>2, <1>3 DEF BusReset, BusTick, busVars, deviceVars
<1>4. ASSUME NEW t \in Slave \ {s}, SlaveStep(t) \/ SlaveRestart(t) PROVE Settled(s)'
  BY <1>0, <1>2, <1>4, OthersKeepAddress
<1>5. CASE SlaveStep(s)
  <2>1. CASE ~Dev!pa_disco_register_map_service(s)
    BY <1>2, <1>5, <2>1, NothingFlushed
  <2>2. CASE Dev!pa_disco_register_map_service(s)
    <3> DEFINE f == Head(srx[s])
    <3>1. srx[s] # << >> /\ srx'[s] = Tail(srx[s]) /\ TakesRequest(s, f)
      BY <1>0, <1>5, <2>2, RequestHandled
    <3>2. Waiting(s)' \subseteq Waiting(s) /\ f \in Waiting(s)
      BY <1>0, <3>1, FirstTaken
    <3>3. address'[s] = address[s]
      BY <3>1, <3>2 DEF TakesRequest, Settled
    <3> QED BY <1>1, <3>2, <3>3, SettledStays
  <2> QED BY <2>1, <2>2
<1> QED BY <1>3, <1>4, <1>5 DEF BusNext

\* Without a fault every slave keeps its address, the coming one included.
LEMMA TakenSame ==
    ASSUME AllReady, FaultsOK, [BusNext]_busVars, ~MasterStep, state # "IDLE",
           NoLateReset, \A s \in Slave : Frames(s), clean, clean'
    PROVE  Taken' = Taken
<1> DEFINE rest == Taken'
<1>1. rest \in SUBSET Taken /\ Cardinality(Taken) + Spent =< Cardinality(rest) + Spent'
  BY TakenOthers
<1>2. Spent = 0 /\ Spent' = 0
  BY DEF Spent
<1>3. Cardinality(rest) \in Nat
  BY TakenOthers
<1> HIDE DEF rest
<1>4. Cardinality(Taken) =< Cardinality(rest)
  BY <1>1, <1>2, <1>3, TakenTypes
<1>5. /\ Cardinality(rest) =< Cardinality(Taken)
      /\ Cardinality(Taken) = Cardinality(rest) => Taken = rest
  BY <1>1, TakenTypes, FS_Subset
<1>6. rest = Taken
  BY <1>3, <1>4, <1>5, TakenTypes
<1> QED BY <1>6 DEF rest

LEMMA CleanAnswer ==
    ASSUME FaultsOK, NEW s \in Slave, SlaveStep(s), clean'
    PROVE  rx' = rx \o stx'
<1>1. PICK lost \in 0 .. Len(stx') : Faulty(lost) /\ rx' = IF lost = 0 THEN rx \o stx' ELSE rx
  BY DEF SlaveStep
<1>2. lost \in Nat
  OBVIOUS
<1>3. lost = 0
  BY <1>1, <1>2, FaultyTypes
<1> QED BY <1>1, <1>3

LEMMA CleanRun ==
    ASSUME FaultsOK, NEW s \in Slave, SlaveRestart(s)
    PROVE  ~clean'
<1>1. Faulty(1)
  BY DEF SlaveRestart
<1> QED BY <1>1, FaultyTypes

\* A verify read is answered by the slave whose address it carries.
LEMMA VerifyReadAnswered ==
    ASSUME BusTypeInv, NEW s \in Slave, SlaveStep(s), Dev!pa_disco_register_map_service(s),
           Head(srx[s]) = VerifyRead, address[s] = slave_id
    PROVE  stx' # << >> /\ address'[s] = address[s]
<1> DEFINE f == Head(srx[s])
<1>1. f.dst = address[s] /\ f.fn = "read" /\ f.reg = 0
  BY DEF VerifyRead, VerifyFrame, Request, PA_DISCO_VERIFY_REG
<1> HIDE DEF f
<1>2. Dev!Addressed(s, f) /\ ~Dev!InBlock(f)
  BY <1>1 DEF Dev!Addressed, Dev!InBlock, Dev!PA_DISCO_REG_START, Dev!PA_DISCO_REG_COUNT
<1>3. Dev!pa_disco_slave_read_cb(s, f) /\ UNCHANGED address
  BY <1>1, <1>2 DEF Dev!pa_disco_register_map_service, f
<1>4. Dev!Answer(s, ZeroSerial)
  BY <1>2, <1>3 DEF Dev!pa_disco_slave_read_cb, Dev!ReadAllowed
<1> QED BY <1>3, <1>4 DEF Dev!Answer

\* A query makes a slave without an address hold an answer back.
LEMMA QueryTaken ==
    ASSUME BusTypeInv, NEW s \in Slave, SlaveStep(s), Dev!pa_disco_register_map_service(s),
           Head(srx[s]) = QueryFrame(PA_DISCO_ADDR, ZeroSerial), address[s] = 0
    PROVE  delay'[s] # Dev!NoDelay
<1> DEFINE f == Head(srx[s])
<1>1. /\ f.dst = PA_DISCO_ADDR /\ f.fn = "read"
      /\ f.reg = PA_DISCO_REG_START /\ IsFullBlock(f)
  BY DEF QueryFrame, Request, IsFullBlock
<1> HIDE DEF f
<1>2. Dev!Addressed(s, f) /\ Dev!InBlock(f) /\ Dev!IsFullBlock(f)
  <2>1. Dev!IsFullBlock(f)
    BY <1>1, SameBlock
  <2>2. f.reg = 23
    BY <1>1 DEF PA_DISCO_REG_START
  <2> QED BY <1>1, <2>1, <2>2
          DEF Dev!Addressed, Dev!InBlock, Dev!PA_DISCO_REG_START, Dev!PA_DISCO_REG_COUNT
<1>3. Dev!pa_disco_slave_read_cb(s, f)
  BY <1>1, <1>2 DEF Dev!pa_disco_register_map_service, f
<1>4. Dev!AnswerQuery(s)
  BY <1>2, <1>3 DEF Dev!pa_disco_slave_read_cb
<1>5. delay \in [Slave -> Int] /\ disco_window_min \in Nat
  BY SlaveAssumption DEF BusTypeInv, SlavesOK
<1>6. PICK d \in (IF {"delay_ms", "random"} \subseteq Provided
                  THEN disco_window_min .. disco_window_max ELSE {0}) :
         delay' = [delay EXCEPT ![s] = d]
  BY <1>4 DEF Dev!AnswerQuery
<1>7. d >= 0
  BY <1>5, <1>6
<1> QED BY <1>5, <1>6, <1>7 DEF Dev!NoDelay

\* The verify read is the last request that waits.
LEMMA VerifyLast ==
    ASSUME BusTypeInv, NEW s \in Slave, Frames(s), state = "VERIFY",
           srx[s] # << >>, Head(srx[s]).fn = "read"
    PROVE  /\ Waiting(s) = {Head(srx[s])}
           /\ srx'[s] = Tail(srx[s]) => Waiting(s)' = {}
<1> DEFINE q == srx[s]
<1>1. q \in Seq(RequestType) /\ q # << >>
  BY SlaveTypes
<1>2. /\ \A i \in 1 .. (Len(q) - 1) : q[i].fn = "write"
      /\ Waiting(s) = {q[i] : i \in 1 .. Len(q)} /\ Head(q).fn = "read"
  BY DEF Frames, Waiting
<1> HIDE DEF q
<1>3. /\ Len(q) \in Nat \ {0} /\ Head(q) = q[1] /\ (Len(q) = 1 => Tail(q) = << >>)
  BY <1>1, Tails
<1>4. Len(q) = 1
  <2> DEFINE n == Len(q)
  <2>1. ~(1 \in 1 .. (n - 1)) /\ n \in Nat \ {0}
    BY <1>2, <1>3
  <2> HIDE DEF n
  <2>2. n = 1
    BY <2>1
  <2> QED BY <2>2 DEF n
<1>5. Waiting(s) = {Head(q)}
  BY <1>2, <1>3, <1>4
<1>6. srx'[s] = << >> => Waiting(s)' = {}
  BY DEF Waiting
<1>7. Tail(q) = << >>
  BY <1>3, <1>4
<1> QED BY <1>5, <1>6, <1>7 DEF q

LEMMA AnswersJoin ==
    ASSUME BusTypeInv, [BusNext]_busVars, rx' = rx \o stx'
    PROVE  /\ rx # << >> \/ stx' # << >> => rx' # << >>
           /\ stx' = << >> => rx' = rx
           /\ \A r : stx' = <<r>> =>
                 \A i \in 1 .. Len(rx') : (i \in 1 .. Len(rx) /\ rx'[i] = rx[i]) \/ rx'[i] = r
<1> DEFINE answer == stx'
<1>1. rx \in Seq(ResponseType) /\ answer \in Seq(ResponseType)
  BY BusTypeStep DEF BusTypeInv, SlavesOK, TypeInv, TypeOK, DataOK
<1>2. rx' = rx \o answer
  OBVIOUS
<1> HIDE DEF answer
<1>3. /\ rx # << >> \/ answer # << >> => rx' # << >>
      /\ answer = << >> => rx' = rx
  BY <1>1, <1>2
<1>4. ASSUME NEW r, answer = <<r>>, NEW i \in 1 .. Len(rx')
      PROVE  (i \in 1 .. Len(rx) /\ rx'[i] = rx[i]) \/ rx'[i] = r
  BY <1>1, <1>2, <1>4
<1> QED BY <1>3, <1>4 DEF answer

\* The slave that is being verified takes its address, and then answers.
LEMMA VerifiedRun ==
    ASSUME AllReady, [BusNext]_busVars, NEW s \in Slave, SlaveStep(s), Frames(s), state = "VERIFY",
           self_serialno[s] = rsp_serialno, Verified(s), rx' = rx \o stx'
    PROVE  Verified(s)'
<1>0. BusTypeInv /\ UNCHANGED <<slave_id, rsp_serialno, verify_sent>>
  BY DEF AllReady, SlaveStep, ctxVars, idVars, verifyVars
<1>1. VerifyRead' = VerifyRead /\ Assignment' = Assignment
  BY <1>0 DEF VerifyRead, Assignment
<1>2. rx # << >> \/ stx' # << >> => rx' # << >>
  BY <1>0, AnswersJoin
<1>3. CASE ~Dev!pa_disco_register_map_service(s)
  <2>1. Waiting(s)' = Waiting(s) /\ address'[s] = address[s]
    BY <1>3, NothingFlushed DEF Waiting
  <2> QED BY <1>0, <1>1, <1>2, <2>1 DEF Verified
<1>4. CASE Dev!pa_disco_register_map_service(s)
  <2> DEFINE f == Head(srx[s])
  <2>1. /\ srx[s] # << >> /\ srx'[s] = Tail(srx[s]) /\ TakesRequest(s, f)
        /\ f.fn = "write" /\ f.dst = PA_DISCO_ADDR /\ IsFullBlock(f) /\ Dev!Adopts(s, f)
              => address'[s] = f.slave_id
    BY <1>0, <1>4, RequestHandled
  <2>2. f \in Waiting(s) /\ Waiting(s) \subseteq Waiting(s)' \cup {f}
    BY <1>0, <2>1, FirstTaken, RestWaits
  <2>3. /\ ~verify_sent \/ VerifyRead \in Waiting(s)
        /\ address[s] = slave_id \/ Assignment \in Waiting(s)
    BY <2>2 DEF Verified
  <2>4. f = Assignment \/ (verify_sent /\ f = VerifyRead)
    BY <2>2 DEF Frames
  <2>5. VerifyRead.fn = "read" /\ Assignment.fn = "write"
    BY RequestsKnown DEF VerifyRead, Assignment
  <2>6. CASE f = Assignment
    <3>1. f.dst = PA_DISCO_ADDR /\ IsFullBlock(f) /\ f.slave_id = slave_id /\ Dev!Adopts(s, f)
      BY <2>6, RequestsKnown DEF Assignment, Dev!Adopts
    <3>2. address'[s] = slave_id
      BY <2>1, <2>5, <2>6, <3>1
    <3>3. ~verify_sent \/ VerifyRead \in Waiting(s)'
      BY <2>2, <2>3, <2>5, <2>6
    <3> QED BY <1>0, <1>1, <3>2, <3>3 DEF Verified
  <2>7. CASE verify_sent /\ f = VerifyRead
    <3>1. Waiting(s) = {f} /\ Waiting(s)' = {}
      BY <1>0, <2>1, <2>5, <2>7, VerifyLast
    <3>2. address[s] = slave_id
      BY <2>3, <2>5, <2>7, <3>1
    <3>3. stx' # << >> /\ address'[s] = slave_id
      BY <1>0, <1>4, <2>7, <3>2, VerifyReadAnswered
    <3> QED BY <1>0, <1>2, <2>7, <3>1, <3>3 DEF Verified
  <2> QED BY <2>4, <2>6, <2>7
<1> QED BY <1>3, <1>4

\* What a slave answers during a verification carries the address assigned.
LEMMA VerifyAnswer ==
    ASSUME AllReady, NEW s \in Slave, SlaveStep(s), Frames(s), state = "VERIFY",
           slave_id # PA_DISCO_ADDR, stx' # << >>
    PROVE  \E r : stx' = <<r>> /\ r.src = slave_id
<1>0. BusTypeInv
  BY DEF AllReady
<1>1. Dev!pa_disco_register_map_service(s)
  <2>1. delay[s] = Dev!NoDelay
    BY DEF AllReady, Ready, Listening, Attentive
  <2> QED BY <1>0, <2>1, SlaveTakes DEF Dev!NoDelay
<1> DEFINE f == Head(srx[s])
<1>2. srx[s] # << >> /\ srx'[s] = Tail(srx[s]) /\ TakesRequest(s, f)
  BY <1>0, <1>1, RequestHandled
<1>3. f \in Waiting(s)
  BY <1>0, <1>2, FirstTaken
<1>4. f = Assignment \/ f = VerifyRead
  BY <1>3 DEF Frames
<1>5. f.fn = "write" => IsFullBlock(f)
  BY <1>3 DEF Frames
<1> HIDE DEF f
<1>6. ZeroAnswer(s) /\ f.fn = "read" /\ f.dst \in {address[s], PA_DISCO_ADDR}
  BY <1>2, <1>5 DEF TakesRequest
<1>7. f.dst = slave_id
  BY <1>4, <1>6, RequestsKnown DEF Assignment, VerifyRead
<1> QED BY <1>6, <1>7 DEF ZeroAnswer

\* A query stays due until it is answered.
LEMMA QueryRun ==
    ASSUME AllReady, NEW s \in Slave, SlaveStep(s), QueryDue(s), s \notin Taken, stx' = << >>
    PROVE  QueryDue(s)'
<1>0. BusTypeInv /\ address[s] \in Byte
  BY DEF AllReady, BusTypeInv, SlavesOK
<1> DEFINE query == QueryFrame(PA_DISCO_ADDR, ZeroSerial)
           f == Head(srx[s])
<1>1. ~Dev!Reply(s)
  BY DEF Dev!Reply, Dev!Answer
<1>2. delay[s] = Dev!NoDelay /\ srx[s] # << >> /\ srx[s][Len(srx[s])] = query
  <2>1. delay[s] = Dev!NoDelay
    BY <1>1 DEF SlaveStep, Dev!Run, Dev!pa_disco_slave_service, Dev!pa_disco_register_map_service
  <2> QED BY <2>1 DEF QueryDue
<1>3. CASE Dev!pa_disco_slave_service(s)
  <2>1. srx'[s] = srx[s]
    <3>1. ~Dev!pa_disco_register_map_service(s)
      BY <1>3 DEF Dev!pa_disco_slave_service, Dev!pa_disco_register_map_service
    <3> QED BY <3>1, NothingFlushed
  <2> QED BY <1>2, <2>1 DEF QueryDue
<1>4. CASE Dev!pa_disco_register_map_service(s)
  <2>1. srx'[s] = Tail(srx[s])
    BY <1>0, <1>4, RequestHandled
  <2> DEFINE q == srx[s]
             r == srx'[s]
  <2>2. q \in Seq(RequestType) /\ q # << >> /\ r = Tail(q) /\ q[Len(q)] = query /\ f = Head(q)
    BY <1>0, <1>2, <2>1, SlaveTypes
  <2> HIDE DEF q, r, f, query
  <2>3. /\ Len(q) \in Nat \ {0} /\ Len(r) = Len(q) - 1 /\ Head(q) = q[1]
        /\ \A i \in 1 .. (Len(q) - 1) : r[i] = q[i + 1]
    BY <2>2, Tails
  <2>4. CASE Len(q) = 1
    <3>1. f = query
      BY <2>2, <2>3, <2>4
    <3>2. address[s] = 0
      BY <1>0 DEF Taken, MayHave
    <3>3. delay'[s] # Dev!NoDelay
      BY <1>0, <1>4, <3>1, <3>2, QueryTaken DEF f, query
    <3> QED BY <3>3 DEF QueryDue, Dev!NoDelay
  <2>5. CASE Len(q) # 1
    <3> DEFINE n == Len(q)
               m == Len(r)
    <3>1. n \in Nat \ {0} /\ n # 1 /\ m = n - 1
      BY <2>3, <2>5
    <3> HIDE DEF n, m
    <3>2. m \in 1 .. (n - 1) /\ m + 1 = n
      BY <3>1
    <3>3. r[m] = q[n]
      BY <2>3, <3>2 DEF n
    <3>4. r # << >>
      <4>1. Len(r) # 0
        BY <3>2 DEF m
      <4> QED BY <4>1
    <3>5. r # << >> /\ r[Len(r)] = query
      BY <2>2, <3>3, <3>4 DEF m, n
    <3> QED BY <3>5 DEF QueryDue, r, query
  <2> QED BY <2>4, <2>5
<1> QED BY <1>1, <1>3, <1>4 DEF SlaveStep, Dev!Run

LEMMA FollowedOthers ==
    ASSUME AllReady, FaultsOK, [BusNext]_busVars, ~MasterStep, clean',
           \A s \in Slave : Frames(s), NEW s \in Slave, Followed(s)
    PROVE  Followed(s)'
<1>0. BusTypeInv /\ UNCHANGED <<state, slave_id, rsp_serialno, verify_sent>>
  BY OthersKeepMaster DEF AllReady
<1>1. ~SlaveRestart(s)
  BY CleanRun
<1>2. CASE Settled(s)
  BY <1>1, <1>2, SettledOthers DEF Followed
<1>3. CASE s \notin Taken
  <2>1. \A id : MayHave(s, id)' => MayHave(s, id) \/ id = 0
    BY <1>0, OthersShrink DEF Shrinks
  <2>2. s \notin Taken'
    BY <1>3, <2>1 DEF Taken, Byte
  <2> QED BY <2>2 DEF Followed
<1>4. CASE state = "VERIFY" /\ self_serialno[s] = rsp_serialno /\ Verified(s)
  <2>1. ASSUME UNCHANGED <<address, srx>>, rx' = rx PROVE Followed(s)'
    BY <1>0, <1>4, <2>1 DEF Followed, Verified, Waiting, VerifyRead, Assignment
  <2>2. CASE BusReset \/ BusTick \/ UNCHANGED busVars
    BY <2>1, <2>2 DEF BusReset, pa_disco_master_reset, BusTick, Tick, busVars, deviceVars,
                      vars, pamVars
  <2>3. ASSUME NEW t \in Slave \ {s}, SlaveStep(t) PROVE Followed(s)'
    <3>1. address'[s] = address[s] /\ srx'[s] = srx[s]
      BY <1>0, <2>3, OthersKeepAddress
    <3>2. rx' = rx \o stx'
      BY <2>3, CleanAnswer
    <3>3. rx # << >> => rx' # << >>
      BY <1>0, <3>2, AnswersJoin
    <3>4. Waiting(s)' = Waiting(s)
      BY <3>1 DEF Waiting
    <3> QED BY <1>0, <1>4, <3>1, <3>3, <3>4 DEF Followed, Verified, VerifyRead, Assignment
  <2>4. CASE SlaveStep(s)
    <3>1. rx' = rx \o stx'
      BY <2>4, CleanAnswer
    <3>2. Verified(s)'
      BY <1>4, <2>4, <3>1, VerifiedRun
    <3> QED BY <1>0, <1>4, <3>2 DEF Followed
  <2>5. ASSUME NEW t \in Slave, SlaveRestart(t) PROVE FALSE
    BY <2>5, CleanRun
  <2> QED BY <2>2, <2>3, <2>4, <2>5 DEF BusNext
<1> QED BY <1>2, <1>3, <1>4 DEF Followed


LEMMA QueryDueOthers ==
    ASSUME AllReady, FaultsOK, [BusNext]_busVars, ~MasterStep, clean', rx' = << >>,
           NEW s \in Slave, QueryDue(s), s \notin Taken
    PROVE  QueryDue(s)'
<1>0. BusTypeInv /\ delay[s] \in Int
  BY DEF AllReady, BusTypeInv, SlavesOK
<1>1. CASE BusReset \/ UNCHANGED busVars
  BY <1>1 DEF BusReset, busVars, deviceVars, QueryDue, Dev!NoDelay
<1>2. CASE BusTick
  <2>1. srx'[s] = srx[s] /\ delay'[s] = (IF delay[s] > 0 THEN delay[s] - 1 ELSE delay[s])
    BY <1>0, <1>2, SlaveTick
  <2>2. delay[s] # Dev!NoDelay => delay'[s] # Dev!NoDelay
    BY <1>0, <2>1 DEF Dev!NoDelay
  <2> QED BY <2>1, <2>2 DEF QueryDue, Dev!NoDelay
<1>3. ASSUME NEW t \in Slave \ {s}, SlaveStep(t) PROVE QueryDue(s)'
  BY <1>0, <1>3, OthersKeepAddress DEF QueryDue, Dev!NoDelay
<1>4. CASE SlaveStep(s)
  <2>1. rx' = rx \o stx'
    BY <1>4, CleanAnswer
  <2>2. stx' = << >>
    BY <1>0, <2>1, AnswersJoin
  <2> QED BY <1>4, <2>2, QueryRun
<1>5. ASSUME NEW t \in Slave, SlaveRestart(t) PROVE FALSE
  BY <1>5, CleanRun
<1> QED BY <1>1, <1>2, <1>3, <1>4, <1>5 DEF BusNext

LEMMA CompleteOthers ==
    ASSUME Wired, AddressInv, CountInv, CompleteInv, [BusNext]_busVars, ~MasterStep
    PROVE  CompleteInv'
<1> SUFFICES ASSUME Searching', clean', Cleared', Ample', ~AllocMayFail
             PROVE  Complete'
  BY DEF CompleteInv
<1>0. /\ AllReady /\ BusTypeInv /\ FaultsOK /\ Numbered
      /\ \A s \in Slave : Frames(s)
  BY DEF AddressInv, AllReady
<1>1. UNCHANGED <<state, slave_id, received, rsp_serialno, verify_sent>>
  BY OthersKeepMaster
<1>2. Searching /\ clean /\ Cleared /\ Ample /\ state # "IDLE"
  <2>1. state # "START" /\ state # "IDLE"
    BY <1>1 DEF Searching
  <2> QED BY <1>0, <2>1, ClearKept
<1>3. Complete /\ NoLateReset /\ slave_id # PA_DISCO_ADDR
  <2>1. slave_id < PA_DISCO_ADDR
    BY <1>0, <1>2, CounterLow
  <2>2. slave_id \in Nat
    BY <1>0, WidthAssumption DEF BusTypeInv, TypeInv, TypeOK, DataOK, Byte
  <2> QED BY <1>2, <2>1, <2>2 DEF CompleteInv, CountInv
<1>4. ASSUME NEW s \in Slave, SlaveRestart(s) PROVE FALSE
  BY <1>0, <1>4, CleanRun
<1>5. \A s \in Slave : Followed(s)'
  BY <1>0, <1>3, FollowedOthers DEF Complete
<1>6. \/ rx' = rx
      \/ \E s \in Slave : SlaveStep(s) /\ rx' = rx \o stx' /\ stx' # << >>
  <2>1. ASSUME NEW s \in Slave, SlaveStep(s), rx' # rx PROVE rx' = rx \o stx' /\ stx' # << >>
    <3>1. rx' = rx \o stx'
      BY <1>0, <2>1, CleanAnswer
    <3> QED BY <1>0, <2>1, <3>1, AnswersJoin
  <2> QED BY <1>4, <2>1 DEF BusNext, BusReset, pa_disco_master_reset, BusTick, Tick, busVars,
                            vars, pamVars
<1>7. QueryAnswered'
  <2> SUFFICES ASSUME state = "WAIT", ~received, rx' = << >>, NEW s \in Slave
               PROVE  s \in Taken' \/ QueryDue(s)'
    BY <1>1 DEF QueryAnswered
  <2>1. rx = << >>
    BY <1>0, <1>6, AnswersJoin
  <2>2. s \in Taken \/ QueryDue(s)
    BY <1>3, <2>1 DEF Complete, QueryAnswered
  <2>3. Taken' = Taken
    BY <1>0, <1>2, <1>3, TakenSame
  <2> QED BY <1>0, <2>2, <2>3, QueryDueOthers
<1>8. VerifyAnswers'
  <2> SUFFICES ASSUME state = "VERIFY"
               PROVE  /\ \E s \in Slave : self_serialno[s] = rsp_serialno /\ Verified(s)'
                      /\ verify_sent => \A i \in 1 .. Len(rx') : rx'[i].src = slave_id
    BY <1>1 DEF VerifyAnswers
  <2>1. PICK s \in Slave : self_serialno[s] = rsp_serialno /\ Verified(s)
    BY <1>3 DEF Complete, VerifyAnswers
  <2>2. Verified(s)'
    <3>1. CASE SlaveStep(s)
      <4>1. rx' = rx \o stx'
        BY <1>0, <3>1, CleanAnswer
      <4> QED BY <1>0, <2>1, <3>1, <4>1, VerifiedRun
    <3>2. CASE ~SlaveStep(s)
      <4>1. address'[s] = address[s] /\ srx'[s] = srx[s]
        <5>1. CASE BusReset \/ BusTick \/ UNCHANGED busVars
          BY <5>1 DEF BusReset, BusTick, busVars, deviceVars
        <5>2. ASSUME NEW t \in Slave \ {s}, SlaveStep(t) PROVE address'[s] = address[s] /\ srx'[s] = srx[s]
          BY <1>0, <5>2, OthersKeepAddress
        <5> QED BY <1>4, <3>2, <5>1, <5>2 DEF BusNext
      <4>2. Waiting(s)' = Waiting(s)
        BY <4>1 DEF Waiting
      <4>3. rx # << >> => rx' # << >>
        BY <1>0, <1>6, AnswersJoin
      <4> QED BY <1>1, <2>1, <4>1, <4>2, <4>3 DEF Verified, VerifyRead, Assignment
    <3> QED BY <3>1, <3>2
  <2>3. ASSUME verify_sent, NEW i \in 1 .. Len(rx') PROVE rx'[i].src = slave_id
    <3>1. \A j \in 1 .. Len(rx) : rx[j].src = slave_id
      BY <1>3, <2>3 DEF Complete, VerifyAnswers
    <3>2. CASE rx' = rx
      BY <2>3, <3>1, <3>2
    <3>3. ASSUME NEW t \in Slave, SlaveStep(t), rx' = rx \o stx', stx' # << >>
          PROVE  rx'[i].src = slave_id
      <4>1. PICK r : stx' = <<r>> /\ r.src = slave_id
        BY <1>0, <1>3, <3>3, VerifyAnswer
      <4>2. (i \in 1 .. Len(rx) /\ rx'[i] = rx[i]) \/ rx'[i] = r
        BY <1>0, <2>3, <3>3, <4>1, AnswersJoin
      <4> QED BY <3>1, <4>1, <4>2
    <3> QED BY <1>6, <3>2, <3>3
  <2> QED BY <2>1, <2>2, <2>3
<1>9. quiet' > 0 => \A s \in Slave : Settled(s)'
  <2>1. quiet' = quiet
    BY DEF BusNext, BusReset, pa_disco_master_reset, BusTick, Tick, SlaveStep, SlaveRestart,
           busVars, vars, ctxVars, roundVars
  <2>2. ASSUME NEW s \in Slave, Settled(s) PROVE Settled(s)'
    BY <1>0, <1>4, <2>2, SettledOthers
  <2> QED BY <1>3, <2>1, <2>2 DEF Complete
<1> QED BY <1>5, <1>7, <1>8, <1>9 DEF Complete

------------------------------------------------------------------------------
(***************************************************************************)
(* A search without faults misses nobody: service() calls.                 *)
(***************************************************************************)
\* Without a fault every slave hears what is transmitted.
LEMMA AllHear ==
    ASSUME BusTypeInv, FaultsOK, MasterStep, clean', NEW s \in Slave
    PROVE  /\ address'[s] = address[s]
           /\ tx' = << >> => srx'[s] = srx[s] /\ Waiting(s)' = Waiting(s)
           /\ \A f : tx' = <<f>> =>
                 srx'[s] = srx[s] \o <<f>> /\ Waiting(s)' = Waiting(s) \cup {f}
<1>1. ASSUME NEW f, tx' = <<f>>
      PROVE  srx'[s] = srx[s] \o <<f>> /\ Waiting(s)' = Waiting(s) \cup {f}
  <2>1. srx'[s] # srx[s]
    BY <1>1, DeafCounts
  <2> QED BY <1>1, <2>1, WaitingHeard
<1> QED BY <1>1, WaitingHeard

LEMMA SettledQuiet ==
    ASSUME AllReady, FaultsOK, MasterStep, clean', Records \subseteq Records',
           tx' = << >> \/ \E f : tx' = <<f>> /\ f.fn = "read",
           NEW s \in Slave, Settled(s)
    PROVE  Settled(s)'
<1>0. BusTypeInv
  BY DEF AllReady
<1>1. address'[s] = address[s]
  BY <1>0, AllHear
<1>2. ASSUME tx' = << >> PROVE Waiting(s)' = Waiting(s)
  BY <1>0, <1>2, AllHear
<1>3. ASSUME NEW f, tx' = <<f>>, f.fn = "read" PROVE Waiting(s)' = Waiting(s) \cup {f}
  BY <1>0, <1>3, AllHear
<1>4. \A g \in Waiting(s)' : g \in Waiting(s) \/ ~(g.fn = "write" /\ Dev!Adopts(s, g))
  BY <1>2, <1>3
<1> QED BY <1>1, <1>4, SettledStays

LEMMA FollowedQuiet ==
    ASSUME AllReady, FaultsOK, MasterStep, clean', list' = list,
           tx' = << >> \/ \E f : tx' = <<f>> /\ f.fn = "read",
           NEW s \in Slave, Settled(s) \/ s \notin Taken
    PROVE  Settled(s)' \/ s \notin Taken'
<1>1. Records' = Records
  BY DEF Records
<1>2. Taken' = Taken
  BY TakenHeard
<1> QED BY <1>1, <1>2, SettledQuiet

LEMMA CompleteStart ==
    ASSUME AddressInv, MasterStep, do_state_start, Cleared'
    PROVE  Complete'
<1>1. Taken' = {}
  BY NoneTaken
<1>2. \A s \in Slave : Followed(s)'
  BY <1>1 DEF Followed
<1>3. state' = "REPEAT" /\ quiet' = 0
  BY DEF do_state_start
<1> QED BY <1>2, <1>3 DEF Complete, QueryAnswered, VerifyAnswers

LEMMA CompleteRepeat ==
    ASSUME Wired, AddressInv, MasterStep, do_state_repeat, clean', Complete
    PROVE  Complete'
<1>0. AllReady /\ BusTypeInv /\ TypeInv /\ FaultsOK
  BY DEF AddressInv, AllReady, BusTypeInv
<1> DEFINE query == QueryFrame(PA_DISCO_ADDR, ZeroSerial)
<1>1. /\ state = "REPEAT" /\ list' = list
      /\ \/ state' = "WAIT" /\ tx' = <<query>>
         \/ state' = "FINISH" /\ tx' = << >>
  BY <1>0, RepeatMoves
<1>2. quiet' = quiet
  BY DEF do_state_repeat
<1>3. tx' = << >> \/ \E f : tx' = <<f>> /\ f.fn = "read"
  BY <1>1, RequestsKnown
<1>4. \A s \in Slave : Followed(s)'
  <2> SUFFICES ASSUME NEW s \in Slave PROVE Settled(s)' \/ s \notin Taken'
    BY DEF Followed
  <2>1. Settled(s) \/ s \notin Taken
    BY <1>1 DEF Complete, Followed
  <2> QED BY <1>0, <1>1, <1>3, <2>1, FollowedQuiet
<1>5. quiet' > 0 => \A s \in Slave : Settled(s)'
  <2>1. Records' = Records
    BY <1>1 DEF Records
  <2> QED BY <1>0, <1>2, <1>3, <2>1, SettledQuiet DEF Complete
<1>6. QueryAnswered'
  <2> SUFFICES ASSUME state' = "WAIT", NEW s \in Slave PROVE QueryDue(s)'
    BY DEF QueryAnswered
  <2> DEFINE q == srx[s]
             r == srx'[s]
  <2>1. q \in Seq(RequestType)
    BY <1>0, SlaveTypes
  <2>2. tx' = <<query>>
    BY <1>1
  <2> HIDE DEF query
  <2>3. r = q \o <<query>>
    BY <1>0, <2>2, AllHear
  <2> HIDE DEF q, r
  <2>4. r # << >> /\ r[Len(r)] = query
    BY <2>1, <2>3, Appended
  <2> QED BY <2>4 DEF QueryDue, r, query
<1> QED BY <1>1, <1>4, <1>5, <1>6 DEF Complete, VerifyAnswers

LEMMA CompleteWait ==
    ASSUME Wired, AddressInv, CountInv, Tuned, MasterStep, do_state_wait,
           Searching, Cleared, Ample, clean', Complete
    PROVE  Complete'
<1>0. /\ AllReady /\ BusTypeInv /\ TypeInv /\ FaultsOK /\ VerifyPhase
      /\ rx \in Seq(ResponseType)
  BY DEF AddressInv, AllReady, BusTypeInv, TypeInv, TypeOK, DataOK
<1>1. /\ state = "WAIT" /\ slave_id' = HeardId /\ rsp_serialno' = HeardSerial
      /\ received' = Heard /\ list' = list /\ verify_sent' = verify_sent
  BY <1>0, WaitMoves
<1>2. ~verify_sent
  BY <1>0, <1>1 DEF VerifyPhase
<1>3. ~Heard => ~received /\ rx = << >>
  BY <1>1 DEF Heard, Arrived, RecvOK, Accepts, Tuned
<1>4. \A s \in Slave : Settled(s) \/ s \notin Taken
  BY <1>1 DEF Complete, Followed
<1>5. Records' = Records
  BY <1>1 DEF Records
<1>6. CASE state' = "WAIT" /\ tx' = << >> /\ rx' = LeftInRx
  <2>1. \A s \in Slave : Settled(s)' \/ s \notin Taken'
    BY <1>0, <1>1, <1>4, <1>6, FollowedQuiet
  <2>2. quiet' = quiet
    BY <1>6 DEF do_state_wait, KeepWaiting, AssignHeard, NobodyAnswered
  <2>3. quiet' > 0 => \A s \in Slave : Settled(s)'
    BY <1>0, <1>5, <1>6, <2>2, SettledQuiet DEF Complete
  <2>4. QueryAnswered'
    <3> SUFFICES ASSUME ~Heard, NEW s \in Slave PROVE s \in Taken' \/ QueryDue(s)'
      BY <1>1 DEF QueryAnswered
    <3>1. s \in Taken \/ QueryDue(s)
      BY <1>1, <1>3 DEF Complete, QueryAnswered
    <3>2. Taken' = Taken
      BY <1>0, <1>6, TakenHeard
    <3>3. srx'[s] = srx[s] /\ delay'[s] = delay[s]
      BY <1>0, <1>6, MasterHeard
    <3> QED BY <3>1, <3>2, <3>3 DEF QueryDue, Dev!NoDelay
  <2> QED BY <1>6, <2>1, <2>3, <2>4 DEF Complete, Followed, VerifyAnswers
<1>7. CASE state' = "REPEAT" /\ ~Heard /\ tx' = << >>
  <2>1. WindowClosed
    BY <1>1, <1>7 DEF do_state_wait, KeepWaiting, AssignHeard, NobodyAnswered
  <2>2. ASSUME NEW s \in Slave PROVE Settled(s)
    <3>1. Stage(s)
      BY <1>0, <1>1 DEF AllReady, Ready
    <3>2. Idle(s)
      BY <1>0, <2>1, <3>1, WindowsOver DEF Wired
    <3>3. ~QueryDue(s)
      BY <3>2 DEF Idle, Attentive, QueryDue
    <3>4. s \in Taken
      BY <1>1, <1>3, <1>7, <3>3 DEF Complete, QueryAnswered
    <3> QED BY <1>4, <3>4
  <2>3. \A s \in Slave : Settled(s)'
    BY <1>0, <1>5, <1>7, <2>2, SettledQuiet
  <2> QED BY <1>7, <2>3 DEF Complete, Followed, QueryAnswered, VerifyAnswers
<1>8. CASE /\ state' = "VERIFY" /\ Heard /\ NobodyWaits
           /\ tx' = <<AssignFrame(PA_DISCO_ADDR, HeardId, HeardSerial)>>
  <2>1. FromOpen(HeardSerial)
    BY <1>0, <1>1, <1>8, HeardCounts
  <2>2. PICK s \in Slave \ Taken : self_serialno[s] = HeardSerial
    BY <2>1 DEF FromOpen
  <2> DEFINE f == AssignFrame(PA_DISCO_ADDR, HeardId, HeardSerial)
  <2>3. Assignment' = f
    BY <1>1 DEF Assignment
  <2>4. f.slave_id = HeardId /\ f.serialno = HeardSerial /\ HeardSerial # ZeroSerial
    BY <2>2, SlaveAssumption, RequestsKnown
  <2> HIDE DEF f
  <2>5. tx' = <<f>>
    BY <1>8 DEF f
  <2>6. \A t \in Slave : Waiting(t)' = Waiting(t) \cup {f} /\ address'[t] = address[t]
    BY <1>0, <2>5, AllHear
  <2>7. Verified(s)'
    BY <1>1, <1>2, <2>3, <2>6 DEF Verified
  <2>8. ASSUME NEW t \in Slave, t # s PROVE Followed(t)'
    <3>1. ~Dev!Adopts(t, f)
      BY <2>2, <2>4, <2>8, SlaveAssumption DEF Dev!Adopts
    <3>2. CASE Settled(t)
      BY <1>5, <2>6, <3>1, <3>2, SettledStays DEF Followed
    <3>3. CASE t \notin Taken
      <4>1. \A id : MayHave(t, id)' => MayHave(t, id)
        BY <1>0, <2>5, <3>1, AssignmentGives
      <4> QED BY <3>3, <4>1 DEF Followed, Taken, Byte
    <3> QED BY <1>4, <3>2, <3>3
  <2>9. Followed(s)'
    BY <1>1, <1>8, <2>2, <2>7 DEF Followed
  <2>10. ~(quiet' > 0)
    <3>1. quiet' = quiet
      BY <1>8 DEF do_state_wait, KeepWaiting, AssignHeard, NobodyAnswered
    <3>2. ~Settled(s)
      BY <1>0, <2>2, SettledTaken
    <3> QED BY <3>1, <3>2 DEF Complete
  <2>11. VerifyAnswers'
    BY <1>1, <1>2, <2>2, <2>7 DEF VerifyAnswers
  <2> QED BY <1>8, <2>8, <2>9, <2>10, <2>11 DEF Complete, QueryAnswered
<1>9. \/ state' = "WAIT" /\ tx' = << >> /\ rx' = LeftInRx
      \/ /\ state' = "VERIFY" /\ Heard /\ NobodyWaits
         /\ tx' = <<AssignFrame(PA_DISCO_ADDR, HeardId, HeardSerial)>>
      \/ state' = "REPEAT" /\ ~Heard /\ tx' = << >>
  BY <1>0, WaitMoves, Zenon
<1> QED BY <1>6, <1>7, <1>8, <1>9, Zenon

\* What the receiver holds during a verification is accepted, and confirms.
LEMMA VerifyHeard ==
    ASSUME Wired, AllReady, VerifyPhase, VerifyAnswers, do_state_verify, verify_sent
    PROVE  /\ rx # << >> => RecvOK /\ ~verify_sent' /\ state' = "REPEAT" /\ update_slave_list
           /\ rx = << >> => list' = list /\ rx' = << >>
<1>0. rx \in Seq(ResponseType)
  BY DEF AllReady, BusTypeInv, TypeInv, TypeOK, DataOK
<1>1. state = "VERIFY" /\ pam_slave = slave_id /\ PollVerify
  BY DEF do_state_verify, SendVerify, VerifyPhase
<1>2. CASE rx # << >>
  <2>1. 1 \in 1 .. Len(rx) /\ Head(rx) = rx[1]
    BY <1>0, <1>2
  <2>2. RecvOK
    BY <1>1, <1>2, <2>1 DEF VerifyAnswers, RecvOK, Accepts
  <2>3. VerifyConfirmed
    BY <1>1, <2>2 DEF PollVerify, VerifyTimedOut, VerifyPending
  <2> QED BY <1>2, <2>2, <2>3 DEF VerifyConfirmed
<1>3. CASE rx = << >>
  <2>1. ~RecvOK
    BY <1>3 DEF RecvOK
  <2>2. UNCHANGED listVars /\ rx' = RecvRest
    BY <1>1, <2>1 DEF PollVerify, VerifyConfirmed, VerifyTimedOut, VerifyPending
  <2> QED BY <1>3, <2>2 DEF listVars, RecvRest
<1> QED BY <1>2, <1>3

\* A response of the slave that is being verified came after it took its
\* address and the verify read.
LEMMA VerifiedAnswered ==
    ASSUME AllReady, Trusted, SearchInv, slave_id # PA_DISCO_ADDR,
           state = "VERIFY", verify_sent, rx # << >>,
           NEW s \in Slave, self_serialno[s] = rsp_serialno, Verified(s)
    PROVE  address[s] = slave_id /\ Waiting(s) = {}
<1>1. ASSUME address[s] = slave_id \/ Assignment \in Waiting(s)
      PROVE  VerifyRead \notin Waiting(s)
  <2>1. Assignment.fn = "write" /\ Assignment.slave_id = slave_id /\ Dev!Adopts(s, Assignment)
    BY RequestsKnown DEF Assignment, Dev!Adopts
  <2>2. MayHave(s, slave_id)
    BY <1>1, <2>1 DEF MayHave, MayTake
  <2>3. \A f \in Waiting(s) : f.fn = "write"
    BY <2>2 DEF SearchInv, Answered
  <2>4. VerifyRead.fn = "read"
    BY RequestsKnown DEF VerifyRead
  <2> QED BY <2>3, <2>4
<1> QED BY <1>1 DEF Verified

LEMMA CompleteVerify ==
    ASSUME Wired, AddressInv, CountInv, MasterStep, do_state_verify,
           Searching, Cleared, Ample, clean', Complete, ~AllocMayFail
    PROVE  Complete'
<1>0. /\ AllReady /\ BusTypeInv /\ TypeInv /\ FaultsOK /\ VerifyPhase /\ ListInv /\ SearchInv
      /\ Numbered /\ \A s \in Slave : Frames(s)
  BY DEF AddressInv, AllReady, BusTypeInv
<1>1. /\ UNCHANGED <<slave_id, rsp_serialno, quiet>> /\ state = "VERIFY"
      /\ state' \in {"VERIFY", "REPEAT"}
      /\ tx' = << >> \/ tx' = <<VerifyRead>>
  BY <1>0, VerifyMoves DEF do_state_verify, roundVars
<1>2. tx' = << >> \/ \E f : tx' = <<f>> /\ f.fn = "read"
  BY <1>1, RequestsKnown DEF VerifyRead
<1>3. Trusted /\ slave_id # PA_DISCO_ADDR
  <2>1. slave_id < PA_DISCO_ADDR
    BY <1>0, CounterLow
  <2>2. slave_id \in Nat
    BY <1>0, WidthAssumption DEF BusTypeInv, TypeInv, TypeOK, DataOK, Byte
  <2> QED BY <2>1, <2>2 DEF CountInv, Trusted, Searching
<1>4. PICK s \in Slave : self_serialno[s] = rsp_serialno /\ Verified(s)
  BY <1>1 DEF Complete, VerifyAnswers
<1>5. \A t \in Slave : t # s => Settled(t) \/ t \notin Taken
  <2> SUFFICES ASSUME NEW t \in Slave, t # s PROVE Settled(t) \/ t \notin Taken
    OBVIOUS
  <2>1. self_serialno[t] # rsp_serialno
    BY <1>4, SlaveAssumption
  <2> QED BY <2>1 DEF Complete, Followed
<1>6. VerifyRead' = VerifyRead /\ Assignment' = Assignment
  BY <1>1 DEF VerifyRead, Assignment
<1>7. /\ address'[s] = address[s]
      /\ tx' = << >> => Waiting(s)' = Waiting(s)
      /\ tx' = <<VerifyRead>> => Waiting(s)' = Waiting(s) \cup {VerifyRead}
  BY <1>0, AllHear
<1>8. ASSUME list' = list, Followed(s)', state' = "VERIFY" => VerifyAnswers'
      PROVE  Complete'
  <2>1. \A t \in Slave : t # s => Followed(t)'
    BY <1>0, <1>2, <1>5, <1>8, FollowedQuiet DEF Followed
  <2>2. quiet' > 0 => \A t \in Slave : Settled(t)'
    <3>1. Records' = Records
      BY <1>8 DEF Records
    <3> QED BY <1>0, <1>1, <1>2, <3>1, SettledQuiet DEF Complete
  <2> QED BY <1>1, <1>8, <2>1, <2>2 DEF Complete, QueryAnswered, VerifyAnswers
<1>9. ASSUME list' = list, verify_sent', rx' = << >>, state' = "VERIFY", Verified(s)' PROVE Complete'
  <2>1. Followed(s)'
    BY <1>1, <1>4, <1>9 DEF Followed
  <2>2. VerifyAnswers'
    <3>1. \A i \in 1 .. Len(rx') : FALSE
      BY <1>9
    <3> QED BY <1>1, <1>4, <1>9, <3>1 DEF VerifyAnswers
  <2> QED BY <1>8, <1>9, <2>1, <2>2
<1>10. CASE ~verify_sent
  <2>1. verify_sent' /\ state' = "VERIFY" /\ tx' = <<VerifyRead>> /\ rx' = << >> /\ list' = list
    BY <1>0, <1>10, VerifyMoves
  <2>2. address[s] = slave_id \/ Assignment \in Waiting(s)
    BY <1>4, <1>10 DEF Verified
  <2>3. Verified(s)'
    BY <1>1, <1>6, <1>7, <2>1, <2>2 DEF Verified
  <2> QED BY <1>9, <2>1, <2>3
<1>11. CASE verify_sent /\ rx = << >>
  <2>1. list' = list /\ rx' = << >> /\ ~RecvOK
    BY <1>0, <1>11, VerifyHeard DEF Complete, RecvOK
  <2>2. VerifyRead \in Waiting(s) /\ (address[s] = slave_id \/ Assignment \in Waiting(s))
    BY <1>4, <1>11 DEF Verified
  <2>3. ~NobodyWaits
    BY <2>2, NothingWaits DEF NobodyWaits
  <2>4. verify_sent' /\ state' = "VERIFY" /\ tx' = << >>
    BY <1>0, <1>11, <2>1, <2>3, VerifyMoves
  <2>5. Verified(s)'
    BY <1>1, <1>6, <1>7, <2>2, <2>4 DEF Verified
  <2> QED BY <1>9, <2>1, <2>4, <2>5
<1>12. CASE verify_sent /\ rx # << >>
  <2>1. ~verify_sent' /\ state' = "REPEAT" /\ update_slave_list
    BY <1>0, <1>12, VerifyHeard DEF Complete
  <2>2. tx' = << >>
    BY <1>0, <1>12, <2>1, VerifyMoves
  <2>3. address[s] = slave_id /\ Waiting(s) = {}
    BY <1>0, <1>1, <1>3, <1>4, <1>12, VerifiedAnswered
  <2> DEFINE rec == pa_disco_slave_new(slave_id, rsp_serialno)
  <2>4. rec.serialno = rsp_serialno /\ rec = [slave_id |-> slave_id, serialno |-> rsp_serialno]
    BY DEF pa_disco_slave_new
  <2>5. Records' = {r \in Records : r.serialno # rec.serialno} \cup {rec}
    <3>1. FALSE \notin AllocOutcomes
      BY DEF AllocOutcomes
    <3> QED BY <1>0, <2>1, <3>1, RecordsUpdated
  <2> HIDE DEF rec
  <2>6. Settled(s)'
    <3>1. address'[s] = slave_id /\ Waiting(s)' = {} /\ slave_id # 0
      BY <1>0, <1>1, <1>7, <2>2, <2>3 DEF Numbered
    <3>2. Listed(s)'
      BY <1>4, <2>4, <2>5, <3>1 DEF Listed, Records
    <3> QED BY <3>1, <3>2 DEF Settled
  <2>7. ASSUME NEW t \in Slave, t # s, Settled(t) PROVE Settled(t)'
    <3>1. self_serialno[t] # rsp_serialno
      BY <1>4, <2>7, SlaveAssumption
    <3>2. address'[t] = address[t] /\ Waiting(t)' = Waiting(t)
      BY <1>0, <2>2, AllHear
    <3>3. [slave_id |-> address[t], serialno |-> self_serialno[t]] \in Records
      BY <2>7 DEF Settled, Listed, Records
    <3>4. [slave_id |-> address[t], serialno |-> self_serialno[t]] \in Records'
      BY <2>4, <2>5, <3>1, <3>3
    <3>5. Listed(t)'
      BY <3>2, <3>4 DEF Listed, Records
    <3> QED BY <2>7, <3>2, <3>5 DEF Settled, Dev!Adopts
  <2>8. ASSUME NEW t \in Slave, t # s, t \notin Taken PROVE t \notin Taken'
    BY <1>0, <1>2, <2>8, TakenHeard
  <2>9. \A t \in Slave : Followed(t)'
    BY <1>5, <2>6, <2>7, <2>8 DEF Followed
  <2>10. quiet' > 0 => \A t \in Slave : Settled(t)'
    BY <1>1, <2>6, <2>7 DEF Complete
  <2> QED BY <2>1, <2>9, <2>10 DEF Complete, QueryAnswered, VerifyAnswers
<1> QED BY <1>10, <1>11, <1>12

LEMMA CompleteStep ==
    ASSUME Wired, AddressInv, CountInv, Tuned, CompleteInv, [BusNext]_busVars
    PROVE  CompleteInv'
<1>1. CASE ~MasterStep
  BY <1>1, CompleteOthers
<1>2. CASE MasterStep
  <2> SUFFICES ASSUME Searching', clean', Cleared', Ample', ~AllocMayFail
               PROVE  Complete'
    BY DEF CompleteInv
  <2>0. FaultsOK /\ BusTypeInv
    BY DEF AddressInv, AllReady
  <2>1. CASE do_state_start
    BY <1>2, <2>1, CompleteStart
  <2>2. ASSUME state # "START"
        PROVE  Searching /\ Cleared /\ Ample /\ Complete
    <3>1. Searching /\ clean /\ Cleared /\ Ample
      BY <2>0, <2>2, ClearKept
    <3> QED BY <3>1 DEF CompleteInv
  <2>3. CASE do_state_repeat
    <3>1. state = "REPEAT"
      BY <2>3 DEF do_state_repeat
    <3> QED BY <1>2, <2>2, <2>3, <3>1, CompleteRepeat
  <2>4. CASE do_state_wait
    <3>1. state = "WAIT"
      BY <2>4 DEF do_state_wait
    <3> QED BY <1>2, <2>2, <2>4, <3>1, CompleteWait
  <2>5. CASE do_state_verify
    <3>1. state = "VERIFY"
      BY <2>5 DEF do_state_verify
    <3> QED BY <1>2, <2>2, <2>5, <3>1, CompleteVerify
  <2>6. CASE do_state_idle \/ do_state_reset_start \/ do_state_reset_repeat \/ do_state_reset_wait
                \/ do_state_finish
    <3>1. state' \notin {"REPEAT", "WAIT", "VERIFY", "FINISH"}
      BY <2>6 DEF do_state_idle, do_state_reset_start, do_state_reset_repeat, do_state_reset_wait,
                  do_state_finish
    <3> QED BY <3>1 DEF Searching
  <2> QED BY <1>2, <2>1, <2>3, <2>4, <2>5, <2>6 DEF MasterStep, pa_disco_master_service
<1> QED BY <1>1, <1>2

LEMMA TunedStep ==
    ASSUME Tuned, [BusNext]_busVars
    PROVE  Tuned'
<1>1. CASE ~MasterStep
  BY <1>1, OthersKeepMaster DEF Tuned
<1>2. CASE MasterStep
  <2>1. CASE do_state_repeat
    <3>1. state' = "WAIT" => pam_slave' = QueryFrame(PA_DISCO_ADDR, ZeroSerial).dst
      BY <2>1 DEF do_state_repeat, Send
    <3> QED BY <3>1 DEF Tuned, QueryFrame, Request
  <2>2. CASE do_state_wait
    <3>1. state = "WAIT" /\ (state' = "WAIT" => pam_slave' = pam_slave)
      BY <2>2 DEF do_state_wait, KeepWaiting, AssignHeard, NobodyAnswered, NoTransmission,
                  Assigned, NotAssigned
    <3> QED BY <3>1 DEF Tuned
  <2>3. CASE ~do_state_repeat /\ ~do_state_wait
    <3>1. state' # "WAIT"
      BY <1>2, <2>3 DEF MasterStep, pa_disco_master_service, do_state_idle, do_state_start,
                        do_state_verify, SendVerify, PollVerify, VerifyConfirmed, VerifyTimedOut,
                        VerifyPending, VerifyFailed, do_state_reset_start, do_state_reset_repeat,
                        do_state_reset_wait, do_state_finish
    <3> QED BY <3>1 DEF Tuned
  <2> QED BY <2>1, <2>2, <2>3
<1> QED BY <1>1, <1>2

LEMMA NoWasteStep ==
    ASSUME Wired, NoWaste, [BusNext]_busVars
    PROVE  NoWaste'
<1> SUFFICES ASSUME Searching' PROVE wasted' = 0
  BY DEF NoWaste
<1>1. CASE ~MasterStep
  <2>1. state' = state /\ wasted' = wasted
    BY <1>1 DEF BusNext, BusReset, pa_disco_master_reset, BusTick, Tick, SlaveStep, SlaveRestart,
                busVars, vars, ctxVars, roundVars
  <2> QED BY <2>1 DEF NoWaste, Searching
<1>2. CASE MasterStep
  <2>1. CASE do_state_start
    BY <2>1 DEF do_state_start
  <2>2. CASE do_state_repeat
    <3>1. \A sent \in SendOutcomes : sent = TRUE
      BY AlwaysSent
    <3>2. state = "REPEAT" /\ wasted' = wasted
      BY <2>2, <3>1, Zenon DEF do_state_repeat
    <3> QED BY <3>2 DEF NoWaste, Searching
  <2>3. CASE do_state_wait
    <3>1. state = "WAIT" /\ (KeepWaiting \/ AssignHeard \/ NobodyAnswered)
      BY <2>3 DEF do_state_wait
    <3>2. AssignHeard => Assigned
      <4>1. \A sent \in SendOutcomes : sent = TRUE
        BY AlwaysSent
      <4> QED BY <4>1, Zenon DEF AssignHeard
    <3>3. wasted' = wasted
      BY <3>1, <3>2, Zenon DEF KeepWaiting, NobodyAnswered, Assigned
    <3> QED BY <3>1, <3>3 DEF NoWaste, Searching
  <2>4. CASE do_state_verify
    <3>1. state = "VERIFY" /\ wasted' = wasted
      BY <2>4 DEF do_state_verify, roundVars
    <3> QED BY <3>1 DEF NoWaste, Searching
  <2>5. CASE do_state_idle \/ do_state_reset_start \/ do_state_reset_repeat \/ do_state_reset_wait
                \/ do_state_finish
    <3>1. state' \notin {"REPEAT", "WAIT", "VERIFY", "FINISH"}
      BY <2>5 DEF do_state_idle, do_state_reset_start, do_state_reset_repeat, do_state_reset_wait,
                  do_state_finish
    <3> QED BY <3>1 DEF Searching
  <2> QED BY <1>2, <2>1, <2>2, <2>3, <2>4, <2>5 DEF MasterStep, pa_disco_master_service
<1> QED BY <1>1, <1>2

FoundInv == CounterInv /\ Tuned /\ NoWaste /\ CompleteInv

LEMMA FoundInvariant ==
    ASSUME Wired, SerialsAgree
    PROVE  BusSpec => []FoundInv
<1>1. BusInit => FoundInv
  <2> SUFFICES ASSUME BusInit PROVE FoundInv
    OBVIOUS
  <2>1. state = "IDLE" /\ CounterInv
    BY CounterInit DEF BusInit, Init
  <2> QED BY <2>1 DEF FoundInv, Tuned, NoWaste, CompleteInv, Searching
<1>2. FoundInv /\ [BusNext]_busVars => FoundInv'
  BY CounterStep, TunedStep, NoWasteStep, CompleteStep DEF FoundInv, CounterInv
<1> QED BY <1>1, <1>2, PTL DEF BusSpec

\* A cycle without faults ends with every slave on the list, at the address
\* that it has: for any number of slaves that there are addresses for, whatever
\* they remember, whenever each of them answers.
THEOREM NobodyMissed ==
    ASSUME Wired, SerialsAgree, ~AllocMayFail, Cardinality(Slave) < PA_DISCO_ADDR
    PROVE  BusSpec => []CompleteAtFinish
<1>1. FoundInv => CompleteAtFinish
  <2> SUFFICES ASSUME FoundInv, state = "FINISH", clean, repeat_cycles > 0,
                      reset_repeat_cycles > 0, NEW s \in Slave
               PROVE  Listed(s)
    BY DEF CompleteAtFinish
  <2>1. Searching /\ Cleared
    BY DEF Searching, Cleared
  <2>2. Ample
    <3>1. Spent = 0 /\ Cardinality(Slave) \in Nat /\ PA_DISCO_ADDR \in Int
      BY TakenTypes, WidthAssumption DEF Spent
    <3>2. Cardinality(Slave) + Spent < PA_DISCO_ADDR
      BY <3>1
    <3> QED BY <3>2 DEF Ample
  <2>3. Complete
    BY <2>1, <2>2 DEF FoundInv, CompleteInv
  <2>4. quiet > 0
    <3>1. TypeInv
      BY DEF FoundInv, CounterInv, AddressInv, AllReady, BusTypeInv
    <3>2. quiet + wasted = repeat_cycles /\ quiet \in Nat
      BY <3>1 DEF TypeInv, Conserved, TypeOK, CountersOK
    <3>3. wasted = 0
      BY <2>1 DEF FoundInv, NoWaste
    <3> QED BY <3>2, <3>3
  <2> QED BY <2>3, <2>4 DEF Complete, Settled
<1>2. BusSpec => []FoundInv
  BY FoundInvariant
<1> QED BY <1>1, <1>2, PTL
==============================================================================
