-------------------------- MODULE DiscoCycleProofs --------------------------
(***************************************************************************)
(* DiscoMaster implements Discovery: proofs that the list of the master    *)
(* follows the abstract cycle, and that the application's picture of it,   *)
(* put together from notifications, is the list.                           *)
(***************************************************************************)
EXTENDS DiscoMasterProofs

------------------------------------------------------------------------------
(***************************************************************************)
(* What changes of the list look like from outside.                        *)
(***************************************************************************)
\* The set of records once one of them has changed its address: the record of
\* the same serial number is replaced (pa_disco_list_set_slave_id).
LEMMA RecordMoved ==
    ASSUME NEW l \in Seq(RecordType), NEW index \in 0 .. (Len(l) - 1), NEW id \in Byte,
           \A i, j \in 1 .. Len(l) : l[i].serialno = l[j].serialno => i = j
    PROVE  LET m   == pa_disco_list_set_slave_id(l, index, id)
               rec == pa_disco_slave_new(id, l[index + 1].serialno)
           IN  {m[i] : i \in 1 .. Len(m)}
                  = {r \in {l[i] : i \in 1 .. Len(l)} : r.serialno # rec.serialno} \cup {rec}
<1> DEFINE m   == pa_disco_list_set_slave_id(l, index, id)
           rec == pa_disco_slave_new(id, l[index + 1].serialno)
<1>1. /\ Len(m) = Len(l)
      /\ \A i \in 1 .. Len(l) :
            m[i] = IF i = index + 1 THEN pa_disco_slave_new(id, l[i].serialno) ELSE l[i]
  BY SetSlaveId
<1>2. index + 1 \in 1 .. Len(l) /\ rec.serialno = l[index + 1].serialno
  BY DEF pa_disco_slave_new
<1> HIDE DEF m
<1>3. m[index + 1] = rec
  BY <1>1, <1>2
<1>4. \A i \in 1 .. Len(l) : i # index + 1 => m[i] = l[i] /\ l[i].serialno # rec.serialno
  BY <1>1, <1>2
<1> HIDE DEF rec
<1> QED BY <1>1, <1>2, <1>3, <1>4 DEF m, rec

\* The set of records once an unknown serial number is appended.
LEMMA RecordAdded ==
    ASSUME NEW l \in Seq(RecordType), NEW rec \in RecordType,
           \A i \in 1 .. Len(l) : l[i].serialno # rec.serialno
    PROVE  LET m == Append(l, rec)
           IN  {m[i] : i \in 1 .. Len(m)}
                  = {r \in {l[i] : i \in 1 .. Len(l)} : r.serialno # rec.serialno} \cup {rec}
<1> DEFINE m == Append(l, rec)
<1>1. /\ Len(m) = Len(l) + 1
      /\ \A i \in 1 .. Len(l) : m[i] = l[i]
      /\ m[Len(l) + 1] = rec
  OBVIOUS
<1> HIDE DEF m
<1>2. Len(l) \in Nat
  OBVIOUS
<1>3. ASSUME NEW i \in 1 .. Len(m)
      PROVE  m[i] \in {r \in {l[j] : j \in 1 .. Len(l)} : r.serialno # rec.serialno} \cup {rec}
  <2>1. CASE i = Len(l) + 1
    BY <1>1, <2>1
  <2>2. CASE i # Len(l) + 1
    <3>1. i \in 1 .. Len(l)
      BY <1>1, <1>2, <2>2
    <3> QED BY <1>1, <3>1
  <2> QED BY <2>1, <2>2
<1>4. ASSUME NEW i \in 1 .. Len(l) PROVE l[i] \in {m[j] : j \in 1 .. Len(m)}
  <2>1. i \in 1 .. Len(m) /\ m[i] = l[i]
    BY <1>1, <1>2
  <2> QED BY <2>1
<1>5. rec \in {m[j] : j \in 1 .. Len(m)}
  <2>1. Len(l) + 1 \in 1 .. Len(m)
    BY <1>1, <1>2
  <2> QED BY <1>1, <2>1
<1> QED BY <1>3, <1>4, <1>5 DEF m

\* update_slave_list puts the record of the assignment in the place of any
\* older one of the same slave, or leaves the list as it is for want of memory.
LEMMA RecordsUpdated ==
    ASSUME TypeInv, ListInv, update_slave_list
    PROVE  LET rec == pa_disco_slave_new(slave_id, rsp_serialno)
               new == {r \in Records : r.serialno # rec.serialno} \cup {rec}
           IN  \/ Records' = new /\ Notify(rec)
               \/ FALSE \in AllocOutcomes /\ list' = list
<1> DEFINE index == pa_disco_list_find_serialno(list, rsp_serialno)
           rec   == pa_disco_slave_new(slave_id, rsp_serialno)
           new   == {r \in Records : r.serialno # rec.serialno} \cup {rec}
<1>1. list \in Seq(RecordType) /\ slave_id \in Byte /\ rsp_serialno \in Serial
  BY DEF TypeInv, TypeOK, DataOK
<1>2. rec \in RecordType /\ rec.serialno = rsp_serialno
  BY <1>1 DEF pa_disco_slave_new, RecordType
<1>3. \/ index \in 0 .. (Len(list) - 1) /\ list[index + 1].serialno = rsp_serialno
      \/ index = -1 /\ \A i \in 1 .. Len(list) : list[i].serialno # rsp_serialno
  BY <1>1, FindSerialno
<1>4. \A i, j \in 1 .. Len(list) : list[i].serialno = list[j].serialno => i = j
  BY DEF ListInv, UniqueSerials
<1>5. CASE index >= 0 /\ list' = pa_disco_list_set_slave_id(list, index, slave_id) /\ Notify(rec)
  <2>1. index \in 0 .. (Len(list) - 1) /\ rec = pa_disco_slave_new(slave_id, list[index + 1].serialno)
    BY <1>3, <1>5
  <2> HIDE DEF index, rec
  <2>2. Records' = new
    BY <1>1, <1>4, <1>5, <2>1, RecordMoved DEF Records
  <2> QED BY <1>5, <2>2 DEF rec
<1>6. CASE index < 0 /\ list' = Append(list, rec) /\ Notify(rec)
  <2>1. \A i \in 1 .. Len(list) : list[i].serialno # rec.serialno
    BY <1>2, <1>3, <1>6
  <2> HIDE DEF index, rec
  <2>2. Records' = new
    BY <1>1, <1>2, <1>6, <2>1, RecordAdded DEF Records
  <2> QED BY <1>6, <2>2 DEF rec
<1>7. CASE FALSE \in AllocOutcomes /\ list' = list
  BY <1>7
<1>8. \/ index >= 0 /\ list' = pa_disco_list_set_slave_id(list, index, slave_id) /\ Notify(rec)
      \/ index < 0 /\ list' = Append(list, rec) /\ Notify(rec)
      \/ FALSE \in AllocOutcomes /\ list' = list
  BY DEF update_slave_list, pa_disco_list_append, listVars, AllocOutcomes
<1> QED BY <1>5, <1>6, <1>7, <1>8
------------------------------------------------------------------------------
(***************************************************************************)
(* The steps of the master are steps of the cycle.                         *)
(***************************************************************************)
\* A slave that is being verified has an address: do_state_wait counts up
\* before it assigns, and inc_slave_id skips 0.
Numbered == state = "VERIFY" \/ (state = "WAIT" /\ received) => slave_id # 0

CycleInv == TypeInv /\ ListInv /\ Numbered

\* Handlers that leave the counter alone and do not enter WAIT or VERIFY with
\* a response in hand.
LEMMA NumberedKept ==
    ASSUME Numbered, slave_id' = slave_id,
           ~(state' = "VERIFY" \/ (state' = "WAIT" /\ received')) \/ UNCHANGED <<state, received>>
    PROVE  Numbered'
BY DEF Numbered

LEMMA NumberedService == CycleInv /\ pa_disco_master_service => Numbered'
<1> SUFFICES ASSUME CycleInv, pa_disco_master_service PROVE Numbered'
  OBVIOUS
<1> USE DEF CycleInv
<1>1. CASE do_state_wait
  <2>1. state = "WAIT" /\ slave_id' = HeardId /\ received' = Heard
    BY <1>1 DEF do_state_wait
  <2>2. state' \in {"WAIT", "REPEAT"} \/ (state' = "VERIFY" /\ Heard)
    BY <1>1 DEF do_state_wait, KeepWaiting, AssignHeard, NobodyAnswered, Assigned, NotAssigned
  <2>3. Heard => HeardId # 0
    BY <2>1, IncSlaveId DEF Heard, HeardId, Numbered, TypeInv, TypeOK, DataOK
  <2> QED BY <2>1, <2>2, <2>3 DEF Numbered
<1>2. CASE do_state_verify
  <2>1. UNCHANGED <<slave_id, received>> /\ (state' = "REPEAT" \/ state' = state)
    BY <1>2 DEF do_state_verify, SendVerify, PollVerify, VerifyConfirmed, VerifyTimedOut,
                VerifyPending, VerifyFailed, idVars, roundVars
  <2> QED BY <2>1, NumberedKept
<1>3. CASE do_state_start
  BY <1>3 DEF do_state_start, Numbered
<1>4. CASE do_state_repeat
  BY <1>4, NumberedKept DEF do_state_repeat, idVars
<1>5. CASE do_state_idle \/ do_state_reset_start \/ do_state_finish
  BY <1>5, NumberedKept DEF do_state_idle, do_state_reset_start, do_state_finish, idVars, roundVars
<1>6. CASE do_state_reset_repeat \/ do_state_reset_wait
  BY <1>6, NumberedKept DEF do_state_reset_repeat, do_state_reset_wait, idVars
<1> QED BY <1>1, <1>2, <1>3, <1>4, <1>5, <1>6 DEF pa_disco_master_service

LEMMA CycleInvariant == Spec => []CycleInv
<1>1. Init => Numbered
  BY DEF Init, Numbered
<1>2. CycleInv /\ [Next]_vars => Numbered'
  <2> SUFFICES ASSUME CycleInv, [Next]_vars PROVE Numbered'
    OBVIOUS
  <2>1. CASE pa_disco_master_service
    BY <2>1, NumberedService
  <2>2. CASE Environment \/ UNCHANGED vars
    <3>1. UNCHANGED <<slave_id, state, received>>
      BY <2>2 DEF Environment, pa_disco_master_reset, Tick, Deliver, OtherLock, OtherUnlock,
                  vars, ctxVars, idVars, roundVars
    <3> QED BY <3>1, NumberedKept DEF CycleInv
  <2> QED BY <2>1, <2>2 DEF Next
<1>3. Spec => [](TypeInv /\ ListInv)
  BY TypeInvariant, ListInvariant, PTL
<1> QED BY <1>1, <1>2, <1>3, PTL DEF Spec, CycleInv

cycleVars == <<CyclePhase, Records, wrapped>>

\* An answered verify read finds the slave, at an address that is fresh unless
\* the counter went round.
LEMMA ConfirmedFinds ==
    ASSUME CycleInv, state = "VERIFY", VerifyConfirmed, UNCHANGED <<slave_id, wrapped>>
    PROVE  [Cycle!Next]_cycleVars
<1> DEFINE rec == pa_disco_slave_new(slave_id, rsp_serialno)
<1>1. CyclePhase = "searching" /\ CyclePhase' = "searching"
  BY DEF CyclePhase, VerifyConfirmed
<1>2. slave_id \in Byte \ {0} /\ rsp_serialno \in Serial
  BY DEF CycleInv, Numbered, TypeInv, TypeOK, DataOK
<1>3. \/ Records' = {r \in Records : r.serialno # rec.serialno} \cup {rec}
      \/ list' = list
  BY RecordsUpdated DEF VerifyConfirmed, CycleInv
<1>4. wrapped \/ \A r \in Records : r.slave_id # slave_id
  <2>1. \A i \in 1 .. Len(list) : list[i].slave_id \in Byte
    BY ListedAddresses DEF CycleInv, TypeInv, TypeOK, DataOK
  <2>2. ~wrapped => \A i \in 1 .. Len(list) : list[i].slave_id # slave_id
    BY <1>2, <2>1 DEF CycleInv, ListInv, CounterAhead, Byte
  <2> QED BY <2>2 DEF Records
<1>5. rec = [slave_id |-> slave_id, serialno |-> rsp_serialno] /\ rec.serialno = rsp_serialno
  BY DEF pa_disco_slave_new
<1>6. CASE Records' = {r \in Records : r.serialno # rec.serialno} \cup {rec}
  <2>1. Cycle!Find(rsp_serialno, slave_id)
    BY <1>1, <1>4, <1>5, <1>6 DEF Cycle!Find, Cycle!Others
  <2> QED BY <1>2, <2>1 DEF Cycle!Next
<1>7. CASE list' = list
  BY <1>1, <1>7 DEF cycleVars, Records
<1> QED BY <1>3, <1>6, <1>7

LEMMA ServiceFollowsCycle ==
    ASSUME CycleInv, pa_disco_master_service
    PROVE  [Cycle!Next]_cycleVars
<1>1. CASE do_state_idle
  BY <1>1 DEF do_state_idle, idVars, listVars, CyclePhase, Records, Cycle!Next, Cycle!Begin, cycleVars
<1>2. CASE do_state_reset_start
  BY <1>2 DEF do_state_reset_start, pa_disco_list_clear, idVars, CyclePhase, Records,
              Cycle!Next, Cycle!Forget
<1>3. CASE do_state_start
  BY <1>3 DEF do_state_start, listVars, CyclePhase, Records, Cycle!Next, Cycle!Search
<1>4. CASE do_state_finish
  BY <1>4 DEF do_state_finish, listVars, idVars, CyclePhase, Records, Cycle!Next, Cycle!Finish
<1>5. CASE do_state_wait
  <2>1. /\ CyclePhase = "searching" /\ CyclePhase' = "searching"
        /\ Records' = Records
        /\ wrapped' = (wrapped \/ HeardId < slave_id)
    BY <1>5 DEF do_state_wait, KeepWaiting, AssignHeard, NobodyAnswered, Assigned, NotAssigned,
                listVars, CyclePhase, Records
  <2>2. wrapped' = wrapped \/ wrapped' = TRUE
    <3>1. wrapped \in BOOLEAN
      BY DEF CycleInv, TypeInv, TypeOK, FlagsOK
    <3> QED BY <2>1, <3>1, Zenon
  <2> QED BY <2>1, <2>2 DEF Cycle!Next, Cycle!Recycle, cycleVars
<1>6. CASE do_state_verify
  <2>1. state = "VERIFY" /\ UNCHANGED <<slave_id, wrapped>>
    BY <1>6 DEF do_state_verify, idVars
  <2>2. CASE VerifyConfirmed
    BY <2>1, <2>2, ConfirmedFinds
  <2>3. CASE ~VerifyConfirmed
    <3>1. list' = list /\ (state' = "REPEAT" \/ state' = state)
      BY <1>6, <2>3 DEF do_state_verify, SendVerify, PollVerify, VerifyTimedOut,
                        VerifyPending, VerifyFailed, listVars
    <3> QED BY <2>1, <3>1 DEF CyclePhase, Records, cycleVars
  <2> QED BY <2>2, <2>3
<1>7. CASE do_state_repeat
  BY <1>7 DEF do_state_repeat, listVars, idVars, CyclePhase, Records, cycleVars
<1>8. CASE do_state_reset_repeat
  BY <1>8 DEF do_state_reset_repeat, listVars, idVars, CyclePhase, Records, cycleVars
<1>9. CASE do_state_reset_wait
  BY <1>9 DEF do_state_reset_wait, listVars, idVars, CyclePhase, Records, cycleVars
<1> QED BY <1>1, <1>2, <1>3, <1>4, <1>5, <1>6, <1>7, <1>8, <1>9 DEF pa_disco_master_service

\* The discovery master implements Discovery: every handler call is a step of
\* the abstract cycle or changes nothing it shows.
THEOREM MasterImplementsDiscovery == Spec => ListFollowsCycle
<1>1. Init => Cycle!Init
  BY DEF Init, Cycle!Init, CyclePhase, Records, pa_disco_list_clear
<1>2. CycleInv /\ [Next]_vars => [Cycle!Next]_cycleVars
  <2> SUFFICES ASSUME CycleInv, [Next]_vars PROVE [Cycle!Next]_cycleVars
    OBVIOUS
  <2>1. CASE pa_disco_master_service
    BY <2>1, ServiceFollowsCycle
  <2>2. CASE Environment \/ UNCHANGED vars
    <3>1. UNCHANGED <<state, list, wrapped>>
      BY <2>2 DEF Environment, pa_disco_master_reset, Tick, Deliver, OtherLock, OtherUnlock,
                  vars, ctxVars, idVars, listVars
    <3> QED BY <3>1 DEF CyclePhase, Records, cycleVars
  <2> QED BY <2>1, <2>2 DEF Next
<1>3. CycleInv /\ [Next]_vars => [Cycle!Next]_Cycle!discoveryVars
  BY <1>2 DEF cycleVars, Cycle!discoveryVars
<1> QED BY <1>1, <1>3, CycleInvariant, PTL DEF Spec, ListFollowsCycle, Cycle!Spec

\* What Discovery promises therefore holds of the set of listed records, however
\* long the master runs.
THEOREM ListedOncePerCycle == Spec => []Cycle!OneRecordPerSlave
BY MasterImplementsDiscovery, Cycle!FoundOnce, PTL DEF ListFollowsCycle

------------------------------------------------------------------------------
(***************************************************************************)
(* The application's picture.                                              *)
(***************************************************************************)
\* As long as memory lasts, the application that listens to notify_cb knows
\* exactly the records of the list.
THEOREM NotificationsComplete ==
    ASSUME ~AllocMayFail
    PROVE  Spec => []AnnouncedIsListed
<1>1. Init => AnnouncedIsListed
  BY DEF Init, AnnouncedIsListed, pa_disco_list_clear
<1>2. CycleInv /\ AnnouncedIsListed /\ [Next]_vars => AnnouncedIsListed'
  <2> SUFFICES ASSUME CycleInv, AnnouncedIsListed, [Next]_vars,
                      "notify" \in Installed
               PROVE  announced' = Records'
    BY DEF AnnouncedIsListed, Records
  <2>1. announced = Records
    BY DEF AnnouncedIsListed, Records
  <2>2. ASSUME UNCHANGED listVars PROVE announced' = Records'
    BY <2>1, <2>2 DEF listVars, Records
  <2>3. CASE do_state_verify
    <3>1. CASE VerifyConfirmed
      <4> DEFINE rec == pa_disco_slave_new(slave_id, rsp_serialno)
      <4>1. /\ Records' = {r \in Records : r.serialno # rec.serialno} \cup {rec}
            /\ Notify(rec)
        BY <3>1, RecordsUpdated DEF VerifyConfirmed, CycleInv, AllocOutcomes
      <4> QED BY <2>1, <4>1 DEF Notify, Told
    <3>2. CASE ~VerifyConfirmed
      BY <2>2, <2>3, <3>2 DEF do_state_verify, SendVerify, PollVerify, VerifyTimedOut, VerifyPending
    <3> QED BY <3>1, <3>2
  <2>4. CASE do_state_reset_start
    BY <2>4 DEF do_state_reset_start, pa_disco_list_clear, Records
  <2>5. CASE do_state_idle \/ do_state_start \/ do_state_repeat \/ do_state_wait
    BY <2>2, <2>5 DEF do_state_idle, do_state_start, do_state_repeat, do_state_wait
  <2>6. CASE do_state_reset_repeat \/ do_state_reset_wait \/ do_state_finish
    BY <2>2, <2>6 DEF do_state_reset_repeat, do_state_reset_wait, do_state_finish
  <2>7. CASE Environment \/ UNCHANGED vars
    BY <2>2, <2>7 DEF Environment, pa_disco_master_reset, Tick, Deliver, OtherLock, OtherUnlock,
                      vars, ctxVars
  <2> QED BY <2>3, <2>4, <2>5, <2>6, <2>7 DEF Next, pa_disco_master_service
<1> QED BY <1>1, <1>2, CycleInvariant, PTL DEF Spec
==============================================================================
