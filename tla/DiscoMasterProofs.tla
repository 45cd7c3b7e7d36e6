-------------------------- MODULE DiscoMasterProofs --------------------------
(***************************************************************************)
(* Proofs about DiscoMaster, for every value of its constants that its     *)
(* assumptions allow.                                                      *)
(***************************************************************************)
EXTENDS DiscoMaster, WellFoundedInduction, TLAPS

USE SerialAssumption, WidthAssumption, SettingsAssumption, EnvironmentAssumption
    DEF Byte, Millis

------------------------------------------------------------------------------
(***************************************************************************)
(* What the helpers return.                                                *)
(***************************************************************************)
\* The frames the master builds are requests (broadcast_query, assign_slave,
\* reset_slaves, verify_slave_send).
LEMMA FrameTypes ==
    /\ QueryFrame(PA_DISCO_ADDR, ZeroSerial) \in RequestType
    /\ ResetFrame(PA_DISCO_ADDR, ZeroSerial) \in RequestType
    /\ \A id \in Byte : VerifyFrame(id, ZeroSerial) \in RequestType
    /\ \A id \in Byte, serial \in Serial :
           AssignFrame(PA_DISCO_ADDR, id, serial) \in RequestType
BY DEF QueryFrame, ResetFrame, VerifyFrame, AssignFrame, Request, RequestType,
       PA_DISCO_REG_START, PA_DISCO_REG_COUNT, PA_DISCO_VERIFY_REG, PA_DISCO_VERIFY_NREG

\* Where the frames are addressed to.
LEMMA FrameDst ==
    /\ QueryFrame(PA_DISCO_ADDR, ZeroSerial).dst = PA_DISCO_ADDR
    /\ ResetFrame(PA_DISCO_ADDR, ZeroSerial).dst = PA_DISCO_ADDR
    /\ \A id : VerifyFrame(id, ZeroSerial).dst = id
    /\ \A id, serial : AssignFrame(PA_DISCO_ADDR, id, serial).dst = PA_DISCO_ADDR
BY DEF QueryFrame, ResetFrame, VerifyFrame, AssignFrame, Request

\* A transmission leaves at most one request behind and a byte as the address.
LEMMA SendType ==
    ASSUME NEW f \in RequestType, NEW sent \in BOOLEAN, Send(f, sent)
    PROVE  /\ tx' \in Seq(RequestType) /\ Len(tx') =< 1
           /\ pam_slave' \in Byte
<1>1. f.dst \in Byte
  BY DEF RequestType
<1>2. CASE sent
  BY <1>1, <1>2 DEF Send
<1>3. CASE ~sent
  BY <1>1, <1>3 DEF Send
<1> QED BY <1>2, <1>3

\* Flushing and receiving leave responses behind.
LEMMA ReceiverTypes ==
    ASSUME rx \in Seq(ResponseType)
    PROVE  /\ RecvRest \in Seq(ResponseType)
           /\ \A frames \in Seq(ResponseType) : Flushed(frames) \in Seq(ResponseType)
           /\ RecvOK => Head(rx) \in ResponseType
<1>1. RecvRest \in Seq(ResponseType)
  BY DEF RecvRest
<1>2. ASSUME NEW frames \in Seq(ResponseType)
      PROVE  Flushed(frames) \in Seq(ResponseType)
  BY DEF Flushed
<1>3. RecvOK => Head(rx) \in ResponseType
  BY DEF RecvOK
<1> QED BY <1>1, <1>2, <1>3

\* get_ticks_cb, or its replacement, is a uint32_t.
LEMMA NowType == ticks \in Millis => Now \in Millis
BY DEF Now

\* The next address is never 0 and fits its byte; it is the successor unless
\* the counter goes round.
LEMMA IncSlaveId ==
    ASSUME slave_id \in Byte
    PROVE  /\ inc_slave_id \in Byte /\ inc_slave_id # 0
           /\ inc_slave_id = slave_id + 1 \/ inc_slave_id < slave_id
<1>1. CASE slave_id = IdModulus - 1
  BY <1>1 DEF inc_slave_id
<1>2. CASE slave_id # IdModulus - 1
  <2>1. slave_id + 1 \in 1 .. (IdModulus - 1)
    BY <1>2
  <2>2. (slave_id + 1) % IdModulus = slave_id + 1
    BY <2>1
  <2> QED BY <2>1, <2>2 DEF inc_slave_id
<1> QED BY <1>1, <1>2
------------------------------------------------------------------------------
(***************************************************************************)
(* Type correctness and the counters of the state machine.                 *)
(***************************************************************************)
\* The rounds of a cycle are conserved: what repeat still allows, plus the
\* rounds nobody answered, plus the ones lost to a failing transmission, is
\* repeat_cycles, one round being out while the master waits.  The verify
\* attempts are conserved the same way.
Conserved ==
    /\ state = "REPEAT" => repeat >= 0 /\ repeat + quiet + wasted = repeat_cycles
    /\ state = "WAIT"   => repeat >= 0 /\ repeat + 1 + quiet + wasted = repeat_cycles
    /\ state = "VERIFY" => repeat >= 0 /\ repeat + quiet + wasted = repeat_cycles
    /\ state = "FINISH" => quiet + wasted = repeat_cycles
    /\ state \in {"RESET_REPEAT", "RESET_WAIT"} => reset_repeat >= 0
    /\ verify_sent => state = "VERIFY"
    /\ state = "VERIFY" =>
          /\ verify_repeat >= 0
          /\ verifies + verify_repeat = verify_repeat_cycles + (IF verify_sent THEN 1 ELSE 0)

TypeInv == TypeOK /\ Conserved /\ VerifyBounded

LEMMA TypeInit == Init => TypeInv
<1> SUFFICES ASSUME Init PROVE TypeInv
  OBVIOUS
<1>1. CountersOK /\ ClocksOK /\ Conserved /\ VerifyBounded
  BY DEF Init, CountersOK, ClocksOK, Conserved, VerifyBounded
<1>2. FlagsOK
  BY Zenon DEF Init, FlagsOK
<1>3. DataOK
  BY DEF Init, DataOK, States, pa_disco_list_clear
<1> QED BY <1>1, <1>2, <1>3 DEF TypeInv, TypeOK

LEMMA TypeIdle ==
    ASSUME TypeInv, do_state_idle, gap' = 0, ticks' = ticks
    PROVE  TypeInv'
<1> USE DEF do_state_idle, Lock, NoTransmission, resetVars, verifyVars, roundVars, idVars, listVars
<1>1. CountersOK' /\ Conserved' /\ VerifyBounded'
  BY DEF TypeInv, TypeOK, CountersOK, FlagsOK, Conserved, VerifyBounded
<1>2. FlagsOK'
  BY Zenon DEF TypeInv, TypeOK, FlagsOK
<1>3. ClocksOK'
  BY DEF TypeInv, TypeOK, ClocksOK
<1>4. DataOK'
  BY DEF TypeInv, TypeOK, DataOK, States
<1> QED BY <1>1, <1>2, <1>3, <1>4 DEF TypeInv, TypeOK

LEMMA TypeStart ==
    ASSUME TypeInv, do_state_start, gap' = 0, ticks' = ticks
    PROVE  TypeInv'
<1> USE DEF do_state_start, NoTransmission, resetVars, verifyVars, listVars
<1>1. CountersOK' /\ Conserved' /\ VerifyBounded'
  BY DEF TypeInv, TypeOK, CountersOK, FlagsOK, Conserved, VerifyBounded
<1>2. FlagsOK'
  BY Zenon DEF TypeInv, TypeOK, FlagsOK
<1>3. ClocksOK'
  BY NowType DEF TypeInv, TypeOK, ClocksOK
<1>4. DataOK'
  BY DEF TypeInv, TypeOK, DataOK, States
<1> QED BY <1>1, <1>2, <1>3, <1>4 DEF TypeInv, TypeOK

LEMMA TypeRepeat ==
    ASSUME TypeInv, do_state_repeat, gap' = 0, ticks' = ticks
    PROVE  TypeInv'
<1> USE DEF do_state_repeat, NoTransmission, resetVars, verifyVars, idVars, listVars, requestVars
<1>1. CountersOK' /\ Conserved' /\ VerifyBounded'
  BY DEF TypeInv, TypeOK, CountersOK, FlagsOK, Conserved, VerifyBounded
<1>2. FlagsOK'
  BY Zenon DEF TypeInv, TypeOK, FlagsOK
<1>3. ClocksOK'
  BY NowType DEF TypeInv, TypeOK, ClocksOK
<1>4. DataOK'
  <2>1. CASE repeat - 1 >= 0
    <3>1. PICK sent \in SendOutcomes : Send(QueryFrame(PA_DISCO_ADDR, ZeroSerial), sent) /\ state' \in {"REPEAT", "WAIT"}
      BY <2>1
    <3>2. sent \in BOOLEAN
      BY DEF SendOutcomes
    <3>3. tx' \in Seq(RequestType) /\ Len(tx') =< 1 /\ pam_slave' \in Byte
      BY <3>1, <3>2, FrameTypes, SendType
    <3>4. rx' \in Seq(ResponseType)
      BY <2>1, ReceiverTypes DEF TypeInv, TypeOK, DataOK
    <3>5. UNCHANGED <<slave_id, rsp_serialno, list, announced, mutex, request>>
      OBVIOUS
    <3> HIDE DEF do_state_repeat
    <3> QED BY <3>1, <3>3, <3>4, <3>5 DEF TypeInv, TypeOK, DataOK, States
  <2>2. CASE repeat - 1 < 0
    <3>1. repeat - 1 \in Int /\ ~(repeat - 1 >= 0)
      BY <2>2 DEF TypeInv, TypeOK, CountersOK
    <3>2. state' = "FINISH" /\ tx' = << >>
      BY <3>1
    <3>3. UNCHANGED <<pam_slave, rx, slave_id, rsp_serialno, list, announced, mutex, request>>
      BY <3>1
    <3> HIDE DEF do_state_repeat
    <3> QED BY <3>2, <3>3 DEF TypeInv, TypeOK, DataOK, States
  <2> QED BY <2>1, <2>2 DEF TypeInv, TypeOK, CountersOK
<1> QED BY <1>1, <1>2, <1>3, <1>4 DEF TypeInv, TypeOK

LEMMA TypeResetStart ==
    ASSUME TypeInv, do_state_reset_start, gap' = 0, ticks' = ticks
    PROVE  TypeInv'
<1> USE DEF do_state_reset_start, NoTransmission, pa_disco_list_clear, verifyVars, roundVars, idVars, requestVars
<1>1. CountersOK' /\ Conserved' /\ VerifyBounded'
  BY DEF TypeInv, TypeOK, CountersOK, FlagsOK, Conserved, VerifyBounded
<1>2. FlagsOK'
  BY Zenon DEF TypeInv, TypeOK, FlagsOK
<1>3. ClocksOK'
  BY DEF TypeInv, TypeOK, ClocksOK
<1>4. DataOK'
  BY DEF TypeInv, TypeOK, DataOK, States
<1> QED BY <1>1, <1>2, <1>3, <1>4 DEF TypeInv, TypeOK

LEMMA TypeResetRepeat ==
    ASSUME TypeInv, do_state_reset_repeat, gap' = 0, ticks' = ticks
    PROVE  TypeInv'
<1> USE DEF do_state_reset_repeat, NoTransmission, verifyVars, roundVars, idVars, listVars, requestVars
<1>1. CountersOK' /\ Conserved' /\ VerifyBounded'
  BY DEF TypeInv, TypeOK, CountersOK, FlagsOK, Conserved, VerifyBounded
<1>2. FlagsOK'
  BY Zenon DEF TypeInv, TypeOK, FlagsOK
<1>3. ClocksOK'
  BY NowType DEF TypeInv, TypeOK, ClocksOK
<1>4. DataOK'
  <2>1. CASE reset_repeat - 1 >= 0
    <3>1. PICK sent \in SendOutcomes : Send(ResetFrame(PA_DISCO_ADDR, ZeroSerial), sent) /\ state' \in {"RESET_REPEAT", "RESET_WAIT"}
      BY <2>1
    <3>2. sent \in BOOLEAN
      BY DEF SendOutcomes
    <3>3. tx' \in Seq(RequestType) /\ Len(tx') =< 1 /\ pam_slave' \in Byte
      BY <3>1, <3>2, FrameTypes, SendType
    <3>4. rx' \in Seq(ResponseType)
      BY <2>1, ReceiverTypes DEF TypeInv, TypeOK, DataOK
    <3>5. UNCHANGED <<slave_id, rsp_serialno, list, announced, mutex, request>>
      OBVIOUS
    <3> HIDE DEF do_state_reset_repeat
    <3> QED BY <3>1, <3>3, <3>4, <3>5 DEF TypeInv, TypeOK, DataOK, States
  <2>2. CASE reset_repeat - 1 < 0
    <3>1. reset_repeat - 1 \in Int /\ ~(reset_repeat - 1 >= 0)
      BY <2>2 DEF TypeInv, TypeOK, CountersOK
    <3>2. state' = "START" /\ tx' = << >>
      BY <3>1
    <3>3. UNCHANGED <<pam_slave, rx, slave_id, rsp_serialno, list, announced, mutex, request>>
      BY <3>1
    <3> HIDE DEF do_state_reset_repeat
    <3> QED BY <3>2, <3>3 DEF TypeInv, TypeOK, DataOK, States
  <2> QED BY <2>1, <2>2 DEF TypeInv, TypeOK, CountersOK
<1> QED BY <1>1, <1>2, <1>3, <1>4 DEF TypeInv, TypeOK

LEMMA TypeResetWait ==
    ASSUME TypeInv, do_state_reset_wait, gap' = 0, ticks' = ticks
    PROVE  TypeInv'
<1> USE DEF do_state_reset_wait, NoTransmission, resetVars, verifyVars, roundVars, idVars, listVars, requestVars
<1>1. CountersOK' /\ Conserved' /\ VerifyBounded'
  BY DEF TypeInv, TypeOK, CountersOK, FlagsOK, Conserved, VerifyBounded
<1>2. FlagsOK'
  BY Zenon DEF TypeInv, TypeOK, FlagsOK
<1>3. ClocksOK'
  BY DEF TypeInv, TypeOK, ClocksOK
<1>4. DataOK'
  BY DEF TypeInv, TypeOK, DataOK, States
<1> QED BY <1>1, <1>2, <1>3, <1>4 DEF TypeInv, TypeOK

LEMMA TypeFinish ==
    ASSUME TypeInv, do_state_finish, gap' = 0, ticks' = ticks
    PROVE  TypeInv'
<1> USE DEF do_state_finish, NoTransmission, Unlock, resetVars, verifyVars, roundVars, idVars, listVars, requestVars
<1>1. CountersOK' /\ Conserved' /\ VerifyBounded'
  BY DEF TypeInv, TypeOK, CountersOK, FlagsOK, Conserved, VerifyBounded
<1>2. FlagsOK'
  BY Zenon DEF TypeInv, TypeOK, FlagsOK
<1>3. ClocksOK'
  BY NowType DEF TypeInv, TypeOK, ClocksOK
<1>4. DataOK'
  BY DEF TypeInv, TypeOK, DataOK, States
<1> QED BY <1>1, <1>2, <1>3, <1>4 DEF TypeInv, TypeOK

\* What do_state_wait makes of the response, or of none, is well typed.
LEMMA HeardTypes ==
    ASSUME TypeInv
    PROVE  /\ HeardId \in Byte
           /\ HeardSerial \in Serial
           /\ LeftInRx \in Seq(ResponseType)
<1>1. HeardId \in Byte
  BY IncSlaveId DEF HeardId, TypeInv, TypeOK, DataOK
<1>2. HeardSerial \in Serial
  BY ReceiverTypes DEF HeardSerial, Arrived, TypeInv, TypeOK, DataOK, ResponseType
<1>3. LeftInRx \in Seq(ResponseType)
  BY ReceiverTypes DEF LeftInRx, TypeInv, TypeOK, DataOK
<1> QED BY <1>1, <1>2, <1>3

LEMMA TypeWait ==
    ASSUME TypeInv, do_state_wait, gap' = 0, ticks' = ticks
    PROVE  TypeInv'
<1> USE DEF do_state_wait, resetVars, listVars, requestVars
<1>1. CountersOK' /\ Conserved' /\ VerifyBounded'
  <2> USE DEF TypeInv, TypeOK, CountersOK, FlagsOK, Conserved, VerifyBounded
  <2>1. CASE KeepWaiting
    BY <2>1 DEF KeepWaiting
  <2>2. CASE NobodyAnswered
    BY <2>2 DEF NobodyAnswered
  <2>3. CASE AssignHeard
    <3>1. quiet' = quiet /\ (Assigned \/ NotAssigned)
      BY <2>3 DEF AssignHeard
    <3>2. CASE Assigned
      BY <3>1, <3>2 DEF Assigned
    <3>3. CASE NotAssigned
      BY <3>1, <3>3 DEF NotAssigned
    <3> QED BY <3>1, <3>2, <3>3
  <2> QED BY <2>1, <2>2, <2>3
<1>2. FlagsOK'
  BY Zenon DEF TypeInv, TypeOK, FlagsOK, Heard, Arrived, RecvOK
<1>3. ClocksOK'
  BY DEF TypeInv, TypeOK, ClocksOK
<1>4. DataOK'
  <2>1. slave_id' \in Byte /\ rsp_serialno' \in Serial
    BY HeardTypes
  <2>2. UNCHANGED <<list, announced, mutex, request>>
    OBVIOUS
  <2>3. /\ state' \in {"WAIT", "VERIFY", "REPEAT"}
        /\ rx' \in Seq(ResponseType)
        /\ tx' \in Seq(RequestType) /\ Len(tx') =< 1 /\ pam_slave' \in Byte
    <3>1. CASE KeepWaiting
      BY <3>1, HeardTypes DEF KeepWaiting, NoTransmission, TypeInv, TypeOK, DataOK
    <3>2. CASE AssignHeard
      <4>1. PICK sent \in SendOutcomes :
               /\ Send(AssignFrame(PA_DISCO_ADDR, HeardId, HeardSerial), sent)
               /\ state' \in {"VERIFY", "REPEAT"}
        BY <3>2 DEF AssignHeard, Assigned, NotAssigned
      <4>2. sent \in BOOLEAN
        BY DEF SendOutcomes
      <4>3. AssignFrame(PA_DISCO_ADDR, HeardId, HeardSerial) \in RequestType
        BY FrameTypes, HeardTypes
      <4>4. tx' \in Seq(RequestType) /\ Len(tx') =< 1 /\ pam_slave' \in Byte
        BY <4>1, <4>2, <4>3, SendType
      <4>5. rx' \in Seq(ResponseType)
        BY <3>2, HeardTypes, ReceiverTypes DEF AssignHeard, TypeInv, TypeOK, DataOK
      <4> QED BY <4>1, <4>4, <4>5
    <3>3. CASE NobodyAnswered
      BY <3>3, HeardTypes DEF NobodyAnswered, NoTransmission, TypeInv, TypeOK, DataOK
    <3> QED BY <3>1, <3>2, <3>3
  <2> HIDE DEF do_state_wait
  <2> QED BY <2>1, <2>2, <2>3 DEF TypeInv, TypeOK, DataOK, States
<1> QED BY <1>1, <1>2, <1>3, <1>4 DEF TypeInv, TypeOK

\* The record that update_slave_list builds, and the list it leaves.
LEMMA FindSerialno ==
    ASSUME NEW l \in Seq(RecordType), NEW serial \in Serial
    PROVE  LET index == pa_disco_list_find_serialno(l, serial)
           IN  \/ /\ index \in 0 .. (Len(l) - 1)
                  /\ l[index + 1].serialno = serial
               \/ /\ index = -1
                  /\ \A i \in 1 .. Len(l) : l[i].serialno # serial
<1> DEFINE hits == {i \in 0 .. (Len(l) - 1) : l[i + 1].serialno = serial}
<1>1. CASE hits = {}
  <2>1. pa_disco_list_find_serialno(l, serial) = -1
    BY <1>1 DEF pa_disco_list_find_serialno
  <2>2. ASSUME NEW i \in 1 .. Len(l) PROVE l[i].serialno # serial
    <3>1. i - 1 \in 0 .. (Len(l) - 1) /\ (i - 1) + 1 = i
      OBVIOUS
    <3> QED BY <3>1, <1>1
  <2> QED BY <2>1, <2>2
<1>2. CASE hits # {}
  <2>1. PICK least \in hits : \A j \in hits : ~(<<j, least>> \in OpToRel(<, Nat))
    <3>1. hits \subseteq Nat
      OBVIOUS
    <3> HIDE DEF hits
    <3> QED BY <3>1, <1>2, NatLessThanWellFounded, WFMin
  <2>2. \A j \in hits : least =< j
    <3>1. SUFFICES ASSUME NEW j \in hits, ~(least =< j) PROVE FALSE
      OBVIOUS
    <3>2. j \in Nat /\ least \in Nat
      OBVIOUS
    <3> HIDE DEF hits
    <3>3. <<j, least>> \in Nat \X Nat /\ <<j, least>>[1] < <<j, least>>[2]
      BY <3>1, <3>2
    <3>4. <<j, least>> \in OpToRel(<, Nat)
      BY <3>3, Zenon DEF OpToRel
    <3> QED BY <2>1, <3>4
  <2>3. pa_disco_list_find_serialno(l, serial) \in hits
    BY <1>2, <2>2 DEF pa_disco_list_find_serialno
  <2> QED BY <2>3
<1> QED BY <1>1, <1>2

\* Changing the address of one record keeps the list's shape; all else stays.
LEMMA SetSlaveId ==
    ASSUME NEW l \in Seq(RecordType), NEW index \in 0 .. (Len(l) - 1), NEW id \in Byte
    PROVE  LET m == pa_disco_list_set_slave_id(l, index, id)
           IN  /\ m \in Seq(RecordType) /\ Len(m) = Len(l)
               /\ \A i \in 1 .. Len(l) :
                     m[i] = IF i = index + 1
                            THEN pa_disco_slave_new(id, l[i].serialno) ELSE l[i]
<1> DEFINE m == pa_disco_list_set_slave_id(l, index, id)
<1>1. m = [l EXCEPT ![index + 1].slave_id = id]
  BY DEF pa_disco_list_set_slave_id
<1>2. \A i \in 1 .. Len(l) : l[i] \in RecordType
  OBVIOUS
<1>3. index + 1 \in 1 .. Len(l) /\ 1 .. Len(l) = DOMAIN l
  OBVIOUS
<1>4. m = [i \in 1 .. Len(l) |->
              IF i = index + 1 THEN [l[i] EXCEPT !.slave_id = id] ELSE l[i]]
  BY <1>1, <1>3
<1>5. \A i \in 1 .. Len(l) :
         [l[i] EXCEPT !.slave_id = id] = pa_disco_slave_new(id, l[i].serialno)
  <2>1. ASSUME NEW r \in RecordType
        PROVE  [r EXCEPT !.slave_id = id] = [slave_id |-> id, serialno |-> r.serialno]
    <3>1. PICK x \in Byte, y \in Serial : r = [slave_id |-> x, serialno |-> y]
      BY DEF RecordType
    <3>2. [[slave_id |-> x, serialno |-> y] EXCEPT !.slave_id = id]
             = [slave_id |-> id, serialno |-> y]
      OBVIOUS
    <3> QED BY <3>1, <3>2
  <2> QED BY <1>2, <2>1 DEF pa_disco_slave_new
<1>6. \A i \in 1 .. Len(l) : pa_disco_slave_new(id, l[i].serialno) \in RecordType
  BY <1>2 DEF RecordType, pa_disco_slave_new
<1> HIDE DEF m
<1>7. \A i \in 1 .. Len(l) :
         m[i] = IF i = index + 1 THEN pa_disco_slave_new(id, l[i].serialno) ELSE l[i]
  BY <1>4, <1>5
<1>8. m \in Seq(RecordType) /\ Len(m) = Len(l)
  <2>1. m \in [1 .. Len(l) -> RecordType]
    BY <1>2, <1>4, <1>5, <1>6
  <2> QED BY <2>1
<1> QED BY <1>7, <1>8 DEF m

\* update_slave_list leaves a list of records, and tells of a record.
LEMMA UpdateTypes ==
    ASSUME TypeInv, update_slave_list
    PROVE  list' \in Seq(RecordType) /\ announced' \subseteq RecordType
<1> DEFINE index == pa_disco_list_find_serialno(list, rsp_serialno)
           rec   == pa_disco_slave_new(slave_id, rsp_serialno)
<1>1. /\ list \in Seq(RecordType) /\ announced \subseteq RecordType
      /\ slave_id \in Byte /\ rsp_serialno \in Serial
  BY DEF TypeInv, TypeOK, DataOK
<1>2. rec \in RecordType
  BY <1>1 DEF pa_disco_slave_new, RecordType
<1>3. index \in 0 .. (Len(list) - 1) \/ index = -1
  BY <1>1, FindSerialno
<1>4. CASE index >= 0 /\ list' = pa_disco_list_set_slave_id(list, index, slave_id) /\ Notify(rec)
  BY <1>1, <1>2, <1>3, <1>4, SetSlaveId DEF Notify, Told
<1>5. CASE /\ index < 0
           /\ \E realloced \in AllocOutcomes : list' = pa_disco_list_append(list, rec, realloced)
           /\ Notify(rec)
  <2>1. list' \in Seq(RecordType)
    BY <1>1, <1>2, <1>5 DEF pa_disco_list_append
  <2>2. announced' \subseteq RecordType
    BY <1>1, <1>2, <1>5 DEF Notify, Told
  <2> QED BY <2>1, <2>2
<1>6. CASE UNCHANGED listVars
  BY <1>1, <1>6 DEF listVars
<1> QED BY <1>4, <1>5, <1>6 DEF update_slave_list

LEMMA TypeVerify ==
    ASSUME TypeInv, do_state_verify, gap' = 0, ticks' = ticks
    PROVE  TypeInv'
<1> USE DEF do_state_verify, resetVars, roundVars, idVars, listVars, requestVars
<1>0. /\ UNCHANGED <<roundVars, idVars, requestVars, resetVars, refresh_start, rsp_serialno, mutex>>
      /\ state = "VERIFY"
  OBVIOUS
<1>1. CountersOK' /\ Conserved' /\ VerifyBounded'
  <2> USE DEF TypeInv, TypeOK, CountersOK, FlagsOK, Conserved, VerifyBounded, VerifyFailed
  <2>1. CASE SendVerify
    <3>1. /\ ~verify_sent /\ verifies' = verifies + 1
          /\ \/ verify_sent' = TRUE /\ UNCHANGED <<verify_repeat, state>>
             \/ VerifyFailed /\ UNCHANGED verify_sent
      BY <2>1 DEF SendVerify
    <3> QED BY <1>0, <3>1
  <2>2. CASE PollVerify
    <3>1. /\ verify_sent /\ verifies' = verifies
          /\ VerifyConfirmed \/ VerifyTimedOut \/ VerifyPending
      BY <2>2 DEF PollVerify
    <3>2. CASE VerifyConfirmed
      BY <1>0, <3>1, <3>2 DEF VerifyConfirmed
    <3>3. CASE VerifyTimedOut
      BY <1>0, <3>1, <3>3 DEF VerifyTimedOut
    <3>4. CASE VerifyPending
      BY <1>0, <3>1, <3>4 DEF VerifyPending
    <3> QED BY <3>1, <3>2, <3>3, <3>4
  <2> QED BY <2>1, <2>2
<1>2. FlagsOK'
  BY Zenon DEF TypeInv, TypeOK, FlagsOK, SendVerify, PollVerify, VerifyConfirmed,
               VerifyTimedOut, VerifyPending
<1>3. ClocksOK'
  BY NowType DEF TypeInv, TypeOK, ClocksOK, SendVerify, PollVerify
<1>4. DataOK'
  <2>1. list' \in Seq(RecordType) /\ announced' \subseteq RecordType
    BY UpdateTypes DEF TypeInv, TypeOK, DataOK, SendVerify, PollVerify, VerifyConfirmed,
                       VerifyTimedOut, VerifyPending
  <2>2. state' \in {"VERIFY", "REPEAT"}
    BY DEF SendVerify, PollVerify, VerifyConfirmed, VerifyTimedOut, VerifyPending, VerifyFailed
  <2>3. /\ rx' \in Seq(ResponseType)
        /\ tx' \in Seq(RequestType) /\ Len(tx') =< 1 /\ pam_slave' \in Byte
    <3>1. CASE SendVerify
      <4>1. PICK sent \in SendOutcomes : Send(VerifyFrame(slave_id, ZeroSerial), sent)
        BY <3>1 DEF SendVerify
      <4>2. sent \in BOOLEAN
        BY DEF SendOutcomes
      <4>3. VerifyFrame(slave_id, ZeroSerial) \in RequestType
        BY FrameTypes DEF TypeInv, TypeOK, DataOK
      <4>4. rx' \in Seq(ResponseType)
        BY <3>1, ReceiverTypes DEF SendVerify, TypeInv, TypeOK, DataOK
      <4> QED BY <4>1, <4>2, <4>3, <4>4, SendType
    <3>2. CASE PollVerify
      BY <3>2, ReceiverTypes DEF PollVerify, NoTransmission, TypeInv, TypeOK, DataOK
    <3> QED BY <3>1, <3>2
  <2> HIDE DEF do_state_verify
  <2> QED BY <1>0, <2>1, <2>2, <2>3 DEF TypeInv, TypeOK, DataOK, States
<1> QED BY <1>1, <1>2, <1>3, <1>4 DEF TypeInv, TypeOK

\* Whatever service() does keeps the types and the counts.
LEMMA TypeService == TypeInv /\ pa_disco_master_service => TypeInv'
BY TypeIdle, TypeStart, TypeRepeat, TypeWait, TypeVerify, TypeResetStart,
   TypeResetRepeat, TypeResetWait, TypeFinish DEF pa_disco_master_service

\* So does whatever happens between two calls.
LEMMA TypeEnvironment == TypeInv /\ (Environment \/ UNCHANGED vars) => TypeInv'
<1> SUFFICES ASSUME TypeInv, Environment \/ UNCHANGED vars PROVE TypeInv'
  OBVIOUS
<1> USE DEF TypeInv, TypeOK, CountersOK, FlagsOK, ClocksOK, DataOK, Conserved, VerifyBounded,
            ctxVars, resetVars, verifyVars, roundVars, idVars, listVars, requestVars
<1>1. CASE pa_disco_master_reset
  <2>1. FlagsOK'
    BY <1>1, Zenon DEF pa_disco_master_reset
  <2>2. CountersOK' /\ ClocksOK' /\ Conserved' /\ VerifyBounded'
    BY <1>1 DEF pa_disco_master_reset
  <2>3. DataOK'
    BY <1>1 DEF pa_disco_master_reset
  <2> QED BY <2>1, <2>2, <2>3
<1>2. CASE Tick
  <2>1. (ticks + 1) % TickModulus \in Millis
    OBVIOUS
  <2> QED BY <1>2, <2>1 DEF Tick
<1>3. CASE Deliver
  BY <1>3 DEF Deliver
<1>4. CASE OtherLock
  BY <1>4 DEF OtherLock
<1>5. CASE OtherUnlock
  BY <1>5 DEF OtherUnlock
<1>6. CASE UNCHANGED vars
  BY <1>6 DEF vars, pamVars
<1> QED BY <1>1, <1>2, <1>3, <1>4, <1>5, <1>6 DEF Environment

\* Type correctness of every field of struct pa_disco_master and its
\* environment, whatever the settings, the callbacks and the responses are.
THEOREM TypeCorrect == Spec => []TypeOK
<1>1. TypeInv /\ [Next]_vars => TypeInv'
  BY TypeService, TypeEnvironment DEF Next
<1>2. TypeInv => TypeOK
  BY DEF TypeInv
<1> QED BY <1>1, <1>2, TypeInit, PTL DEF Spec

\* The inductive invariant itself, for the theorems that build on it.
LEMMA TypeInvariant == Spec => []TypeInv
<1>1. TypeInv /\ [Next]_vars => TypeInv'
  BY TypeService, TypeEnvironment DEF Next
<1> QED BY <1>1, TypeInit, PTL DEF Spec

\* A cycle ends after exactly repeat_cycles rounds that assigned nobody.
THEOREM CycleLength == Spec => []QuietAtFinish
<1>1. TypeInv => QuietAtFinish
  BY DEF TypeInv, Conserved, QuietAtFinish
<1> QED BY <1>1, TypeInvariant, PTL

\* No assignment is verified more often than one try and its retries.
THEOREM VerifyLimit == Spec => []VerifyBounded
<1>1. TypeInv => VerifyBounded
  BY DEF TypeInv
<1> QED BY <1>1, TypeInvariant, PTL

------------------------------------------------------------------------------
(***************************************************************************)
(* The bus mutex.                                                          *)
(***************************************************************************)
\* Every handler but the first and the last leaves the mutex alone, stays
\* within the cycle, and may transmit; do_state_idle and do_state_finish
\* transmit nothing.
LEMMA BusService ==
    ASSUME BusHeld, pa_disco_master_service, {"trylock", "unlock"} \subseteq Installed
    PROVE  BusHeld'
<1> USE DEF BusHeld
<1>1. CASE do_state_idle
  BY <1>1 DEF do_state_idle, Lock, LockAvailable, NoTransmission
<1>2. CASE do_state_finish
  BY <1>2 DEF do_state_finish, Unlock, NoTransmission
<1>3. ASSUME state # "IDLE", state' # "IDLE", mutex' = mutex
      PROVE  BusHeld'
  BY <1>3
<1>4. CASE do_state_start
  BY <1>3, <1>4 DEF do_state_start
<1>5. CASE do_state_repeat
  BY <1>3, <1>5 DEF do_state_repeat
<1>6. CASE do_state_wait
  BY <1>3, <1>6 DEF do_state_wait, KeepWaiting, AssignHeard, NobodyAnswered, Assigned, NotAssigned
<1>7. CASE do_state_verify
  BY <1>3, <1>7 DEF do_state_verify, SendVerify, PollVerify, VerifyConfirmed,
                    VerifyTimedOut, VerifyPending, VerifyFailed
<1>8. CASE do_state_reset_start
  BY <1>3, <1>8 DEF do_state_reset_start
<1>9. CASE do_state_reset_repeat
  BY <1>3, <1>9 DEF do_state_reset_repeat
<1>10. CASE do_state_reset_wait
  BY <1>3, <1>10 DEF do_state_reset_wait
<1> QED BY <1>1, <1>2, <1>4, <1>5, <1>6, <1>7, <1>8, <1>9, <1>10
        DEF pa_disco_master_service

\* With trylock and unlock installed, the master owns the bus exactly while a
\* cycle runs and transmits only then, whoever else uses the mutex.
THEOREM BusOwnership == Spec => []BusHeld
<1>1. Init => BusHeld
  BY DEF Init, BusHeld
<1>2. BusHeld /\ [Next]_vars => BusHeld'
  <2> SUFFICES ASSUME BusHeld, [Next]_vars, {"trylock", "unlock"} \subseteq Installed
               PROVE  BusHeld'
    BY DEF BusHeld
  <2>1. CASE pa_disco_master_service
    BY <2>1, BusService
  <2>2. CASE Environment
    BY <2>2 DEF BusHeld, Environment, pa_disco_master_reset, Tick, Deliver, OtherLock,
                OtherUnlock, ctxVars
  <2>3. CASE UNCHANGED vars
    BY <2>3 DEF BusHeld, vars, ctxVars, pamVars
  <2> QED BY <2>1, <2>2, <2>3 DEF Next
<1> QED BY <1>1, <1>2, PTL DEF Spec

------------------------------------------------------------------------------
(***************************************************************************)
(* Verification.                                                           *)
(***************************************************************************)
LEMMA VerifyPhaseService ==
    ASSUME TypeInv, VerifyPhase, pa_disco_master_service
    PROVE  VerifyPhase'
<1> USE DEF VerifyPhase
<1>1. ASSUME state # "VERIFY", verify_sent' = verify_sent
      PROVE  VerifyPhase'
  BY <1>1
<1>2. CASE do_state_verify
  <2>1. slave_id' = slave_id /\ state = "VERIFY"
    BY <1>2 DEF do_state_verify, idVars
  <2>2. CASE SendVerify
    <3>1. PICK sent \in SendOutcomes :
             /\ Send(VerifyFrame(slave_id, ZeroSerial), sent)
             /\ IF sent
                THEN verify_sent' = TRUE /\ UNCHANGED <<verify_repeat, state>>
                ELSE UNCHANGED verify_sent
      BY <2>2 DEF SendVerify
    <3>2. pam_slave' = slave_id
      BY <3>1, FrameDst DEF Send
    <3>3. verifies' > 0
      BY <2>2 DEF SendVerify, TypeInv, TypeOK, CountersOK
    <3>4. verify_sent' => state' = "VERIFY"
      BY <2>1, <2>2, <3>1 DEF SendVerify
    <3> QED BY <2>1, <3>2, <3>3, <3>4
  <2>3. CASE PollVerify
    BY <2>1, <2>3 DEF PollVerify, VerifyConfirmed, VerifyTimedOut, VerifyPending, NoTransmission
  <2> QED BY <1>2, <2>2, <2>3 DEF do_state_verify
<1>3. CASE do_state_idle
  BY <1>1, <1>3 DEF do_state_idle, verifyVars
<1>4. CASE do_state_start
  BY <1>1, <1>4 DEF do_state_start, verifyVars
<1>5. CASE do_state_repeat
  BY <1>1, <1>5 DEF do_state_repeat, verifyVars
<1>6. CASE do_state_wait
  BY <1>1, <1>6 DEF do_state_wait
<1>7. CASE do_state_reset_start
  BY <1>1, <1>7 DEF do_state_reset_start, verifyVars
<1>8. CASE do_state_reset_repeat
  BY <1>1, <1>8 DEF do_state_reset_repeat, verifyVars
<1>9. CASE do_state_reset_wait
  BY <1>1, <1>9 DEF do_state_reset_wait, verifyVars
<1>10. CASE do_state_finish
  BY <1>1, <1>10 DEF do_state_finish, verifyVars
<1> QED BY <1>2, <1>3, <1>4, <1>5, <1>6, <1>7, <1>8, <1>9, <1>10
        DEF pa_disco_master_service

\* While a verify read is outstanding, the master is in VERIFY and listens to
\* the address it assigned last.
THEOREM VerifyListening == Spec => []VerifyPhase
<1>1. Init => VerifyPhase
  BY DEF Init, VerifyPhase
<1>2. TypeInv /\ VerifyPhase /\ [Next]_vars => VerifyPhase'
  <2> SUFFICES ASSUME TypeInv, VerifyPhase, [Next]_vars PROVE VerifyPhase'
    OBVIOUS
  <2>1. CASE pa_disco_master_service
    BY <2>1, VerifyPhaseService
  <2>2. CASE Environment
    BY <2>2 DEF VerifyPhase, Environment, pa_disco_master_reset, Tick, Deliver, OtherLock,
                OtherUnlock, ctxVars, verifyVars, idVars
  <2>3. CASE UNCHANGED vars
    BY <2>3 DEF VerifyPhase, vars, ctxVars, pamVars, verifyVars, idVars
  <2> QED BY <2>1, <2>2, <2>3 DEF Next
<1> QED BY <1>1, <1>2, TypeInvariant, PTL DEF Spec

\* The list changes only on the answer of the slave it is about, or is cleared
\* by a bus reset.
THEOREM ListingIsVerified == Spec => OnlyVerifiedListed
<1> DEFINE Allowed == \/ state = "RESET_START" /\ list' = << >>
                      \/ /\ state = "VERIFY" /\ verify_sent
                         /\ slave_id \in {Head(rx).src, PA_DISCO_ADDR}
<1>1. VerifyPhase /\ [Next]_vars => [list' # list => Allowed]_vars
  <2> SUFFICES ASSUME VerifyPhase, Next, list' # list PROVE Allowed
    OBVIOUS
  <2>1. CASE do_state_reset_start
    BY <2>1 DEF do_state_reset_start, pa_disco_list_clear
  <2>2. CASE do_state_verify
    BY <2>2 DEF do_state_verify, SendVerify, PollVerify, VerifyConfirmed, VerifyTimedOut,
                VerifyPending, RecvOK, Accepts, VerifyPhase, listVars
  <2>3. ASSUME UNCHANGED listVars PROVE FALSE
    BY <2>3 DEF listVars
  <2>4. CASE do_state_idle \/ do_state_start \/ do_state_repeat \/ do_state_wait
    BY <2>3, <2>4 DEF do_state_idle, do_state_start, do_state_repeat, do_state_wait
  <2>5. CASE do_state_reset_repeat \/ do_state_reset_wait \/ do_state_finish
    BY <2>3, <2>5 DEF do_state_reset_repeat, do_state_reset_wait, do_state_finish
  <2>6. CASE Environment
    BY <2>3, <2>6 DEF Environment, pa_disco_master_reset, Tick, Deliver, OtherLock,
                      OtherUnlock, ctxVars
  <2> QED BY <2>1, <2>2, <2>4, <2>5, <2>6 DEF Next, pa_disco_master_service
<1> QED BY <1>1, VerifyListening, PTL DEF Spec, OnlyVerifiedListed

------------------------------------------------------------------------------
(***************************************************************************)
(* The slave list.                                                         *)
(***************************************************************************)
\* The address counter is ahead of every listed address: strictly so from the
\* response that raised it to the end of the verification.
CounterAhead ==
    ~wrapped => \A i \in 1 .. Len(list) :
        /\ list[i].slave_id =< slave_id
        /\ state = "VERIFY" \/ (state = "WAIT" /\ received) => list[i].slave_id < slave_id

ListInv ==
    /\ UniqueSerials
    /\ UniqueAddresses
    /\ CounterAhead
    /\ state \in {"RESET_REPEAT", "RESET_WAIT", "START"} => list = << >>

LEMMA ListInit == Init => ListInv
BY DEF Init, ListInv, UniqueSerials, UniqueAddresses, CounterAhead, pa_disco_list_clear

\* Handlers that change neither the list nor the counter only have to avoid
\* the states in which the invariant asks for more than before.
LEMMA ListKept ==
    ASSUME ListInv, UNCHANGED <<list, slave_id, wrapped>>,
           ~(state' = "VERIFY" \/ (state' = "WAIT" /\ received'))
              \/ UNCHANGED <<state, received>>,
           state' \in {"RESET_REPEAT", "RESET_WAIT", "START"} => list = << >>
    PROVE  ListInv'
BY DEF ListInv, UniqueSerials, UniqueAddresses, CounterAhead

LEMMA ListedAddresses ==
    ASSUME list \in Seq(RecordType)
    PROVE  \A i \in 1 .. Len(list) : list[i].slave_id \in Byte
<1> SUFFICES ASSUME NEW i \in 1 .. Len(list) PROVE list[i].slave_id \in Byte
  OBVIOUS
<1>1. list[i] \in RecordType
  OBVIOUS
<1> QED BY <1>1 DEF RecordType

LEMMA ListWait ==
    ASSUME TypeInv, ListInv, do_state_wait
    PROVE  /\ ListInv'
           /\ ~wrapped' /\ Heard => \A i \in 1 .. Len(list) : list[i].slave_id < HeardId
<1>1. /\ slave_id \in Byte /\ HeardId \in Byte
      /\ \A i \in 1 .. Len(list) : list[i].slave_id \in Byte
  BY HeardTypes, ListedAddresses DEF TypeInv, TypeOK, DataOK
<1>2. /\ state = "WAIT" /\ list' = list /\ slave_id' = HeardId
      /\ wrapped' = (wrapped \/ HeardId < slave_id) /\ received' = Heard
  BY DEF do_state_wait, listVars
<1>3. state' \in {"WAIT", "REPEAT"} \/ (state' = "VERIFY" /\ Heard)
  BY DEF do_state_wait, KeepWaiting, AssignHeard, NobodyAnswered, Assigned, NotAssigned
<1>4. Heard = (received \/ Arrived)
  BY DEF Heard
<1>5. ASSUME ~wrapped'
      PROVE  /\ \A i \in 1 .. Len(list) : list[i].slave_id =< HeardId
             /\ Heard => \A i \in 1 .. Len(list) : list[i].slave_id < HeardId
  <2>1. ~wrapped /\ ~(HeardId < slave_id)
    BY <1>2, <1>5
  <2>2. CASE Arrived
    <3>1. HeardId = slave_id + 1
      BY <1>1, <2>1, <2>2, IncSlaveId DEF HeardId
    <3> QED BY <1>1, <2>1, <3>1 DEF ListInv, CounterAhead
  <2>3. CASE ~Arrived
    BY <1>1, <1>2, <1>4, <2>1, <2>3 DEF HeardId, ListInv, CounterAhead
  <2> QED BY <2>2, <2>3
<1>6. UniqueSerials' /\ UniqueAddresses'
  BY <1>2, <1>5 DEF ListInv, UniqueSerials, UniqueAddresses
<1>7. CounterAhead'
  BY <1>2, <1>3, <1>5 DEF CounterAhead
<1> QED BY <1>2, <1>3, <1>5, <1>6, <1>7 DEF ListInv

\* Confirming a slave: a known serial number changes its record's address, an
\* unknown one is appended; either way the address is above all the others.
LEMMA ListConfirmed ==
    ASSUME TypeInv, ListInv, state = "VERIFY", update_slave_list, UNCHANGED <<slave_id, wrapped>>,
           state' = "REPEAT"
    PROVE  ListInv'
<1> DEFINE index == pa_disco_list_find_serialno(list, rsp_serialno)
           rec   == pa_disco_slave_new(slave_id, rsp_serialno)
<1>1. /\ list \in Seq(RecordType) /\ slave_id \in Byte /\ rsp_serialno \in Serial
      /\ \A i \in 1 .. Len(list) : list[i].slave_id \in Byte
  BY ListedAddresses DEF TypeInv, TypeOK, DataOK
<1>2. ~wrapped => \A i \in 1 .. Len(list) : list[i].slave_id < slave_id
  BY DEF ListInv, CounterAhead
<1>3. rec.slave_id = slave_id /\ rec.serialno = rsp_serialno
  BY DEF pa_disco_slave_new
<1>4. \/ index \in 0 .. (Len(list) - 1) /\ list[index + 1].serialno = rsp_serialno
      \/ index = -1 /\ \A i \in 1 .. Len(list) : list[i].serialno # rsp_serialno
  BY <1>1, FindSerialno
<1>5. CASE index >= 0 /\ list' = pa_disco_list_set_slave_id(list, index, slave_id)
  <2>1. index \in 0 .. (Len(list) - 1)
    BY <1>4, <1>5
  <2> HIDE DEF index, rec
  <2>2. /\ Len(list') = Len(list)
        /\ \A i \in 1 .. Len(list) :
              list'[i] = IF i = index + 1
                         THEN pa_disco_slave_new(slave_id, list[i].serialno) ELSE list[i]
    BY <1>1, <1>5, <2>1, SetSlaveId
  <2>3. ASSUME NEW i \in 1 .. Len(list)
        PROVE  /\ list'[i].serialno = list[i].serialno
               /\ list'[i].slave_id = IF i = index + 1 THEN slave_id ELSE list[i].slave_id
    <3>1. CASE i = index + 1
      <4>1. list'[i] = pa_disco_slave_new(slave_id, list[i].serialno)
        BY <2>2, <3>1
      <4> QED BY <3>1, <4>1 DEF pa_disco_slave_new
    <3>2. CASE i # index + 1
      <4>1. list'[i] = list[i]
        BY <2>2, <3>2
      <4> QED BY <3>2, <4>1
    <3> QED BY <3>1, <3>2
  <2>4. UniqueSerials'
    BY <2>2, <2>3 DEF ListInv, UniqueSerials
  <2>5. UniqueAddresses' /\ CounterAhead'
    BY <1>1, <1>2, <2>2, <2>3 DEF ListInv, UniqueAddresses, CounterAhead
  <2> QED BY <2>4, <2>5 DEF ListInv
<1>6. CASE index = -1 /\ list' = Append(list, rec)
  <2> HIDE DEF index, rec
  <2>1. /\ Len(list') = Len(list) + 1
        /\ \A i \in 1 .. Len(list) : list'[i] = list[i]
        /\ list'[Len(list) + 1] = rec
    BY <1>1, <1>6
  <2>2. UniqueSerials'
    BY <1>1, <1>3, <1>4, <1>6, <2>1 DEF ListInv, UniqueSerials
  <2>3. UniqueAddresses' /\ CounterAhead'
    BY <1>1, <1>2, <1>3, <2>1 DEF ListInv, UniqueAddresses, CounterAhead
  <2> QED BY <2>2, <2>3 DEF ListInv
<1>7. CASE list' = list
  BY <1>7, ListKept
<1>8. \/ index >= 0 /\ list' = pa_disco_list_set_slave_id(list, index, slave_id)
      \/ index < 0 /\ (list' = Append(list, rec) \/ list' = list)
  BY DEF update_slave_list, pa_disco_list_append, listVars
<1> QED BY <1>4, <1>5, <1>6, <1>7, <1>8

LEMMA ListService ==
    ASSUME TypeInv, ListInv, pa_disco_master_service
    PROVE  ListInv'
<1>1. CASE do_state_wait
  BY <1>1, ListWait
<1>2. CASE do_state_verify
  <2>1. state = "VERIFY" /\ UNCHANGED <<slave_id, wrapped, received>>
    BY <1>2 DEF do_state_verify, idVars, roundVars
  <2>2. CASE SendVerify \/ (PollVerify /\ ~VerifyConfirmed)
    <3>1. list' = list /\ (state' = "REPEAT" \/ state' = state)
      BY <2>2 DEF SendVerify, PollVerify, VerifyTimedOut, VerifyPending, VerifyFailed, listVars
    <3> QED BY <2>1, <3>1, ListKept
  <2>3. CASE PollVerify /\ VerifyConfirmed
    BY <2>1, <2>3, ListConfirmed DEF VerifyConfirmed
  <2> QED BY <1>2, <2>2, <2>3 DEF do_state_verify
<1>3. CASE do_state_start
  BY <1>3 DEF do_state_start, listVars, ListInv, UniqueSerials, UniqueAddresses, CounterAhead
<1>4. CASE do_state_reset_start
  BY <1>4 DEF do_state_reset_start, pa_disco_list_clear, ListInv, UniqueSerials,
              UniqueAddresses, CounterAhead
<1>5. CASE do_state_idle
  BY <1>5, ListKept DEF do_state_idle, listVars, idVars, roundVars
<1>6. CASE do_state_repeat
  BY <1>6, ListKept DEF do_state_repeat, listVars, idVars
<1>7. CASE do_state_reset_repeat
  BY <1>7, ListKept DEF do_state_reset_repeat, listVars, idVars, ListInv
<1>8. CASE do_state_reset_wait
  BY <1>8, ListKept DEF do_state_reset_wait, listVars, idVars, ListInv
<1>9. CASE do_state_finish
  BY <1>9, ListKept DEF do_state_finish, listVars, idVars
<1> QED BY <1>1, <1>2, <1>3, <1>4, <1>5, <1>6, <1>7, <1>8, <1>9
        DEF pa_disco_master_service

LEMMA ListInvariant == Spec => []ListInv
<1>1. TypeInv /\ ListInv /\ [Next]_vars => ListInv'
  <2> SUFFICES ASSUME TypeInv, ListInv, [Next]_vars PROVE ListInv'
    OBVIOUS
  <2>1. CASE pa_disco_master_service
    BY <2>1, ListService
  <2>2. CASE Environment \/ UNCHANGED vars
    <3>1. UNCHANGED <<list, slave_id, wrapped, state, received>>
      BY <2>2 DEF Environment, pa_disco_master_reset, Tick, Deliver, OtherLock, OtherUnlock,
                  vars, ctxVars, listVars, idVars, roundVars
    <3>2. state' \in {"RESET_REPEAT", "RESET_WAIT", "START"} => list = << >>
      BY <3>1 DEF ListInv
    <3> QED BY <3>1, <3>2, ListKept
  <2> QED BY <2>1, <2>2 DEF Next
<1> QED BY <1>1, ListInit, TypeInvariant, PTL DEF Spec

\* However slaves answer, vanish and come back, the list holds every serial
\* number once.
THEOREM SerialsListedOnce == Spec => []UniqueSerials
<1>1. ListInv => UniqueSerials
  BY DEF ListInv
<1> QED BY <1>1, ListInvariant, PTL

\* Until the address counter goes round, no two slaves of the list have the
\* same address.
THEOREM AddressesListedOnce == Spec => []UniqueAddresses
<1>1. ListInv => UniqueAddresses
  BY DEF ListInv
<1> QED BY <1>1, ListInvariant, PTL

\* Only do_state_wait puts an assignment on the line.
LEMMA OthersDoNotAssign ==
    ASSUME Next, ~do_state_wait, NEW i \in 1 .. Len(tx')
    PROVE  tx'[i].fn = "read" \/ tx'[i].slave_id = 0
<1> USE DEF Send, QueryFrame, VerifyFrame, ResetFrame, AssignFrame, Request
<1>1. tx' # << >>
  OBVIOUS
<1>2. CASE do_state_repeat
  BY <1>1, <1>2 DEF do_state_repeat, NoTransmission
<1>3. CASE do_state_verify
  BY <1>1, <1>3 DEF do_state_verify, SendVerify, PollVerify, NoTransmission
<1>4. CASE do_state_reset_repeat
  BY <1>1, <1>4 DEF do_state_reset_repeat, NoTransmission
<1>5. ~(do_state_idle \/ do_state_start \/ do_state_reset_start)
  BY <1>1 DEF do_state_idle, do_state_start, do_state_reset_start, NoTransmission
<1>6. ~(do_state_reset_wait \/ do_state_finish)
  BY <1>1 DEF do_state_reset_wait, do_state_finish, NoTransmission
<1>7. ~Environment
  BY <1>1 DEF Environment, pa_disco_master_reset, Tick, Deliver, OtherLock, OtherUnlock
<1> QED BY <1>2, <1>3, <1>4, <1>5, <1>6, <1>7 DEF Next, pa_disco_master_service

\* No assignment hands out the address of a slave that is already listed.
THEOREM AssignmentsAreFresh == Spec => []FreshAddress
<1>1. Init => FreshAddress
  BY DEF Init, FreshAddress
<1>2. TypeInv /\ ListInv /\ FreshAddress /\ [Next]_vars => FreshAddress'
  <2> SUFFICES ASSUME TypeInv, ListInv, FreshAddress, [Next]_vars PROVE FreshAddress'
    OBVIOUS
  <2>1. CASE do_state_wait
    <3>1. list' = list /\ HeardId \in Byte
      BY <2>1, HeardTypes DEF do_state_wait, listVars, TypeInv, TypeOK, DataOK
    <3>2. \A i \in 1 .. Len(list) : list[i].slave_id \in Byte
      BY ListedAddresses DEF TypeInv, TypeOK, DataOK
    <3>3. ~wrapped' /\ Heard => \A i \in 1 .. Len(list) : list[i].slave_id # HeardId
      BY <2>1, <3>1, <3>2, ListWait
    <3>4. \A i \in 1 .. Len(tx') : Heard /\ tx'[i].slave_id = HeardId
      BY <2>1 DEF do_state_wait, KeepWaiting, NobodyAnswered, AssignHeard, NoTransmission,
                  Send, AssignFrame, Request
    <3> QED BY <3>1, <3>3, <3>4 DEF FreshAddress
  <2>2. CASE Next /\ ~do_state_wait
    BY <2>2, OthersDoNotAssign DEF FreshAddress
  <2>3. CASE UNCHANGED vars
    BY <2>3 DEF FreshAddress, vars, ctxVars, pamVars, idVars, listVars
  <2> QED BY <2>1, <2>2, <2>3
<1> QED BY <1>1, <1>2, TypeInvariant, ListInvariant, PTL DEF Spec

------------------------------------------------------------------------------
(***************************************************************************)
(* The receiver and the reset request.                                     *)
(***************************************************************************)
\* Whatever the master transmits, its receiver was emptied first.
THEOREM ReceiverEmptied == Spec => []FreshReceiver
<1>1. Init => FreshReceiver
  BY DEF Init, FreshReceiver
<1>2. FreshReceiver /\ [Next]_vars => FreshReceiver'
  <2> SUFFICES ASSUME FreshReceiver, [Next]_vars, "flush" \in Installed, tx' # << >>
               PROVE  rx' = << >>
    BY DEF FreshReceiver
  <2>1. CASE do_state_repeat \/ do_state_reset_repeat
    BY <2>1 DEF do_state_repeat, do_state_reset_repeat, NoTransmission, Flushed
  <2>2. CASE do_state_wait
    BY <2>2 DEF do_state_wait, KeepWaiting, AssignHeard, NobodyAnswered, NoTransmission, Flushed
  <2>3. CASE do_state_verify
    BY <2>3 DEF do_state_verify, SendVerify, PollVerify, NoTransmission, Flushed
  <2>4. ~(do_state_idle \/ do_state_start \/ do_state_reset_start)
    BY DEF do_state_idle, do_state_start, do_state_reset_start, NoTransmission
  <2>5. ~(do_state_reset_wait \/ do_state_finish)
    BY DEF do_state_reset_wait, do_state_finish, NoTransmission
  <2>6. ~Environment
    BY DEF Environment, pa_disco_master_reset, Tick, Deliver, OtherLock, OtherUnlock
  <2>7. CASE UNCHANGED vars
    BY <2>7 DEF FreshReceiver, vars, pamVars
  <2> QED BY <2>1, <2>2, <2>3, <2>4, <2>5, <2>6, <2>7 DEF Next, pa_disco_master_service
<1> QED BY <1>1, <1>2, PTL DEF Spec

\* A reset asked for outside the reset phase is pending until do_state_idle
\* serves it: the reset = false of do_state_start never hits it.
THEOREM LateResetsServed == Spec => []LateResetKept
<1> DEFINE Inv == LateResetKept /\ (state \in {"RESET_START", "RESET_REPEAT", "RESET_WAIT",
                                              "START"} => request # "late")
<1>1. Init => Inv
  BY DEF Init, LateResetKept
<1>2. Inv /\ [Next]_vars => Inv'
  <2> SUFFICES ASSUME Inv, [Next]_vars PROVE Inv'
    OBVIOUS
  <2> USE DEF LateResetKept
  <2>1. CASE do_state_idle
    BY <2>1 DEF do_state_idle
  <2>2. CASE do_state_start
    BY <2>2 DEF do_state_start
  <2>3. CASE do_state_reset_start
    BY <2>3 DEF do_state_reset_start, requestVars
  <2>4. CASE do_state_reset_repeat \/ do_state_reset_wait
    BY <2>4 DEF do_state_reset_repeat, do_state_reset_wait, requestVars
  <2>5. CASE do_state_repeat
    BY <2>5 DEF do_state_repeat, requestVars
  <2>6. CASE do_state_wait
    BY <2>6 DEF do_state_wait, KeepWaiting, AssignHeard, NobodyAnswered, Assigned,
                NotAssigned, requestVars
  <2>7. CASE do_state_verify
    BY <2>7 DEF do_state_verify, SendVerify, PollVerify, VerifyConfirmed, VerifyTimedOut,
                VerifyPending, VerifyFailed, requestVars
  <2>8. CASE do_state_finish
    BY <2>8 DEF do_state_finish, requestVars
  <2>9. CASE pa_disco_master_reset
    BY <2>9 DEF pa_disco_master_reset
  <2>10. CASE Tick \/ Deliver \/ OtherLock \/ OtherUnlock
    BY <2>10 DEF Tick, Deliver, OtherLock, OtherUnlock, ctxVars, requestVars
  <2>11. CASE UNCHANGED vars
    BY <2>11 DEF vars, ctxVars, requestVars
  <2> QED BY <2>1, <2>2, <2>3, <2>4, <2>5, <2>6, <2>7, <2>8, <2>9, <2>10, <2>11
          DEF Next, pa_disco_master_service, Environment
<1> QED BY <1>1, <1>2, PTL DEF Spec

==============================================================================
