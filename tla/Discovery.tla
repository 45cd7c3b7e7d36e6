------------------------------ MODULE Discovery ------------------------------
(***************************************************************************)
(* What a discovery cycle promises the application, without the protocol:  *)
(* a cycle begins, forgets every slave of the cycle before, then finds     *)
(* slaves one at a time, each at an address no slave found so far has, and *)
(* ends.  A serial number that is found again moves to its new address.    *)
(* Addresses are a byte; once the supply is used up they are handed out    *)
(* again, and from then on nothing is promised about them in this cycle.   *)
(***************************************************************************)
EXTENDS Naturals, TLAPS

CONSTANTS
    Serial,                     \* the serial numbers
    Id                          \* the slave addresses, 0 meaning none

VARIABLES
    phase,                      \* where the cycle is
    found,                      \* the records [slave_id, serialno] of the slaves found
    recycled                    \* the supply of addresses was used up in this cycle

discoveryVars == <<phase, found, recycled>>

Phases == {"idle", "begun", "cleared", "searching"}

Init ==
    /\ phase = "idle"
    /\ found = {}
    /\ recycled = FALSE

\* The slaves of the last cycle are known until this one forgets them.
Begin ==
    /\ phase = "idle" /\ phase' = "begun"
    /\ UNCHANGED <<found, recycled>>

Forget ==
    /\ phase = "begun" /\ phase' = "cleared"
    /\ found' = {}
    /\ UNCHANGED recycled

Search ==
    /\ phase = "cleared" /\ phase' = "searching"
    /\ recycled' = FALSE
    /\ UNCHANGED found

Others(serial) == {r \in found : r.serialno # serial}

Find(serial, id) ==
    /\ phase = "searching"
    /\ recycled \/ \A r \in found : r.slave_id # id
    /\ found' = Others(serial) \cup {[slave_id |-> id, serialno |-> serial]}
    /\ UNCHANGED <<phase, recycled>>

Recycle ==
    /\ phase = "searching"
    /\ recycled' = TRUE
    /\ UNCHANGED <<phase, found>>

Finish ==
    /\ phase = "searching" /\ phase' = "idle"
    /\ UNCHANGED <<found, recycled>>

Next ==
    \/ Begin \/ Forget \/ Search \/ Recycle \/ Finish
    \/ \E serial \in Serial, id \in Id \ {0} : Find(serial, id)

Spec == Init /\ [][Next]_discoveryVars
------------------------------------------------------------------------------
\* No serial number is known at two addresses, and no address is known for two
\* serial numbers unless addresses are being handed out again.
OneRecordPerSlave ==
    /\ \A r, q \in found : r.serialno = q.serialno => r = q
    /\ ~recycled => \A r, q \in found : r.slave_id = q.slave_id => r = q

\* Slaves are found once, at addresses of their own.
THEOREM FoundOnce == Spec => []OneRecordPerSlave
<1> DEFINE Inv == OneRecordPerSlave /\ (phase = "cleared" => found = {})
<1>1. Init => Inv
  BY DEF Init, OneRecordPerSlave
<1>2. Inv /\ [Next]_discoveryVars => Inv'
  <2> SUFFICES ASSUME Inv, [Next]_discoveryVars PROVE Inv'
    OBVIOUS
  <2> USE DEF OneRecordPerSlave
  <2>1. ASSUME NEW serial \in Serial, NEW id \in Id \ {0}, Find(serial, id)
        PROVE  Inv'
    BY <2>1 DEF Find, Others
  <2>2. CASE Forget
    BY <2>2 DEF Forget
  <2>3. CASE Begin \/ Finish
    BY <2>3 DEF Begin, Finish
  <2>4. CASE Recycle
    BY <2>4 DEF Recycle
  <2>5. CASE Search
    BY <2>5 DEF Search
  <2>6. CASE UNCHANGED discoveryVars
    BY <2>6 DEF discoveryVars
  <2> QED BY <2>1, <2>2, <2>3, <2>4, <2>5, <2>6 DEF Next
<1> QED BY <1>1, <1>2, PTL DEF Spec
==============================================================================
