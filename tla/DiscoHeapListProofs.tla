-------------------------- MODULE DiscoHeapListProofs --------------------------
(***************************************************************************)
(* The pointer list of DiscoHeapList implements SlaveSequence, and every   *)
(* record on the heap has one owner, for any number of records.            *)
(***************************************************************************)
EXTENDS DiscoHeapList, SequenceTheorems, WellFoundedInduction, TLAPS

Record == [slave_id : Id, serialno : Serial]

HeapInv == HeapTypeOK /\ OneOwner /\ ToldStayValid

\* What a listed pointer points at is a record.
LEMMA ListedRecords ==
    ASSUME HeapTypeOK, OneOwner
    PROVE  /\ \A k \in Index : slave[k] \in Listed /\ heap[slave[k]] \in Record
           /\ Listed \subseteq Live
           /\ count \in Nat /\ Index \subseteq Nat
BY DEF HeapTypeOK, OneOwner, Listed, Live, Record, Index

\* The search returns the first index whose record has the serial number.
LEMMA FindFirst ==
    ASSUME HeapTypeOK, OneOwner, NEW serial \in Serial
    PROVE  LET index == pa_disco_list_find_serialno(serial)
           IN  \/ /\ index \in Index /\ heap[slave[index]].serialno = serial
                  /\ \A i \in Index : i < index => heap[slave[i]].serialno # serial
               \/ /\ index = -1
                  /\ \A i \in Index : heap[slave[i]].serialno # serial
<1>. DEFINE hits == {i \in Index : heap[slave[i]].serialno = serial}
<1>1. CASE hits = {}
  BY <1>1 DEF pa_disco_list_find_serialno
<1>2. CASE hits # {}
  <2>1. hits \subseteq Nat
    BY DEF Index, HeapTypeOK
  <2>2. PICK first \in hits : \A j \in hits : ~(<<j, first>> \in OpToRel(<, Nat))
    <3>. HIDE DEF hits
    <3>. QED
      BY <1>2, <2>1, NatLessThanWellFounded, WFMin
  <2>3. \A j \in hits : first =< j
    <3>. SUFFICES ASSUME NEW j \in hits, ~(first =< j)
                  PROVE  FALSE
      OBVIOUS
    <3>1. j \in Nat /\ first \in Nat
      BY <2>1
    <3>. HIDE DEF hits
    <3>2. <<j, first>> \in Nat \X Nat /\ <<j, first>>[1] < <<j, first>>[2]
      BY <3>1
    <3>3. <<j, first>> \in OpToRel(<, Nat)
      BY <3>2, Zenon DEF OpToRel
    <3>. QED
      BY <2>2, <3>3
  <2>. DEFINE index == pa_disco_list_find_serialno(serial)
  <2>4. index \in hits /\ \A j \in hits : index =< j
    BY <1>2, <2>2, <2>3 DEF pa_disco_list_find_serialno
  <2>. HIDE DEF index
  <2>5. \A i \in Index : i < index => i \notin hits
    BY <2>1, <2>4 DEF Index, HeapTypeOK
  <2>. QED
    BY <2>4, <2>5 DEF index
<1>. QED
  BY <1>1, <1>2

\* Changing the address of the record at one index changes no other record.
LEMMA SetIdEffect ==
    ASSUME HeapTypeOK, OneOwner, NEW index \in Int, NEW id \in Id,
           pa_disco_list_set_slave_id(index, id), UNCHANGED <<slave, count>>
    PROVE  /\ heap' \in [Block -> Record \cup {NULL}]
           /\ Live' = Live /\ Listed' = Listed
           /\ Contents' = Sequence!Readdressed(index, id)
<1>1. Index' = Index /\ Listed' = Listed
  BY DEF Index, Listed
<1>2. ASSUME index \in Index
      PROVE  /\ heap' = [heap EXCEPT ![slave[index]] = [slave_id |-> id, serialno |-> @.serialno]]
             /\ heap[slave[index]] \in Record
  <2>1. slave[index] # NULL /\ heap[slave[index]] \in Record
    BY <1>2, ListedRecords, HeapAssumption DEF HeapTypeOK
  <2>2. heap' = [heap EXCEPT ![slave[index]].slave_id = id]
    BY <1>2, <2>1 DEF pa_disco_list_set_slave_id, pa_disco_list_at
  <2>3. [heap[slave[index]] EXCEPT !.slave_id = id] =
           [slave_id |-> id, serialno |-> heap[slave[index]].serialno]
    BY <2>1 DEF Record
  <2>. QED
    BY <2>1, <2>2, <2>3
<1>3. ASSUME index \notin Index
      PROVE  heap' = heap
  BY <1>3 DEF pa_disco_list_set_slave_id, pa_disco_list_at
<1>4. heap' \in [Block -> Record \cup {NULL}]
  BY <1>2, <1>3 DEF HeapTypeOK, Record
<1>5. Live' = Live
  BY <1>2, <1>3, HeapAssumption DEF Live, HeapTypeOK, Record
<1>6. ASSUME NEW k \in 1 .. count
      PROVE  heap'[slave[k - 1]] = IF k = index + 1 THEN [Contents[k] EXCEPT !.slave_id = id]
                                   ELSE Contents[k]
  <2>1. k - 1 \in Index /\ Contents[k] = heap[slave[k - 1]] /\ heap[slave[k - 1]] \in Record
    BY ListedRecords DEF Index, Contents
  <2>2. CASE k = index + 1
    <3>1. index = k - 1
      BY <2>2, <2>1, ListedRecords
    <3>. QED
      BY <1>2, <2>1, <2>2, <3>1 DEF HeapTypeOK, Record
  <2>3. CASE k # index + 1
    <3>1. index \in Index => slave[k - 1] # slave[index]
      BY <2>1, <2>3, ListedRecords DEF OneOwner
    <3>. QED
      BY <1>2, <1>3, <2>1, <2>3, <3>1 DEF HeapTypeOK
  <2>. QED
    BY <2>2, <2>3
<1>7. Len(Contents) = count
  BY ListedRecords DEF Contents
<1>. QED
  BY <1>1, <1>4, <1>5, <1>6, <1>7 DEF Contents, Sequence!Readdressed

\* Both ways to change an address, through either interface, refine theirs.
LEMMA SetIdIsSequence ==
    ASSUME HeapTypeOK, OneOwner, NEW index \in Int, NEW id \in Id, NEW serial \in Serial,
           pa_disco_list_set_slave_id(index, id), UNCHANGED <<slave, count>>,
           call'.slave = [slave_id |-> id, serialno |-> serial],
           \/ call'.fn = "set_id" /\ call'.index = index
           \/ call'.fn \in {"set_id_of", "update"} /\ index = pa_disco_list_find_serialno(serial)
              /\ index \in Index
           \/ call'.fn = "set_id_of" /\ index = pa_disco_list_find_serialno(serial)
    PROVE  Sequence!Next
<1>1. Contents' = Sequence!Readdressed(index, id)
  BY SetIdEffect
<1>2. call'.slave.slave_id = id /\ call'.slave.serialno = serial
  OBVIOUS
<1>3. CASE call'.fn = "set_id" /\ call'.index = index
  BY <1>1, <1>2, <1>3 DEF Sequence!Next, Sequence!SetId
<1>4. Sequence!Position = Index /\ \A i \in Index : Contents[i + 1] = heap[slave[i]]
  <2>1. Len(Contents) = count
    BY ListedRecords DEF Contents
  <2>2. \A i \in Index : i + 1 \in 1 .. count /\ (i + 1) - 1 = i
    BY ListedRecords DEF Index
  <2>. QED
    BY <2>1, <2>2 DEF Sequence!Position, Index, Contents
<1>5. CASE index = pa_disco_list_find_serialno(serial) /\ index \in Index
  <2>1. /\ heap[slave[index]].serialno = serial
        /\ \A i \in Index : i < index => heap[slave[i]].serialno # serial
    BY <1>5, FindFirst, ListedRecords
  <2>2. Sequence!Readdress
    BY <1>1, <1>2, <1>4, <1>5, <2>1 DEF Sequence!Readdress
  <2>. QED
    BY <1>3, <2>2 DEF Sequence!Next, Sequence!SetIdOf, Sequence!Update
<1>6. CASE call'.fn = "set_id_of" /\ index = pa_disco_list_find_serialno(serial) /\ index \notin Index
  <2>1. index = -1 /\ \A i \in Index : heap[slave[i]].serialno # serial
    BY <1>6, FindFirst
  <2>2. Sequence!Unknown
    BY <1>2, <1>4, <2>1 DEF Sequence!Unknown
  <2>3. UNCHANGED Contents
    BY <1>6, HeapAssumption DEF pa_disco_list_set_slave_id, pa_disco_list_at, Contents
  <2>. QED
    BY <1>6, <2>2, <2>3 DEF Sequence!Next, Sequence!SetIdOf
<1>. QED
  BY <1>3, <1>5, <1>6

\* A record that nobody lists goes into one cell, and the ones behind it move
\* up by one.
LEMMA InsertEffect ==
    ASSUME HeapTypeOK, OneOwner, NEW b \in Block, b \notin Listed, NEW index \in 0 .. count,
           pa_disco_list_insert(b, index, TRUE), \A c \in Listed : heap'[c] = heap[c]
    PROVE  /\ count' \in Nat /\ slave' \in [Index' -> Block]
           /\ Listed' = Listed \cup {b}
           /\ \A i, j \in Index' : i # j => slave'[i] # slave'[j]
           /\ Len(Contents) = count
           /\ Contents' = [k \in 1 .. (count + 1) |->
                              IF k =< index THEN Contents[k]
                              ELSE IF k = index + 1 THEN heap'[b] ELSE Contents[k - 1]]
<1>1. /\ count \in Nat /\ count' = count + 1 /\ Index' = 0 .. count
      /\ slave' = [k \in 0 .. count |->
                     IF k < index THEN slave[k] ELSE IF k = index THEN b ELSE slave[k - 1]]
  BY DEF pa_disco_list_insert, Inserts, Moved, Index, HeapTypeOK
<1>2. ASSUME NEW k \in 0 .. count
      PROVE  \/ k < index /\ k \in Index /\ slave'[k] = slave[k]
             \/ k = index /\ slave'[k] = b
             \/ k > index /\ k - 1 \in Index /\ slave'[k] = slave[k - 1]
  BY <1>1 DEF Index
<1>3. \A k \in 0 .. count : slave'[k] \in Listed \cup {b}
  BY <1>2 DEF Listed
<1>4. slave' \in [Index' -> Block]
  <2>1. Listed \cup {b} \subseteq Block
    BY DEF Listed, HeapTypeOK
  <2>2. slave' = [k \in Index' |-> slave'[k]]
    BY <1>1
  <2>. QED
    BY <1>1, <1>3, <2>1, <2>2
<1>5. ASSUME NEW k \in Index
      PROVE  \E m \in Index' : slave'[m] = slave[k]
  <2>1. k \in Nat /\ k < count
    BY <1>1, <1>5 DEF Index
  <2>2. CASE k < index
    BY <1>1, <2>1, <2>2
  <2>3. CASE k >= index
    <3>1. k + 1 \in Index' /\ (k + 1) - 1 = k /\ k + 1 > index
      BY <1>1, <2>1, <2>3
    <3>. QED
      BY <1>1, <3>1
  <2>. QED
    BY <2>1, <2>2, <2>3
<1>6. b = slave'[index] /\ index \in Index'
  BY <1>1
<1>7. Listed' = Listed \cup {b}
  <2>1. Listed' = {slave'[k] : k \in Index'} /\ Listed = {slave[k] : k \in Index}
    BY DEF Listed
  <2>2. Listed' \subseteq Listed \cup {b}
    BY <1>1, <1>3, <2>1
  <2>3. Listed \subseteq Listed' /\ b \in Listed'
    BY <1>5, <1>6, <2>1
  <2>. QED
    BY <2>2, <2>3
<1>8. ASSUME NEW i \in 0 .. count, NEW j \in 0 .. count, i # j
      PROVE  slave'[i] # slave'[j]
  <2>1. \A k \in Index : slave[k] # b
    BY DEF Listed
  <2>2. \A k, m \in Index : k # m => slave[k] # slave[m]
    BY DEF OneOwner
  <2>3. i \in Int /\ j \in Int
    BY <1>1
  <2>. QED
    BY <1>2, <1>8, <2>1, <2>2, <2>3
<1>9. Len(Contents) = count
  BY <1>1 DEF Contents
<1>10. ASSUME NEW k \in 1 .. (count + 1)
       PROVE  heap'[slave'[k - 1]] = IF k =< index THEN Contents[k]
                                     ELSE IF k = index + 1 THEN heap'[b] ELSE Contents[k - 1]
  <2>1. k - 1 \in 0 .. count
    BY <1>1
  <2>2. CASE k =< index
    <3>1. slave'[k - 1] = slave[k - 1] /\ k - 1 \in Index /\ k \in 1 .. count
      BY <1>1, <2>1, <2>2 DEF Index
    <3>. QED
      BY <2>2, <3>1 DEF Contents, Listed
  <2>3. CASE k = index + 1
    BY <1>1, <2>3
  <2>4. CASE k > index + 1
    <3>1. slave'[k - 1] = slave[(k - 1) - 1] /\ (k - 1) - 1 \in Index /\ k - 1 \in 1 .. count
      BY <1>1, <2>1, <2>4 DEF Index
    <3>. QED
      BY <1>1, <2>4, <3>1 DEF Contents, Listed
  <2>. QED
    BY <1>1, <2>2, <2>3, <2>4
<1>11. Contents' = [k \in 1 .. (count + 1) |-> heap'[slave'[k - 1]]]
  BY <1>1 DEF Contents
<1>. QED
  BY <1>1, <1>4, <1>7, <1>8, <1>9, <1>10, <1>11
------------------------------------------------------------------------------
(***************************************************************************)
(* Every action keeps the ownership and does what SlaveSequence says.  The *)
(* old interface's functions are the new one's by definition.              *)
(***************************************************************************)
Keeps == HeapInv' /\ Sequence!Next

LEMMA HeapInitInv == HeapInit => HeapInv /\ Sequence!Init
<1>. SUFFICES ASSUME HeapInit
              PROVE  HeapInv /\ Sequence!Init
  OBVIOUS
<1>1. count = 0 /\ Index = {} /\ Listed = {} /\ Live = {}
  BY DEF HeapInit, Index, Listed, Live
<1>2. slave \in [Index -> Block]
  BY <1>1 DEF HeapInit
<1>3. Contents = << >>
  BY <1>1 DEF Contents
<1>. QED
  BY <1>1, <1>2, <1>3 DEF HeapInit, HeapInv, HeapTypeOK, OneOwner, ToldStayValid, Sequence!Init

\* A new record is the application's; the list and the other records stay.
LEMMA MakeSlaveKeeps == HeapInv /\ MakeSlave => Keeps
<1>. SUFFICES ASSUME HeapInv, MakeSlave
              PROVE  Keeps
  OBVIOUS
<1>1. PICK b \in Block, record \in Record :
         heap[b] = NULL /\ heap' = [heap EXCEPT ![b] = record] /\ owned' = owned \cup {b}
  <2>1. PICK b \in Block, id \in Id, serial \in Serial \cup {NULL} :
           /\ \/ serial \in Serial /\ pa_disco_slave_new(b, id, serial)
              \/ modbus_disco_slave_new(b, id, serial)
           /\ owned' = owned \cup {b}
    BY DEF MakeSlave
  <2>2. PICK s \in Serial : pa_disco_slave_new(b, id, s)
    BY <2>1, HeapAssumption DEF modbus_disco_slave_new
  <2>. QED
    BY <2>1, <2>2 DEF pa_disco_slave_new, Record
<1>2. /\ UNCHANGED <<api, slave, count, told, lost>> /\ Index' = Index /\ Listed' = Listed
      /\ call'.fn = "record"
  BY DEF MakeSlave, Index, Listed, Call
<1>3. Live' = Live \cup {b} /\ b \notin Live
  BY <1>1, HeapAssumption DEF Live, HeapInv, HeapTypeOK, Record
<1>4. Contents' = Contents
  BY <1>1, <1>2, <1>3, ListedRecords DEF Contents, HeapInv, HeapTypeOK, Index
<1>5. HeapTypeOK'
  BY <1>1, <1>2 DEF HeapInv, HeapTypeOK, Record
<1>6. OneOwner' /\ ToldStayValid'
  BY <1>1, <1>2, <1>3 DEF HeapInv, OneOwner, ToldStayValid
<1>. QED
  BY <1>2, <1>4, <1>5, <1>6 DEF Keeps, HeapInv, Sequence!Next, Sequence!Records

LEMMA DeleteSlaveKeeps == HeapInv /\ DeleteSlave => Keeps
<1>. SUFFICES ASSUME HeapInv, DeleteSlave
              PROVE  Keeps
  OBVIOUS
<1>1. PICK b \in owned : heap' = [heap EXCEPT ![b] = NULL] /\ owned' = owned \ {b}
  BY DEF DeleteSlave, pa_disco_slave_delete, modbus_disco_slave_delete
<1>2. /\ UNCHANGED <<api, slave, count, told, lost>> /\ Index' = Index /\ Listed' = Listed
      /\ call'.fn = "record"
  BY DEF DeleteSlave, Index, Listed, Call
<1>3. Live' = Live \ {b} /\ b \notin Listed /\ b \notin lost
  BY <1>1 DEF Live, HeapInv, HeapTypeOK, OneOwner
<1>4. Contents' = Contents
  BY <1>1, <1>2, <1>3, ListedRecords DEF Contents, HeapInv, HeapTypeOK, Index
<1>5. HeapTypeOK'
  BY <1>1, <1>2 DEF HeapInv, HeapTypeOK, Record
<1>6. OneOwner' /\ ToldStayValid'
  BY <1>1, <1>2, <1>3 DEF HeapInv, OneOwner, ToldStayValid
<1>. QED
  BY <1>2, <1>4, <1>5, <1>6 DEF Keeps, HeapInv, Sequence!Next, Sequence!Records

\* A record that the application gives to the list.
LEMMA GivenKeeps ==
    ASSUME HeapInv, NEW b \in owned, NEW index \in Int, NEW realloced \in BOOLEAN,
           pa_disco_list_insert(b, index, realloced),
           owned' = (IF Inserts(index, realloced) THEN owned \ {b} ELSE owned),
           Call("insert", index, heap[b], Inserts(index, realloced)),
           UNCHANGED <<api, heap, told, lost>>
    PROVE  Keeps
<1>. USE DEF HeapInv
<1>1. b \in Block /\ b \notin Listed /\ b \notin lost /\ b \in Live
  BY DEF HeapTypeOK, OneOwner
<1>2. /\ call'.fn = "insert" /\ call'.index = index /\ call'.slave = heap[b]
      /\ call'.ok = Inserts(index, realloced)
  BY DEF Call
<1>3. CASE ~Inserts(index, realloced)
  <2>1. UNCHANGED <<slave, count, owned>>
    BY <1>3 DEF pa_disco_list_insert
  <2>2. Index' = Index /\ Listed' = Listed /\ Live' = Live /\ Contents' = Contents
    BY <2>1 DEF Index, Listed, Live, Contents
  <2>3. HeapInv'
    BY <2>1, <2>2 DEF HeapTypeOK, OneOwner, ToldStayValid
  <2>4. Sequence!Insert
    BY <1>2, <1>3, <2>2 DEF Sequence!Insert
  <2>. QED
    BY <2>3, <2>4 DEF Keeps, Sequence!Next
<1>4. CASE Inserts(index, realloced)
  <2>1. index \in 0 .. count /\ pa_disco_list_insert(b, index, TRUE)
    BY <1>4 DEF Inserts, pa_disco_list_insert
  <2>2. /\ count' \in Nat /\ slave' \in [Index' -> Block]
        /\ Listed' = Listed \cup {b}
        /\ \A i, j \in Index' : i # j => slave'[i] # slave'[j]
        /\ Len(Contents) = count
        /\ Contents' = [k \in 1 .. (count + 1) |->
                           IF k =< index THEN Contents[k]
                           ELSE IF k = index + 1 THEN heap'[b] ELSE Contents[k - 1]]
    BY <1>1, <2>1, InsertEffect
  <2>3. owned' = owned \ {b} /\ Live' = Live
    BY <1>4 DEF Live
  <2>4. HeapInv'
    BY <1>1, <2>2, <2>3 DEF HeapTypeOK, OneOwner, ToldStayValid
  <2>5. Sequence!Insert
    BY <1>2, <1>4, <2>1, <2>2 DEF Sequence!Insert
  <2>. QED
    BY <2>4, <2>5 DEF Keeps, Sequence!Next
<1>. QED
  BY <1>3, <1>4

LEMMA InsertKeeps == HeapInv /\ (Insert \/ AppendSlave) => Keeps
<1>. SUFFICES ASSUME HeapInv, Insert \/ AppendSlave
              PROVE  Keeps
  OBVIOUS
<1>1. count \in Nat
  BY DEF HeapInv, HeapTypeOK
<1>2. CASE Insert
  <2>1. PICK b \in owned, index \in -1 .. (count + 1), realloced \in BOOLEAN :
           /\ pa_disco_list_insert(b, index, realloced)
           /\ owned' = IF Inserts(index, realloced) THEN owned \ {b} ELSE owned
           /\ Call("insert", index, heap[b], Inserts(index, realloced))
    BY <1>2 DEF Insert, modbus_disco_list_insert
  <2>2. UNCHANGED <<api, heap, told, lost>> /\ index \in Int
    BY <1>1, <1>2 DEF Insert
  <2>. QED
    BY <2>1, <2>2, GivenKeeps
<1>3. CASE AppendSlave
  <2>1. PICK b \in owned, realloced \in BOOLEAN :
           /\ pa_disco_list_insert(b, count, realloced)
           /\ owned' = IF realloced THEN owned \ {b} ELSE owned
           /\ Call("insert", count, heap[b], realloced)
    BY <1>3 DEF AppendSlave, modbus_disco_list_append, modbus_disco_list_insert,
                pa_disco_list_append
  <2>2. UNCHANGED <<api, heap, told, lost>> /\ count \in Int
    BY <1>1, <1>3 DEF AppendSlave
  <2>3. Inserts(count, realloced) = realloced
    BY <1>1 DEF Inserts
  <2>. QED
    BY <2>1, <2>2, <2>3, GivenKeeps
<1>. QED
  BY <1>2, <1>3

\* Changing addresses moves no record.
LEMMA SetIdInv ==
    ASSUME HeapInv, NEW index \in Int, NEW id \in Id, pa_disco_list_set_slave_id(index, id),
           UNCHANGED <<api, slave, count, owned, lost>>, told' \subseteq told \cup Listed
    PROVE  HeapInv'
<1>1. heap' \in [Block -> Record \cup {NULL}] /\ Live' = Live /\ Listed' = Listed
  BY SetIdEffect DEF HeapInv
<1>2. Index' = Index /\ Listed \subseteq Block
  BY DEF Index, HeapInv, HeapTypeOK, Listed
<1>. QED
  BY <1>1, <1>2 DEF HeapInv, HeapTypeOK, OneOwner, ToldStayValid, Record

LEMMA SetSlaveIdKeeps == HeapInv /\ (SetSlaveId \/ SetSlaveIdOf) => Keeps
<1>. SUFFICES ASSUME HeapInv, SetSlaveId \/ SetSlaveIdOf
              PROVE  Keeps
  OBVIOUS
<1>1. count \in Nat /\ HeapTypeOK /\ OneOwner
  BY DEF HeapInv, HeapTypeOK
<1>2. CASE SetSlaveId
  <2>1. PICK id \in Id, index \in -1 .. count :
           /\ pa_disco_list_set_slave_id(index, id)
           /\ Call("set_id", index, [slave_id |-> id, serialno |-> ZeroSerial], TRUE)
    BY <1>2 DEF SetSlaveId, modbus_disco_list_set_slave_id
  <2>2. UNCHANGED <<api, slave, count, owned, told, lost>> /\ index \in Int
    BY <1>1, <1>2 DEF SetSlaveId
  <2>3. /\ call'.fn = "set_id" /\ call'.index = index
        /\ call'.slave = [slave_id |-> id, serialno |-> ZeroSerial]
    BY <2>1 DEF Call
  <2>4. HeapInv'
    BY <2>1, <2>2, SetIdInv
  <2>5. Sequence!Next
    BY <1>1, <2>1, <2>2, <2>3, HeapAssumption, SetIdIsSequence
  <2>. QED
    BY <2>4, <2>5 DEF Keeps
<1>3. CASE SetSlaveIdOf
  <2>1. PICK id \in Id, serial \in Serial :
           /\ pa_disco_list_set_slave_id(pa_disco_list_find_serialno(serial), id)
           /\ Call("set_id_of", 0, [slave_id |-> id, serialno |-> serial], TRUE)
    BY <1>3 DEF SetSlaveIdOf, modbus_disco_list_set_slave_id, modbus_disco_list_find_serialno
  <2>2. UNCHANGED <<api, slave, count, owned, told, lost>>
    BY <1>3 DEF SetSlaveIdOf
  <2>3. call'.fn = "set_id_of" /\ call'.slave = [slave_id |-> id, serialno |-> serial]
    BY <2>1 DEF Call
  <2>4. PICK index \in Int : index = pa_disco_list_find_serialno(serial)
    BY <1>1, FindFirst, ListedRecords
  <2>5. HeapInv'
    BY <2>1, <2>2, <2>4, SetIdInv
  <2>6. Sequence!Next
    BY <1>1, <2>1, <2>2, <2>3, <2>4, SetIdIsSequence
  <2>. QED
    BY <2>5, <2>6 DEF Keeps
<1>. QED
  BY <1>2, <1>3

\* Clearing frees the listed records, each once, and no other.
LEMMA ClearKeeps == HeapInv /\ Clear => Keeps
<1>. SUFFICES ASSUME HeapInv, Clear
              PROVE  Keeps
  OBVIOUS
<1>1. /\ heap' = [b \in Block |-> IF b \in Listed THEN NULL ELSE heap[b]]
      /\ slave' = << >> /\ count' = 0 /\ told' = {} /\ UNCHANGED <<api, owned, lost>>
      /\ call'.fn = "clear"
  BY DEF Clear, pa_disco_list_clear, modbus_disco_list_delete, Call
<1>2. Index' = {} /\ Listed' = {} /\ slave' \in [Index' -> Block]
  BY <1>1 DEF Index, Listed
<1>3. Live' = Live \ Listed
  BY <1>1 DEF Live, Listed
<1>4. Contents' = << >>
  BY <1>1 DEF Contents
<1>5. HeapTypeOK'
  BY <1>1, <1>2 DEF HeapInv, HeapTypeOK
<1>6. OneOwner' /\ ToldStayValid'
  BY <1>1, <1>2, <1>3 DEF HeapInv, OneOwner, ToldStayValid
<1>. QED
  BY <1>1, <1>4, <1>5, <1>6 DEF Keeps, HeapInv, Sequence!Next, Sequence!Clear

LEMMA AppendIsFunction ==
    ASSUME NEW S, NEW s \in Seq(S), NEW e \in S
    PROVE  Append(s, e) = [k \in 1 .. (Len(s) + 1) |-> IF k =< Len(s) THEN s[k] ELSE e]
<1>. DEFINE t == [k \in 1 .. (Len(s) + 1) |-> IF k =< Len(s) THEN s[k] ELSE e]
<1>1. t \in Seq(S) /\ Len(t) = Len(s) + 1
  OBVIOUS
<1>2. \A k \in 1 .. Len(s) : t[k] = s[k]
  OBVIOUS
<1>3. t[Len(s) + 1] = e
  OBVIOUS
<1>. HIDE DEF t
<1>4. /\ Append(s, e) \in Seq(S) /\ Len(Append(s, e)) = Len(s) + 1
      /\ \A k \in 1 .. Len(s) : Append(s, e)[k] = s[k]
      /\ Append(s, e)[Len(s) + 1] = e
  BY AppendProperties
<1>5. \A k \in 1 .. Len(Append(s, e)) : Append(s, e)[k] = t[k]
  BY <1>2, <1>3, <1>4
<1>6. Append(s, e) = t
  BY <1>1, <1>4, <1>5, SeqEqual
<1>. QED
  BY <1>6 DEF t

\* The master's update: a known slave's record keeps its place, an unknown
\* slave's goes to the end or, when the array cannot grow, is lost.
LEMMA UpdateKeeps == HeapInv /\ update_slave_list => Keeps
<1>. SUFFICES ASSUME HeapInv, update_slave_list
              PROVE  Keeps
  OBVIOUS
<1>1. count \in Nat /\ HeapTypeOK /\ OneOwner
  BY DEF HeapInv, HeapTypeOK
<1>2. PICK id \in Id, serial \in Serial :
         /\ UpdateKnown(id, serial) \/ AddUnknown(id, serial)
         /\ Call("update", 0, [slave_id |-> id, serialno |-> serial], TRUE)
  BY DEF update_slave_list
<1>. DEFINE record == [slave_id |-> id, serialno |-> serial]
<1>3. call'.fn = "update" /\ call'.slave = record /\ UNCHANGED <<api, owned>>
  BY <1>2 DEF Call, update_slave_list
<1>4. PICK index \in Int : index = pa_disco_list_find_serialno(serial)
  BY <1>1, FindFirst, ListedRecords
<1>5. CASE UpdateKnown(id, serial)
  <2>1. index \in Index /\ pa_disco_list_set_slave_id(index, id) /\ UNCHANGED <<slave, count, lost>>
    BY <1>1, <1>4, <1>5, FindFirst DEF UpdateKnown
  <2>2. told' \subseteq told \cup Listed
    BY <1>4, <1>5, <2>1 DEF UpdateKnown, pa_disco_list_at, Listed
  <2>3. HeapInv'
    BY <1>3, <2>1, <2>2, SetIdInv
  <2>4. Sequence!Next
    BY <1>1, <1>3, <1>4, <2>1, SetIdIsSequence
  <2>. QED
    BY <2>3, <2>4 DEF Keeps
<1>6. CASE AddUnknown(id, serial)
  <2>1. PICK b \in Block, realloced \in BOOLEAN :
           /\ index < 0 /\ heap[b] = NULL /\ heap' = [heap EXCEPT ![b] = record]
           /\ pa_disco_list_insert(b, count, realloced)
           /\ told' = told \cup {b}
           /\ lost' = IF realloced THEN lost ELSE lost \cup {b}
    BY <1>4, <1>6 DEF AddUnknown, pa_disco_slave_new, pa_disco_list_append
  <2>2. b \notin Live /\ Live' = Live \cup {b} /\ heap' \in [Block -> Record \cup {NULL}]
    <3>1. record \in Record /\ record # NULL
      BY HeapAssumption DEF Record
    <3>. HIDE DEF record
    <3>. QED
      BY <2>1, <3>1, HeapAssumption DEF Live, HeapInv, HeapTypeOK, Record
  <2>3. b \notin Listed /\ b \notin owned /\ b \notin lost /\ \A c \in Listed : heap'[c] = heap[c]
    BY <2>1, <2>2, ListedRecords DEF HeapInv, OneOwner, HeapTypeOK, Live
  <2>4. Sequence!Unknown
    <3>1. \A i \in Index : heap[slave[i]].serialno # serial
      BY <1>1, <1>4, <2>1, FindFirst, ListedRecords
    <3>2. Len(Contents) = count
      BY <1>1 DEF Contents
    <3>3. \A i \in Index : Contents[i + 1] = heap[slave[i]]
      <4>1. \A i \in Index : i + 1 \in 1 .. count /\ (i + 1) - 1 = i
        BY <1>1 DEF Index
      <4>. QED
        BY <4>1 DEF Contents
    <3>4. call'.slave.serialno = serial
      BY <1>3
    <3>. QED
      BY <3>1, <3>2, <3>3, <3>4 DEF Sequence!Unknown, Sequence!Position, Index
  <2>5. CASE realloced = TRUE
    <3>1. /\ count' \in Nat /\ slave' \in [Index' -> Block]
          /\ Listed' = Listed \cup {b}
          /\ \A i, j \in Index' : i # j => slave'[i] # slave'[j]
          /\ Len(Contents) = count
          /\ Contents' = [k \in 1 .. (count + 1) |->
                             IF k =< count THEN Contents[k]
                             ELSE IF k = count + 1 THEN heap'[b] ELSE Contents[k - 1]]
      <4>1. count \in 0 .. count /\ pa_disco_list_insert(b, count, TRUE)
        BY <1>1, <2>1, <2>5 DEF pa_disco_list_insert, Inserts
      <4>. QED
        BY <1>1, <2>3, <4>1, InsertEffect
    <3>2. HeapInv'
      <4>1. lost' = lost /\ owned' = owned /\ api' = api /\ told' = told \cup {b}
        BY <1>3, <2>1, <2>5
      <4>2. HeapTypeOK'
        BY <2>2, <3>1, <4>1 DEF HeapInv, HeapTypeOK, Record
      <4>3. OneOwner'
        BY <2>2, <2>3, <3>1, <4>1 DEF HeapInv, OneOwner
      <4>4. ToldStayValid'
        BY <3>1, <4>1 DEF HeapInv, ToldStayValid
      <4>. QED
        BY <4>2, <4>3, <4>4 DEF HeapInv
    <3>3. heap'[b] = record
      BY <2>1 DEF HeapInv, HeapTypeOK
    <3>4. Contents' = Append(Contents, record)
      <4>1. Contents \in Seq(Record)
        BY <1>1, ListedRecords DEF Contents, Index
      <4>. HIDE DEF record
      <4>2. Contents' = [k \in 1 .. (count + 1) |-> IF k =< count THEN Contents[k] ELSE record]
        BY <1>1, <3>1, <3>3
      <4>3. record \in Record
        BY DEF record, Record
      <4>. QED
        BY <3>1, <4>1, <4>2, <4>3, AppendIsFunction
    <3>5. Sequence!Update
      BY <1>3, <2>4, <3>4 DEF Sequence!Update
    <3>. QED
      BY <3>2, <3>5 DEF Keeps, Sequence!Next
  <2>6. CASE realloced = FALSE
    <3>1. UNCHANGED <<slave, count>> /\ Index' = Index /\ Listed' = Listed
      BY <2>1, <2>6 DEF pa_disco_list_insert, Inserts, Index, Listed
    <3>2. HeapInv'
      BY <1>3, <2>1, <2>2, <2>3, <2>6, <3>1 DEF HeapInv, HeapTypeOK, OneOwner, ToldStayValid, Record
    <3>3. UNCHANGED Contents
      BY <2>3, <3>1, ListedRecords, <1>1 DEF Contents, Index
    <3>4. Sequence!Update
      BY <1>3, <2>4, <3>3 DEF Sequence!Update
    <3>. QED
      BY <3>2, <3>4 DEF Keeps, Sequence!Next
  <2>. QED
    BY <2>5, <2>6
<1>. QED
  BY <1>2, <1>5, <1>6

LEMMA HeapStep == HeapInv /\ [HeapNext]_heapVars => HeapInv' /\ [Sequence!Next]_(Sequence!sequenceVars)
<1>1. HeapInv /\ HeapNext => Keeps
  BY MakeSlaveKeeps, DeleteSlaveKeeps, InsertKeeps, SetSlaveIdKeeps, ClearKeeps, UpdateKeeps
  DEF HeapNext
<1>2. HeapInv /\ UNCHANGED heapVars => HeapInv' /\ UNCHANGED Sequence!sequenceVars
  BY DEF heapVars, HeapInv, HeapTypeOK, OneOwner, ToldStayValid, Listed, Live, Index,
         Contents, Sequence!sequenceVars
<1>. QED
  BY <1>1, <1>2 DEF Keeps
------------------------------------------------------------------------------
LEMMA HeapInvariant == HeapSpec => []HeapInv
<1>1. HeapInit => HeapInv
  BY HeapInitInv
<1>2. HeapInv /\ [HeapNext]_heapVars => HeapInv'
  BY HeapStep
<1>. QED
  BY <1>1, <1>2, PTL DEF HeapSpec

\* OneOwner: no record is freed twice, used after it is freed, or forgotten
\* but by an update whose append failed, for any number of records.
THEOREM EveryRecordHasOneOwner == HeapSpec => []OneOwner
<1>1. HeapInv => OneOwner
  BY DEF HeapInv
<1>. QED
  BY <1>1, HeapInvariant, PTL

\* ToldStayValid: a notified record lives until the list is cleared.
THEOREM NotifiedStayValid == HeapSpec => []ToldStayValid
<1>1. HeapInv => ToldStayValid
  BY DEF HeapInv
<1>. QED
  BY <1>1, HeapInvariant, PTL

\* HeapTypeOK: the array always has exactly count cells, all of them records.
THEOREM HeapTypeCorrect == HeapSpec => []HeapTypeOK
<1>1. HeapInv => HeapTypeOK
  BY DEF HeapInv
<1>. QED
  BY <1>1, HeapInvariant, PTL

\* ListIsSequence: the pointers, the growing and the moving implement a
\* sequence of records, through either interface.
THEOREM ListImplementsSequence == HeapSpec => ListIsSequence
<1>1. HeapInit => Sequence!Init
  BY HeapInitInv
<1>2. HeapInv /\ [HeapNext]_heapVars => [Sequence!Next]_(Sequence!sequenceVars)
  BY HeapStep
<1>. QED
  BY <1>1, <1>2, HeapInvariant, PTL DEF HeapSpec, ListIsSequence, Sequence!Spec
==============================================================================
