---------------------------- MODULE DiscoHeapList ----------------------------
(***************************************************************************)
(* The slave list as C keeps it: a growing array of pointers to records on *)
(* the heap.  DiscoList treats the list as a sequence of records; here it  *)
(* is memory, with an owner for every record.  Two interfaces work it,     *)
(* line by line the same but for their names: src/src/pa_disco_list.c and, *)
(* for code written against the old library, modbus-disco-list-compat.c.   *)
(* A program uses one of them.                                             *)
(*                                                                         *)
(* The actions are the application's calls and, with the new interface,    *)
(* the master's: its update of the list after a verify, with the record    *)
(* handed to notify_cb, and the clearing at a reset.                       *)
(***************************************************************************)
EXTENDS Integers, Sequences

CONSTANTS
    Block,                      \* what malloc can return for a record
    Id, Serial, ZeroSerial,
    NULL                        \* no serial number given, or a block not in use

ASSUME HeapAssumption ==
    /\ NULL \notin Block \cup Serial \cup [slave_id : Id, serialno : Serial]
    /\ ZeroSerial \in Serial

VARIABLES
    api,                        \* the interface this program uses
    heap,                       \* Block -> its record, or NULL
    slave, count,               \* the array, with its index range, and list->count
    owned,                      \* history: records made and not yet given to the list
    told,                       \* history: records handed to notify_cb since the last clear
    lost,                       \* history: records nobody will free
    call                        \* the latest operation: [fn, index, slave, ok]

heapVars == <<api, heap, slave, count, owned, told, lost, call>>

Index == 0 .. (count - 1)
Listed == {slave[k] : k \in Index}
Live == {b \in Block : heap[b] # NULL}

Call(fn, index, record, ok) ==
    call' = [fn |-> fn, index |-> index, slave |-> record, ok |-> ok]

\* pa_disco_list_init, modbus_disco_list_new.
HeapInit ==
    /\ api \in {"pa_disco", "modbus_disco"}
    /\ heap = [b \in Block |-> NULL]
    /\ slave = << >> /\ count = 0
    /\ owned = {} /\ told = {} /\ lost = {}
    /\ call = [fn |-> "clear", index |-> 0, slave |-> NULL, ok |-> TRUE]
------------------------------------------------------------------------------
(***************************************************************************)
(* Records.  A malloc that fails changes nothing.                          *)
(***************************************************************************)
pa_disco_slave_new(b, id, serial) ==
    /\ heap[b] = NULL
    /\ heap' = [heap EXCEPT ![b] = [slave_id |-> id, serialno |-> serial]]

\* A slip: a missing serial number is not looked for.
NewUnchecked(b, id, serial) == pa_disco_slave_new(b, id, serial)

modbus_disco_slave_new(b, id, serial) ==
    pa_disco_slave_new(b, id, IF serial = NULL THEN ZeroSerial ELSE serial)

pa_disco_slave_delete(b) == heap' = [heap EXCEPT ![b] = NULL]
modbus_disco_slave_delete(b) == pa_disco_slave_delete(b)
------------------------------------------------------------------------------
(***************************************************************************)
(* The list.                                                               *)
(***************************************************************************)
pa_disco_list_clear ==
    /\ heap' = [b \in Block |-> IF b \in Listed THEN NULL ELSE heap[b]]
    /\ slave' = << >> /\ count' = 0

modbus_disco_list_delete == pa_disco_list_clear

\* A slip: the tail is copied upwards from its lower end, over itself.
MovedForward(b, index) == [k \in 0 .. count |->
    IF k < index THEN slave[k] ELSE IF k = index THEN b ELSE slave[index]]

\* The array after the memmove and the store.
Moved(b, index) == [k \in 0 .. count |->
    IF k < index THEN slave[k] ELSE IF k = index THEN b ELSE slave[k - 1]]

Inserts(index, realloced) == index \in 0 .. count /\ realloced

pa_disco_list_insert(b, index, realloced) ==
    IF Inserts(index, realloced)
    THEN slave' = Moved(b, index) /\ count' = count + 1
    ELSE UNCHANGED <<slave, count>>

pa_disco_list_append(b, realloced) == pa_disco_list_insert(b, count, realloced)

modbus_disco_list_insert(b, index, realloced) == pa_disco_list_insert(b, index, realloced)
modbus_disco_list_append(b, realloced) == modbus_disco_list_insert(b, count, realloced)

\* NULL for a position that is not there.
pa_disco_list_at(index) == IF index \in Index THEN slave[index] ELSE NULL
modbus_disco_list_at(index) == pa_disco_list_at(index)

\* A slip: the search goes on after the first hit.
FindLast(serial) ==
    LET hits == {i \in Index : heap[slave[i]].serialno = serial}
    IN  IF hits = {} THEN -1 ELSE CHOOSE i \in hits : \A j \in hits : j =< i

pa_disco_list_find_serialno(serial) ==
    LET hits == {i \in Index : heap[slave[i]].serialno = serial}
    IN  IF hits = {} THEN -1 ELSE CHOOSE i \in hits : \A j \in hits : i =< j
modbus_disco_list_find_serialno(serial) == pa_disco_list_find_serialno(serial)

pa_disco_list_set_slave_id(index, id) ==
    heap' = IF pa_disco_list_at(index) = NULL THEN heap
            ELSE [heap EXCEPT ![slave[index]].slave_id = id]
modbus_disco_list_set_slave_id(index, id) == pa_disco_list_set_slave_id(index, id)
------------------------------------------------------------------------------
(***************************************************************************)
(* The application's calls, through either interface.                      *)
(***************************************************************************)
Old == api = "modbus_disco"
New == api = "pa_disco"

MakeSlave == \E b \in Block, id \in Id :
    /\ \/ New /\ \E serial \in Serial : pa_disco_slave_new(b, id, serial)
       \/ Old /\ \E serial \in Serial \cup {NULL} : modbus_disco_slave_new(b, id, serial)
    /\ owned' = owned \cup {b}
    /\ Call("record", 0, NULL, TRUE)
    /\ UNCHANGED <<api, slave, count, told, lost>>

\* It deletes only what it has not given away.
DeleteSlave == \E b \in owned :
    /\ (New /\ pa_disco_slave_delete(b)) \/ (Old /\ modbus_disco_slave_delete(b))
    /\ owned' = owned \ {b}
    /\ Call("record", 0, NULL, TRUE)
    /\ UNCHANGED <<api, slave, count, told, lost>>

Insert == \E b \in owned, index \in -1 .. (count + 1), realloced \in BOOLEAN :
    /\ \/ New /\ pa_disco_list_insert(b, index, realloced)
       \/ Old /\ modbus_disco_list_insert(b, index, realloced)
    /\ owned' = IF Inserts(index, realloced) THEN owned \ {b} ELSE owned
    /\ Call("insert", index, heap[b], Inserts(index, realloced))
    /\ UNCHANGED <<api, heap, told, lost>>

AppendSlave == \E b \in owned, realloced \in BOOLEAN :
    /\ \/ New /\ pa_disco_list_append(b, realloced)
       \/ Old /\ modbus_disco_list_append(b, realloced)
    /\ owned' = IF realloced THEN owned \ {b} ELSE owned
    /\ Call("insert", count, heap[b], realloced)
    /\ UNCHANGED <<api, heap, told, lost>>

\* The address of a record, found by position or by serial number.
SetSlaveId == \E id \in Id, index \in -1 .. count :
    /\ \/ New /\ pa_disco_list_set_slave_id(index, id)
       \/ Old /\ modbus_disco_list_set_slave_id(index, id)
    /\ Call("set_id", index, [slave_id |-> id, serialno |-> ZeroSerial], TRUE)
    /\ UNCHANGED <<api, slave, count, owned, told, lost>>

SetSlaveIdOf == \E id \in Id, serial \in Serial :
    /\ \/ New /\ pa_disco_list_set_slave_id(pa_disco_list_find_serialno(serial), id)
       \/ Old /\ modbus_disco_list_set_slave_id(modbus_disco_list_find_serialno(serial), id)
    /\ Call("set_id_of", 0, [slave_id |-> id, serialno |-> serial], TRUE)
    /\ UNCHANGED <<api, slave, count, owned, told, lost>>

\* What was handed out by notify_cb is no more to be used.
Clear ==
    /\ (New /\ pa_disco_list_clear) \/ (Old /\ modbus_disco_list_delete)
    /\ told' = {}
    /\ Call("clear", 0, NULL, TRUE)
    /\ UNCHANGED <<api, owned, lost>>
------------------------------------------------------------------------------
(***************************************************************************)
(* The master's update of the list, and the notification that follows it   *)
(* with the record; without memory for a record there is none.             *)
(***************************************************************************)
\* A slip: a slave that is found again gets a new record in the old one's place.
ReplaceKnown(id, serial) == \E b \in Block :
    LET index == pa_disco_list_find_serialno(serial)
    IN  /\ index >= 0 /\ heap[b] = NULL
        /\ heap' = [heap EXCEPT ![b] = [slave_id |-> id, serialno |-> serial], ![slave[index]] = NULL]
        /\ slave' = [slave EXCEPT ![index] = b]
        /\ told' = told \cup {b}
        /\ UNCHANGED <<count, lost>>

UpdateKnown(id, serial) ==
    LET index == pa_disco_list_find_serialno(serial)
    IN  /\ index >= 0
        /\ pa_disco_list_set_slave_id(index, id)
        /\ told' = told \cup {pa_disco_list_at(index)}
        /\ UNCHANGED <<slave, count, lost>>

\* The result of the append is not looked at: a record that does not fit into
\* the list is told all the same, and nobody will free it.
AddUnknown(id, serial) == \E b \in Block, realloced \in BOOLEAN :
    /\ pa_disco_list_find_serialno(serial) < 0
    /\ pa_disco_slave_new(b, id, serial)
    /\ pa_disco_list_append(b, realloced)
    /\ told' = told \cup {b}
    /\ lost' = IF realloced THEN lost ELSE lost \cup {b}

update_slave_list == \E id \in Id, serial \in Serial :
    /\ New
    /\ UpdateKnown(id, serial) \/ AddUnknown(id, serial)
    /\ Call("update", 0, [slave_id |-> id, serialno |-> serial], TRUE)
    /\ UNCHANGED <<api, owned>>

HeapNext ==
    \/ MakeSlave \/ DeleteSlave
    \/ Insert \/ AppendSlave \/ SetSlaveId \/ SetSlaveIdOf \/ Clear
    \/ update_slave_list

HeapSpec == HeapInit /\ [][HeapNext]_heapVars
------------------------------------------------------------------------------
(***************************************************************************)
(* Properties.                                                             *)
(***************************************************************************)
HeapTypeOK ==
    /\ api \in {"pa_disco", "modbus_disco"}
    /\ heap \in [Block -> [slave_id : Id, serialno : Serial] \cup {NULL}]
    /\ count \in Nat /\ slave \in [Index -> Block]
    /\ owned \subseteq Block /\ told \subseteq Block /\ lost \subseteq Block

\* Every live record has exactly one owner: one cell of the array, or the
\* application, or nobody, and every owner's record is live.  So clearing the
\* list frees no record twice, finding never looks into a freed one, and no
\* record is forgotten but by an update whose append failed.
OneOwner ==
    /\ \A i, j \in Index : i # j => slave[i] # slave[j]
    /\ Listed \cap owned = {} /\ Listed \cap lost = {} /\ owned \cap lost = {}
    /\ Listed \cup owned \cup lost = Live

\* What notify_cb handed out stays valid, and is in the list or lost, until
\* the list is cleared.
ToldStayValid == told \subseteq Listed \cup lost

\* The records behind the pointers.
Contents == [k \in 1 .. count |-> heap[slave[k - 1]]]

Sequence == INSTANCE SlaveSequence WITH seq <- Contents

\* Through either interface, the list is a sequence: a record goes in where it
\* was asked for and moves nothing else, a changed address is changed in one
\* record, the first that was meant, and a failed growth changes nothing.
ListIsSequence == Sequence!Spec
==============================================================================
