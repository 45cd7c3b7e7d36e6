------------------------------ MODULE DiscoList ------------------------------
(***************************************************************************)
(* The slave list of src/src/pa_disco_list.c, as operators on a sequence   *)
(* of records [slave_id, serialno].  C positions count from 0, so position *)
(* i of the code is position i + 1 here; an operator that stands for a     *)
(* function returning an index, or -1, returns the code's value.  The      *)
(* user's arg pointer is never read by the library and is left out.        *)
(***************************************************************************)
EXTENDS Integers, Sequences

\* pa_disco_slave_new, when malloc succeeds.
pa_disco_slave_new(id, serial) == [slave_id |-> id, serialno |-> serial]

pa_disco_list_clear == << >>

\* Appending changes nothing when realloc fails.
pa_disco_list_append(l, slave, realloced) ==
    IF realloced THEN Append(l, slave) ELSE l

\* A slip: a serial number that is never found.
FindNothing(l, serial) == -1

\* The position of the first record with this serial number, -1 without one.
pa_disco_list_find_serialno(l, serial) ==
    LET hits == {i \in 0 .. (Len(l) - 1) : l[i + 1].serialno = serial}
    IN  IF hits = {} THEN -1 ELSE CHOOSE i \in hits : \A j \in hits : i =< j

\* A slip: the last record is taken to be out of range.
SetIdShort(l, index, id) ==
    IF index \in 0 .. (Len(l) - 2) THEN [l EXCEPT ![index + 1].slave_id = id] ELSE l

pa_disco_list_set_slave_id(l, index, id) ==
    IF index \in 0 .. (Len(l) - 1) THEN [l EXCEPT ![index + 1].slave_id = id] ELSE l
==============================================================================
