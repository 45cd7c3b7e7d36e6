---------------------------- MODULE SlaveSequence ----------------------------
(***************************************************************************)
(* What a slave list promises, without pointers: a sequence of records     *)
(* into which a record is inserted whole or not at all, in which the       *)
(* address of one record is changed at a time, and which is emptied.       *)
(*                                                                         *)
(* call is the interface: the latest operation with its arguments and, for *)
(* an insertion, whether it succeeded.  Positions count from 0, as in C.   *)
(***************************************************************************)
EXTENDS Integers, Sequences

VARIABLES
    seq,
    call                        \* [fn, index, slave, ok]

sequenceVars == <<seq, call>>

Position == 0 .. (Len(seq) - 1)

Init == seq = << >>

Insert ==
    /\ call'.fn = "insert"
    /\ \/ /\ call'.ok
          /\ call'.index \in 0 .. Len(seq)
          /\ seq' = [k \in 1 .. (Len(seq) + 1) |->
                        IF k =< call'.index THEN seq[k]
                        ELSE IF k = call'.index + 1 THEN call'.slave ELSE seq[k - 1]]
       \/ ~call'.ok /\ UNCHANGED seq

Readdressed(index, id) == [k \in 1 .. Len(seq) |->
    IF k = index + 1 THEN [seq[k] EXCEPT !.slave_id = id] ELSE seq[k]]

\* By position; a position that is not there changes nothing.
SetId ==
    /\ call'.fn = "set_id"
    /\ seq' = Readdressed(call'.index, call'.slave.slave_id)

\* By serial number: the first record that has it, if one has.
Readdress ==
    \E index \in Position :
          /\ seq[index + 1].serialno = call'.slave.serialno
          /\ \A i \in Position : i < index => seq[i + 1].serialno # call'.slave.serialno
          /\ seq' = Readdressed(index, call'.slave.slave_id)

Unknown == \A i \in Position : seq[i + 1].serialno # call'.slave.serialno

SetIdOf == call'.fn = "set_id_of" /\ (Readdress \/ (Unknown /\ UNCHANGED seq))

\* The master's way: a serial number that is not there yet goes to the end,
\* unless there is no memory for it.
Update ==
    /\ call'.fn = "update"
    /\ \/ Readdress
       \/ Unknown /\ (seq' = Append(seq, call'.slave) \/ UNCHANGED seq)

Clear == call'.fn = "clear" /\ seq' = << >>

\* Making and deleting records that are not in the list.
Records == call'.fn = "record" /\ UNCHANGED seq

Next == Insert \/ SetId \/ SetIdOf \/ Update \/ Clear \/ Records

Spec == Init /\ [][Next]_sequenceVars
==============================================================================
