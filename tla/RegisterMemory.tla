---------------------------- MODULE RegisterMemory ----------------------------
(***************************************************************************)
(* What a register map promises, without offsets and arrays: a memory of   *)
(* Size words at consecutive MODBUS addresses, which count modulo          *)
(* RegModulus.  A read or write of a block of addresses happens as a whole *)
(* or not at all, and it happens exactly when the memory has all of them.  *)
(*                                                                         *)
(* call is the interface: the latest operation, with the words it wrote,   *)
(* or, for a read, the words it returned, none when it was refused.        *)
(***************************************************************************)
EXTENDS Integers, Sequences

CONSTANTS
    RegModulus,                 \* register addresses wrap here, 2^16
    Size                        \* the words of the memory

VARIABLES
    mem,                        \* the words, by address
    call                        \* [fn, addr, count, words]

memoryVars == <<mem, call>>

\* The i-th address after addr, and the count addresses from addr on.
At(addr, i) == (addr + i) % RegModulus
Cells(addr, count) == {At(addr, i) : i \in 0 .. (count - 1)}

Init ==
    /\ mem = [a \in DOMAIN mem |-> 0]
    /\ call.fn = "init"

Read ==
    /\ call'.fn = "read"
    /\ call'.words = IF Cells(call'.addr, call'.count) \subseteq DOMAIN mem
                     THEN [i \in 1 .. call'.count |-> mem[At(call'.addr, i - 1)]]
                     ELSE << >>
    /\ UNCHANGED mem

Outside(block, m) == [a \in DOMAIN m \ block |-> m[a]]

Write ==
    LET block == Cells(call'.addr, call'.count)
    IN  /\ call'.fn = "write"
        /\ \/ /\ block \subseteq DOMAIN mem
              /\ DOMAIN mem' = DOMAIN mem
              /\ \A i \in 1 .. call'.count : mem'[At(call'.addr, i - 1)] = call'.words[i]
              /\ Outside(block, mem') = Outside(block, mem)
           \/ /\ ~(block \subseteq DOMAIN mem)
              /\ UNCHANGED mem

\* The memory moves to other addresses; those the caller has words for hold
\* them, and what the others hold is left open.
Rebase ==
    /\ call'.fn = "rebase"
    /\ DOMAIN mem' = Cells(call'.addr, Size)
    /\ \A i \in 1 .. call'.count : i =< Size => mem'[At(call'.addr, i - 1)] = call'.words[i]

Clear ==
    /\ call'.fn = "init"
    /\ mem' = [a \in DOMAIN mem' |-> 0]

Next == Read \/ Write \/ Rebase \/ Clear

Spec == Init /\ [][Next]_memoryVars
==============================================================================
