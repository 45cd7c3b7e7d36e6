# pamodbus-disco: models and proofs

TLA+ models of the MODBUS slave discovery library in this repository, the TLC
runs that check them and the TLAPS proofs about the master, the line with its slaves,
the slave device and the slave list. Paths below are
relative to the repository's root (`src/pa_disco_master.c`, `README.md`, ...).

## The system

A master finds the slaves of an RS-485 line and gives each an address. The
protocol has four requests, all standard MODBUS frames: *reset* (write the
discovery block with zeros, everyone), *query* (read the block, everyone without
an address), *assign* (write the block with an address and a serial number) and
*verify* (read register 0 of the new address).

| component | state | operations | interacts with |
|---|---|---|---|
| master, `src/pa_disco_master.c` | state, three round counters, four timestamps, address counter, `verify_sent`, `received`, `reset`, last response, slave list | `pa_disco_master_service()` (one handler per call), `pa_disco_master_reset()` | pamodbus (set address, build, send, recv), callbacks for clock, flush, mutex, notification |
| slave, `src/pa_disco_slave.c` | its address (in pamodbus), its window, its own serial number | `pa_disco_slave_service()`, `read_cb`, `write_cb` | clock, flush, random, blocking delay; called from the register map |
| register map, `src/pa_disco_register_map.c` | 64 holding registers and their start | `service()` (receive, callback, answer), get/put, float32 | pamodbus, the slave's callbacks |
| slave list, `src/pa_disco_list.c` | array of heap records | new, insert, append, find, set id, clear | malloc, realloc, free |
| compatibility list, `src/modbus-disco-list-compat.c` | the same under older names | the same | application only, instead of the new list |
| pamodbus, hardware, application | not in this repository | | |

What is hard here: nothing in the library runs in parallel, but everything
around it does. Between two `service()` calls the clock ticks (and wraps),
responses arrive late, twice or not at all, other tasks take the bus mutex, the
application asks for a reset, slaves restart. A handler keeps its place in a
flag (`verify_sent`, `received`) or a timestamp that the next call relies on.
Every round is counted in a counter that is also refunded. A slave is blocked in
a delay and then deaf in its window while the line goes on.

What makes the parts correct:

- *master*: it owns the bus exactly during a cycle; it listens only to what it
  asked for; its counters count each round and each attempt once; it never hands
  out a listed address; a cycle always ends; a reset request is not lost.
- *list*: every serial number and every address once; it is what the application
  was told; every record has one owner, and a record the application was told of
  stays valid until the list is cleared.
- *slave and line*: no two slaves on one address; the list names who really
  answers; a cycle without faults finds everyone; no request is sent to a deaf
  slave; after faults, everyone is found again.
- *slave*: its address and the serial number it reports change only as discovery
  means them to; it takes one query per window and never stays deaf.
- *register map*: it is a memory: a request reads or writes exactly the
  registers it names, or none, wherever the array starts.

## Modules

| module | models |
|---|---|
| `DiscoWire` | the four requests, by the fields the two sides branch on |
| `DiscoList` | the slave list as operators on a sequence of records |
| `DiscoMaster` | the master: one action per handler, and its environment; its properties |
| `Discovery` | abstract: the cycle that the master's list goes through |
| `DiscoMasterProofs`, `DiscoCycleProofs` | theorems about `DiscoMaster`; that it implements `Discovery` |
| `DiscoSlave` | the slave with its register map's service loop, as functions of the slave |
| `DiscoBus` | `DiscoMaster` and `DiscoSlave` on one line, with faults |
| `DiscoBusProofs` | theorems about `DiscoBus`; that its master implements `Discovery` too |
| `DiscoAddressProofs` | that addresses on the line are unique, and listed under the slave that has them |
| `DiscoCompleteProofs` | that the address counter does not go round, and that a cycle without faults finds everyone |
| `DiscoRegisterMap` | the holding registers, their offsets and accessors |
| `RegisterMemory` | abstract: a memory of words by register address |
| `DiscoDevice` | `DiscoSlave` and `DiscoRegisterMap` as one device, against any request |
| `DiscoDeviceProofs` | theorems about the two; that they implement `RegisterMemory` |
| `DiscoHeapList` | the list as heap records behind an array of pointers, through either interface |
| `SlaveSequence` | abstract: a sequence of records |
| `DiscoHeapListProofs` | theorems about `DiscoHeapList`; that it implements `SlaveSequence` |
| `MCDiscoMaster`, `MCDiscoBus`, `MCDiscoDevice`, `MCDiscoHeapList` | instances for TLC, symmetry and views |

**DiscoMaster.** A `service()` call does not block, so it is one action: the
`switch` is the disjunction in `pa_disco_master_service`, and each
`do_state_*` carries the name of its handler. The variables are the fields of
`struct pa_disco_master`, the pamodbus address (`pam_slave`), the receiver
(`rx`) and the request transmitted by the latest step (`tx`). `do_state_wait` is
a receive attempt (`Arrived`, `Heard`, `HeardId`, ...) followed by one of three
outcomes; `do_state_verify` is phase A (`SendVerify`) or phase B (`PollVerify`).
`Elapsed` is the code's unsigned subtraction; without `get_ticks_cb` it is never
true, as in the code, and `Now` is 0. `NULL` callbacks are modelled by the
constant `Installed`; failing sends and failing allocations by `SendMayFail` and
`AllocMayFail`. Six variables are history, read by properties only: `wrapped`,
`quiet`, `wasted`, `verifies`, `request`, `announced`. Left out: `rsp_slave_id`,
`rsp_valid`, the list's `capacity` and a record's `arg`, which no code reads,
and the cycle-complete notification, which carries no news. Notifications from
inside a handler may call `pa_disco_master_reset()`; that has the effect of
calling it just after the handler returns.

**DiscoSlave.** A slave is the loop of `README.md`:
`pa_disco_slave_service`, and `pa_disco_register_map_service` when that allows.
The one call that blocks (the random delay in `pa_disco_slave_read_cb`) is cut in
two, up to the delay and after it (`Reply`). `self_serialno` is what
`pa_disco_slave_set_serialno` stored; `map_serialno` is what registers 24 to 29
hold, which is what a query's answer carries. They are two parameters because
the code stores them in two places; `DiscoBus` makes both constants,
`DiscoDevice` takes the second from the register map. What the callbacks return is
`do_reply`; a request that they allow is answered, or not if `pa_modbus_slave_respond`
or `pa_modbus_send` fails (`AnswerMayFail`: in `DiscoDevice`; in `DiscoBus` that
is an answer lost on the line).

**DiscoBus.** A request reaches every slave but those that miss it; an answer
reaches the master unless it is lost; a slave may restart. Each of these is a
fault, and `MaxFaults` bounds them. Frames take no time; a slave that has
something to do takes up to `SlaveLatency` ticks for each call, and the master's
calls are at most `MaxGap` ticks apart. Slaves do not see each other's answers.

**DiscoRegisterMap.** `holding_regs` is a function of the array's indices,
`Offset` the uint16_t subtraction, `Fits` the bounds test in int. A store past the
end, which a wrong test would let through, adds an index to the function, and
`MapTypeOK` sees it. A float is the pair of its halves. `call` records the latest
operation, with the words written or read; it is what the refinement compares.

**DiscoDevice.** The main loop of `README.md` with a whole register map behind
it: `WindowStep` while the window is open, `RequestStep` for a request that is
not delayed, `ReplyStep` for the answer to a query once its delay is over. The
registers are accessed when the callback allows it (`Respond`), whether or not an answer
comes of it. The
answer is read from the registers when it is built, which is after the delay.
While the delay blocks, the application (`Application`) does not run, as both are in
one loop. `Decoded` is the part of `pa_disco_slave_write_cb` that takes
an address and a serial number out of raw registers. `since` is history: the ticks
since the latest query, counted up to `disco_window_max` and never wrapping.

**DiscoHeapList.** `heap` gives each block its record, `slave` and `count` are
the array. `realloced` and a missing block stand for failing allocations. A program
uses the new interface or the old one (`api`), which differ in
`modbus_disco_slave_new`; only the new one is used by the master. The application may
own a record, give it to a list, or delete it while it is its own. The master's
calls are `update_slave_list`, with the notification that follows, and `Clear`.
History: `owned`, `told` (handed to `notify_cb`), `lost` (leaked by an append
that failed). The array's own block has one pointer, in the list, and is not
modelled.

**Refinements.** Three detailed modules implement abstract ones, each checked
by TLC as a property and proved:

| property | abstract | mapping |
|---|---|---|
| `ListFollowsCycle` | `Discovery` | the nine states to four phases; the list to the set of its records |
| `MapIsMemory` | `RegisterMemory` | the array and its start to a function of addresses |
| `ListIsSequence` | `SlaveSequence` | pointers to the records they lead to, in order |

`Discovery` says: a cycle begins, forgets all slaves, then finds slaves one by one,
each at an address that no slave found so far has, until the byte goes round;
a slave found again moves. Several states of the master are one phase, and most
steps (sends, waits, retries, losses) are stutters.

**pamodbus** is not in the repository and is modelled from its use: `recv`
uses up one frame; it returns `PA_OK` to a master for a frame of the slave it
addressed last, of any slave if that was the discovery address 0xFF; it hands a
slave the requests for its own address or for the discovery address; registers
that a response does not have read as 0; `pa_modbus_slave_respond` reads or writes
the registers of the pending request through the callbacks that
`pa_disco_register_map_init` installs. The map marks these definitions as
external.

## Runs

| run | shows |
|---|---|
| `master` | twelve safety properties of the master against a line that delivers any response at any time, and that its list follows the abstract cycle; once the line is silent, cycles start, end, release the mutex and serve reset requests, whatever sends fail |
| `bus` | six properties of master and slaves together, with two faults |
| `bus_live` | every slave is found again after a fault |
| `device` | a slave device against any request: its registers are a memory, its identity, address and windows are what discovery needs, its window ends |
| `heap` | the list as memory: one owner per record, valid records in the application's hands, a sequence behind the pointers |
| `attempts`, `reset_request`, `silence`, `readme_wiring`, `readme_slave`, `ghost_answer`, `register_33` | one documented claim each that the code does not keep; see *Findings* |

### Bounds, and why they are enough

- *Numbers.* The address byte wraps at `IdModulus` (256 in the code), ticks at
  `TickModulus` (2^32). Both are small so that wraps happen within a run; in
  `master` addresses (0 to 3) go round within a cycle, and the properties that a wrap
  ends say so, and ticks go round within a wait. Its settings are one reset, one
  round and one retry: each counter passes through its setting, 0 and below. One
  instance serves safety and liveness; the theorems say that its safety properties
  hold for any other. In `bus` and `bus_live` the byte is wide enough for no wrap in a cycle
  of few faults. Time spans are one to six ticks, with the relations of the README's
  settings: the slaves' window below the master's window, the guard above 0.
- *`MaxPending`* is 1 in `master`: the master takes one frame per call and
  flushes before each request, and `Deliver` may refill the receiver at once. In
  `bus` nothing bounds the receiver but the number of answers.
- *`MaxGap`* is 1: the master sees each tick. A gap as long as `TickModulus`
  would hide a deadline; in the code that is 49 days between two calls.
- *Data.* Two serial numbers that responses carry and the zero one in `master`;
  three slaves in `bus`, so that two are left waiting when one is assigned; two in
  `bus_live`.
- *Faults.* Two in `bus`, with three reset broadcasts, as in the README's
  settings; one with two in `bus_live`.
- *Device.* 34 registers instead of 64, from 0: the array then ends with register
  33, behind the discovery block, and both ends and the off-by-one of the block
  test are reached by the twelve requests of `MCRequests`. `RegModulus` is the
  real 2^16, and one image starts at 65530, so that the array's addresses wrap;
  another is longer than the array. Three register contents, one of them with a
  low byte that is an address. The window is 2 ticks, late by at most 1, and
  ticks wrap at 4. One request waits at a time: the window step flushes them all.
- *Heap.* Four blocks, so that a list of three can be inserted into in the middle
  while the application holds a record; three serial numbers, one all-zero; two addresses.

Symmetry of blocks in `heap` is that of `malloc`: which block it returns is
arbitrary. The views of `device` and `heap` leave out `call` and `stx`, which only
the properties of the step that writes them read.

Symmetry (`MCSymmetry`) permutes the serial numbers of slaves, which only
equality tells apart; it is used in `bus` and the runs of a single invariant, and in no
run that checks liveness. The views
(`MCView`) replace a timestamp by the time since it, and only where the current
state is going to read it: `do_state_start` and `do_state_finish` write
`refresh_start` before `do_state_idle` reads it, and `wait_start`, `verify_start`,
`wait_reset_start` and a slave's window start are written on entry to the only
state that reads them. Every guard and property depends on the view alone, so
states with one view have the same futures, and the runs that check liveness may
use it too. The views leave out `stx` in `bus` (it is
read in the step that writes it) and the history variables that the bus
properties do not read.

### Fairness

`FairSpec` asks that `service()` is called again and again, which
`include/pamodbus-disco.h` demands ("Call this periodically from the main loop"),
and that the clock runs. `BusFairSpec` asks the same of every slave's loop,
`DeviceFairSpec` of the one device. All
fairness is weak; nothing is assumed about sends, or faults, except that
`MaxFaults` bounds the last. The liveness properties of the master assume that from
some moment on the line is silent and nobody else takes the bus (`SilentLine`): a
line that answers every query for ever does keep a cycle going for ever, because each
assignment buys another round, and `trylock` may find the mutex taken whenever the
master asks. Both may happen at will before that moment.

## Findings

1. **Verify attempts** (`attempts`). `verify_repeat_cycles` is documented as the
   number of attempts; the code makes one more.
2. **Lost reset requests** (`reset_request`). `do_state_start` clears the flag
   that a request between `RESET_START` and `START` has set.
3. **Silence that is not** (`silence`). A transmission that fails uses up a round
   like a query that nobody answered; with a driver that fails for a moment, the
   cycle completes unheard.
4. **README master** (`readme_wiring`). The example passes `trylock` and not
   `unlock`: the mutex is taken for good.
5. **README slave** (`readme_slave`). The example's register map stays zeroed, so
   its answers carry the all-zero serial number, and the assignment that follows
   is one that every slave adopts.
6. **Ghost answer** (`ghost_answer`). A slave that missed every reset shares an
   address with another; both answer the verify read, the second answer is taken
   for the response to the next query, and the assignment made from it has no
   serial number: all slaves adopt it, all answer the next verify read, and
   the cycle feeds itself. Fewer faults than reset broadcasts
   cannot start it: run `bus` shows it, `AssignmentsNameOneSlave` proves it.
7. **Register 33** (`register_33`). The header gives the block as registers 23 to 32
   and the callbacks leave the others to the register map; their test ends with
   33, so that a read which starts there is never answered.

Also met: `test/README.md` and a comment in `broadcast_query` still give the block
seven registers, it has ten; the counter hands out 0xFF, the discovery address,
as its 255th address. A write of a part of the block that is addressed to a slave goes to
its registers and changes the serial number that it reports, which is not the one it
compares with; no document forbids it, and `IdentityKept` and
`AddressAssigned` say that nothing more happens. The union of the float accessors
calls its first half the high word; on a little-endian host it is the low one, and
registers hold the low word first. `pa_disco_list_clear` frees the array that
`brisc_heap_realloc` allocated with `brisc_string_free`, and records made by
`malloc` with `free`, where the old interface uses `brisc_heap_` for both. A
pointer from `pa_disco_register_map_get_ptr` means another register after
`set_holding`.

## Timing

`TimingAssumption` of `DiscoBus` is what the properties need of the settings. A
slave has up to two frames before the query in its receiver, then takes the query,
delays, answers, and closes its window, each call up to `SlaveLatency` late: five
latencies and the slave's window must fit into the master's window and guard
time. With fewer, TLC finds requests sent to deaf slaves; `RequestsHeard` proves that
they are enough. The README's
settings (window 100 ms and guard 50 ms, slaves' window up to 100 ms) allow a slave
9 ms per call, frame times not counted.

## Proofs

Everything is proved for every value of the constants that the assumptions
allow: any widths, settings, callbacks, responses, requests, failing sends and
allocations, any number of slaves, registers and heap blocks. Hypotheses beyond the
assumptions are named in the table (those of the theorems about slaves on the line
are justified under *Hypotheses*, below).

| theorem | property | argument |
|---|---|---|
| *DiscoMasterProofs* | | |
| `TypeCorrect` | `TypeOK` | `TypeInv`, inductive |
| `CycleLength`, `VerifyLimit` | `QuietAtFinish`, `VerifyBounded` | consequences of `TypeInv` |
| `BusOwnership` | `BusHeld` | inductive by itself |
| `VerifyListening` | `VerifyPhase` | inductive given `TypeInv` |
| `ListingIsVerified` | `OnlyVerifiedListed` | a step property, from `VerifyPhase` |
| `SerialsListedOnce`, `AddressesListedOnce` | `UniqueSerials`, `UniqueAddresses` | `ListInv`, inductive given `TypeInv` |
| `AssignmentsAreFresh` | `FreshAddress` | from `ListInv` |
| `ReceiverEmptied` | `FreshReceiver` | inductive by itself |
| `LateResetsServed` | `LateResetKept` | with: no late request is pending in the reset phase |
| *Discovery, DiscoCycleProofs* | | |
| `FoundOnce` | of `Discovery` | inductive, with: nothing is found when all is forgotten |
| `MasterImplementsDiscovery` | `ListFollowsCycle` | each handler is a step of the cycle or none, given `ListInv` |
| `ListedOncePerCycle` | | `FoundOnce` through the refinement |
| `NotificationsComplete` | `AnnouncedIsListed` | inductive given `ListInv`, if allocation does not fail |
| *DiscoBusProofs* | | |
| `BusTypeCorrect` | `TypeOK` | `BusTypeInv`, inductive |
| `BusImplementsDiscovery` | `ListFollowsCycle` | the master's steps as before, those of slaves are stutters |
| `RequestsHeard` | `NobodyDeaf` | `AllReady`, inductive, if both sides have a clock that outlasts the master's window |
| *DiscoAddressProofs* | | given `Wired` |
| `AddressesUnique`, `ListNamesSlaves` | `OneSlavePerAddress`, `ListedAreThemselves` | `AddressInv`, inductive |
| `AssignmentsNameSlaves` | `AssignmentNamesSlave`, until the counter goes round | the same |
| *DiscoCompleteProofs* | | given `Roomy`; the last one given less |
| `CounterNeverWraps` | | `CounterInv`, inductive: `AddressInv` and a count |
| `AssignmentsNameOneSlave` | `AssignmentNamesSlave` | without the proviso |
| `AddressesKept` | `AddressKept` | a step property, from `AddressInv` |
| `NobodyMissed` | `CompleteAtFinish` | `FoundInv`, inductive: `CounterInv` and the path of each slave |
| *DiscoDeviceProofs* | | |
| `MapTypeCorrect`, `ReadersAlwaysAgree` | `MapTypeOK`, `ReadersAgree` | inductive; arithmetic of offsets |
| `MapImplementsMemory`, `DeviceImplementsMemory` | `MapIsMemory` | each operation is one of the memory |
| `IdentityIsKept`, `AddressIsAssigned` | `IdentityKept`, `AddressAssigned` | step properties, given `DeviceInv` |
| `OneQueryOnly` | `OneQueryPerWindow` | from `WindowIsTime`, inductive |
| *DiscoHeapListProofs* | | |
| `HeapTypeCorrect`, `EveryRecordHasOneOwner`, `NotifiedStayValid` | `HeapTypeOK`, `OneOwner`, `ToldStayValid` | inductive together |
| `ListImplementsSequence` | `ListIsSequence` | each operation is one of the sequence, given `HeapInv` |

*Master.* `TypeOK` is not inductive: `repeat` stays within its setting only because a
round is either left, unanswered, lost or out. `Conserved` says so for each
state (`repeat + quiet + wasted = repeat_cycles`, one round less while waiting,
and the same for verify attempts); it also gives the two counting theorems.
`UniqueAddresses` is not inductive either: a new record's address is unlisted
because the counter is ahead of the list. `CounterAhead` says that, strictly
between the response that raises the counter and the end of the verification.
The recursive-looking search of the list is a `CHOOSE` of the least index, so
that its properties (`FindSerialno`, `SetSlaveId`) can be proved.

*Device.* `WindowIsTime` ties the wrapping clock to the time that really went by:
while the window is open and not run out, `since` is the difference of ticks
modulo `TickModulus`, and a closed window has run out. It is inductive because
the main loop is late by less than a wrap (`disco_window_max + MaxGap <
TickModulus`, part of `DeviceAssumption`; in the code 49 days). The memory
rests on three facts about offsets: a difference wraps at most once
(`WrapsOnce`), the offset of the k-th cell's address is k (`OffsetInverse`), and
a block fits exactly when all its addresses are in the array (`FitsIsInside`),
which needs `PA_DISCO_HOLDING_NREGS + MaxCount =< RegModulus`: a request
of 125 registers could otherwise come round to the array's start.

*Line.* `NobodyDeaf` says nothing about how a slave gets ready in time; `AllReady`
follows it there. While the master waits for answers, a slave is in one of four stages
(`Stage`): idle; with up to two requests and then the query in its receiver; in its delay; in
the rest of its window. Each stage bounds the time since the query by what the slave
has done since: one latency for each request it has taken, the time since it opened its
window, and how long the current call is overdue (`late`). The bounds add up to
`disco_window_max + 5 * SlaveLatency`, so when the master's window is over only the first
stage is left (`WindowsOver`). In the other states (`Listening`) no slave has a query left, and at most
two requests, three after a reset broadcast; that bound is what keeps the queue
in front of the query short, and it rests on the verify timeout and the guard time in the same way.

*Addresses.* That slaves have different addresses is not inductive, since what a slave
answers to also depends on what waits in its receiver. `AddressInv` therefore speaks
of the addresses that a slave has or will take (`MayHave`), and of which requests
can be waiting in each state (`Frames`). From there it follows the cycle:

- A slave that keeps an old address went past every bus reset, and each time was
  a fault (`Missed`); with fewer faults than resets nobody does (`ResetHeard`).
- During the search addresses are at most the counter, below it once a response has
  raised it (`Below`), and no two slaves have or will take one (`Unshared`): an
  assignment is for one serial number, and is to an address nobody has.
- That needs the assignment to have a serial number. A verify answer reads as the zero
  one; `Unanswerable` says that no left-over read is going to be answered in the
  window of a query, and `HeardNames` that what the master hears there has a serial
  number. This is what *Ghost answer* breaks when a slave missed the resets.
- A record is added on a verify answer, which only the slave that has the address
  sends (`Named`, `Answered`), so records name their slaves (`ListedOwn`).

*Counting.* The counter goes up for a response to a query, and only a slave without
an address answers one (`DelayedOpen`, `HeardOpen`). The assignment that follows
either gives it an address or reaches nobody, which is a fault. So the counter
is at most the number of slaves that have an address, plus the faults, plus one
while an assignment is due (`Counted`), and does not go round while there are more
addresses than that (`Unwrapped`). The bound on faults is for all of the run, not one cycle.

*Completeness.* In a cycle without faults each slave is followed (`Followed`): it has its
address and is listed with it (`Settled`), or has none, or is the one that is being
verified, whose assignment, verify read and answer are each on their way (`Verified`).
Whoever has no address when a query is sent has its answer on the way until the master hears one
(`QueryAnswered`). A round without an answer therefore finds everybody settled, and
that stays so. A cycle ends with such a round: `QuietAtFinish` counts rounds that
were unanswered or `wasted`, and none is wasted when no send fails (`NoWaste`).
The window's timing comes in through `AllReady`: everyone has answered when it is over.

*Hypotheses.* `Wired` is what `README.md` asks of an integration: clocks on both
sides, a `flush` callback, a serial number in each register map (finding 5 shows what
happens without), and a driver that transmits (finding 3). Clocks have to
outlast the longest wait (`ClocksWork`), as `uint32_t` milliseconds do. `SerialsAgree` says that
the serial number in a slave's registers is the one it compares with; the code stores the two apart.
`Roomy` adds two bounds on faults: fewer than there are reset broadcasts, which finding 6 shows
is needed, and an address for each slave and fault, of the 254 that there are. `NobodyMissed`
needs neither: only room for the slaves, and that the list can be allocated. Run
`bus` is an instance of all of them, with each kind of fault.

*Heap.* `OneOwner` needs `HeapTypeOK` (cells hold blocks), and `ToldStayValid`
needs `OneOwner` (what is in the list is nobody else's to delete).

Only model-checked: liveness (`RefreshRecurs`, `BusReleased`, `ResetServed`,
`EverybodyFound`, `WindowEnds`), which is out of the prover's reach, as is ENABLED.
Every invariant and every action property or refinement of a passing run is a
theorem.

## Not modelled

- Framing, CRC and timing of characters, collisions as such: pamodbus and the line.
- `set_settings`, `set_callbacks`, `set_window`, `set_serialno` and `set_req_cb`
  store what are constants here; a program that changes them between two calls
  of `service()` is not covered. `pa_disco_master_set_callbacks` stores a lock
  callback that nothing calls.
- Accessors that only read, and a record's `arg`.
- Runs without `get_ticks_cb`: `Installed` and `Provided` allow them and the safety
  theorems cover them, but a cycle or a window then never ends.
- A slave that answers queries and never adopts its address: by the code each
  assignment buys another round, so the cycle goes on.
- An application that uses a deleted record or deletes one it gave to a list:
  the interface forbids it.
- The tests and the build fragment, which hold no behaviour of the library.
