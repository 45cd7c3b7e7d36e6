--------------------------- MODULE DiscoDeviceProofs ---------------------------
(***************************************************************************)
(* The register map of DiscoRegisterMap implements RegisterMemory, alone   *)
(* and in the device of DiscoDevice: for every size of the array, every    *)
(* place it may start at and every sequence of accesses.                   *)
(***************************************************************************)
EXTENDS DiscoDevice, TLAPS

\* A remainder is below its modulus.
LEMMA RemainderBelow ==
    ASSUME NEW m \in Nat \ {0}, NEW n \in Int
    PROVE  n % m \in 0 .. (m - 1)
OBVIOUS

\* A sum or difference of two addresses wraps at most once.
LEMMA WrapsOnce ==
    /\ RegModulus \in Nat \ {0}
    /\ \A x, y \in RegAddress :
         /\ (x + y) % RegModulus = IF x + y < RegModulus THEN x + y ELSE x + y - RegModulus
         /\ (x - y) % RegModulus = IF x >= y THEN x - y ELSE x - y + RegModulus
<1>1. RegModulus \in Nat \ {0}
  BY MapAssumption
<1>2. ASSUME NEW x \in RegAddress, NEW y \in RegAddress
      PROVE  (x + y) % RegModulus = IF x + y < RegModulus THEN x + y ELSE x + y - RegModulus
  BY <1>1 DEF RegAddress
<1>3. ASSUME NEW x \in RegAddress, NEW y \in RegAddress
      PROVE  (x - y) % RegModulus = IF x >= y THEN x - y ELSE x - y + RegModulus
  BY <1>1 DEF RegAddress
<1>. QED
  BY <1>1, <1>2, <1>3

\* So do those of the tick counter.
LEMMA TickWraps ==
    ASSUME NEW t \in 0 .. (TickModulus - 1), NEW start \in 0 .. (TickModulus - 1)
    PROVE  /\ (t + 1) % TickModulus = IF t + 1 = TickModulus THEN 0 ELSE t + 1
           /\ (t - start) % TickModulus = IF t >= start THEN t - start ELSE t - start + TickModulus
<1>1. TickModulus \in Nat \ {0}
  BY DeviceAssumption
<1>2. (t + 1) % TickModulus = IF t + 1 = TickModulus THEN 0 ELSE t + 1
  BY <1>1
<1>3. (t - start) % TickModulus = IF t >= start THEN t - start ELSE t - start + TickModulus
  BY <1>1
<1>. QED
  BY <1>2, <1>3

\* The uint16_t subtraction is undone by the uint16_t addition.
LEMMA OffsetInverse ==
    ASSUME holding_start \in RegAddress
    PROVE  /\ \A a \in RegAddress :
                  /\ Offset(a) \in RegAddress
                  /\ CellAddress(Offset(a)) = a
           /\ \A k \in RegAddress :
                  /\ CellAddress(k) \in RegAddress
                  /\ Offset(CellAddress(k)) = k
<1>1. RegModulus \in Nat \ {0}
  BY MapAssumption
<1>2. \A a \in RegAddress :
         Offset(a) = IF a >= holding_start THEN a - holding_start
                     ELSE a - holding_start + RegModulus
  BY WrapsOnce DEF Offset
<1>3. \A k \in RegAddress :
         CellAddress(k) = IF holding_start + k < RegModulus THEN holding_start + k
                          ELSE holding_start + k - RegModulus
  BY WrapsOnce DEF CellAddress
<1>4. ASSUME NEW a \in RegAddress
      PROVE  Offset(a) \in RegAddress /\ CellAddress(Offset(a)) = a
  <2>1. Offset(a) \in RegAddress
    BY <1>1, <1>2 DEF RegAddress
  <2>. QED
    BY <1>1, <1>2, <1>3, <2>1 DEF RegAddress
<1>5. ASSUME NEW k \in RegAddress
      PROVE  CellAddress(k) \in RegAddress /\ Offset(CellAddress(k)) = k
  <2>1. CellAddress(k) \in RegAddress
    BY <1>1, <1>3 DEF RegAddress
  <2>. QED
    BY <1>1, <1>2, <1>3, <2>1 DEF RegAddress
<1>. QED
  BY <1>4, <1>5

\* The array has the addresses whose offset is below its size.
LEMMA WindowByOffset ==
    ASSUME holding_start \in RegAddress
    PROVE  /\ Window \subseteq RegAddress
           /\ \A a \in RegAddress : a \in Window <=> Offset(a) < PA_DISCO_HOLDING_NREGS
<1>1. 0 .. (PA_DISCO_HOLDING_NREGS - 1) \subseteq RegAddress
  BY MapAssumption DEF RegAddress
<1>2. Window \subseteq RegAddress
  BY <1>1, OffsetInverse DEF Window
<1>3. ASSUME NEW a \in RegAddress, a \in Window
      PROVE  Offset(a) < PA_DISCO_HOLDING_NREGS
  <2>1. PICK k \in 0 .. (PA_DISCO_HOLDING_NREGS - 1) : a = CellAddress(k)
    BY <1>3 DEF Window
  <2>2. Offset(a) = k
    BY <1>1, <2>1, OffsetInverse
  <2>. QED
    BY <2>2, MapAssumption
<1>4. ASSUME NEW a \in RegAddress, Offset(a) < PA_DISCO_HOLDING_NREGS
      PROVE  a \in Window
  <2>1. Offset(a) \in 0 .. (PA_DISCO_HOLDING_NREGS - 1)
    BY <1>4, OffsetInverse, MapAssumption DEF RegAddress
  <2>. QED
    BY <2>1, OffsetInverse DEF Window
<1>. QED
  BY <1>2, <1>3, <1>4

\* The i-th register of a block that fits is the i-th cell after its first.
LEMMA BlockOffsets ==
    ASSUME holding_start \in RegAddress,
           NEW addr \in RegAddress, NEW count \in 1 .. MaxCount
    PROVE  /\ \A i \in 0 .. (count - 1) : Memory!At(addr, i) \in RegAddress
           /\ \A i \in 0 .. (count - 1) :
                  Offset(addr) + i < RegModulus =>
                      Offset(Memory!At(addr, i)) = Offset(addr) + i
<1>1. RegModulus \in Nat \ {0} /\ MaxCount =< RegModulus
  BY MapAssumption
<1>2. \A a \in RegAddress :
         Offset(a) = IF a >= holding_start THEN a - holding_start
                     ELSE a - holding_start + RegModulus
  BY WrapsOnce DEF Offset
<1>3. SUFFICES ASSUME NEW i \in 0 .. (count - 1)
               PROVE  /\ Memory!At(addr, i) \in RegAddress
                      /\ Offset(addr) + i < RegModulus =>
                             Offset(Memory!At(addr, i)) = Offset(addr) + i
  OBVIOUS
<1>4. Memory!At(addr, i) = IF addr + i < RegModulus THEN addr + i
                           ELSE addr + i - RegModulus
  <2>1. i \in RegAddress
    BY <1>1, MapAssumption DEF RegAddress
  <2>. QED
    BY <2>1, WrapsOnce DEF Memory!At
<1>5. Memory!At(addr, i) \in RegAddress
  BY <1>1, <1>4, MapAssumption DEF RegAddress
<1>. QED
  BY <1>1, <1>2, <1>4, <1>5, MapAssumption DEF RegAddress

\* The bounds test of the code, which looks at the first offset and the count,
\* accepts exactly the blocks all of whose registers the array has.
LEMMA FitsIsInside ==
    ASSUME holding_start \in RegAddress,
           NEW addr \in RegAddress, NEW count \in 1 .. MaxCount
    PROVE  Fits(addr, count) <=> Memory!Cells(addr, count) \subseteq Window
<1>1. Offset(addr) \in Nat
  BY OffsetInverse DEF RegAddress
<1>2. ASSUME Fits(addr, count)
      PROVE  Memory!Cells(addr, count) \subseteq Window
  <2>1. SUFFICES ASSUME NEW i \in 0 .. (count - 1)
                 PROVE  Memory!At(addr, i) \in Window
    BY DEF Memory!Cells
  <2>2. Offset(addr) + i < PA_DISCO_HOLDING_NREGS
    BY <1>1, <1>2, MapAssumption DEF Fits
  <2>3. Offset(Memory!At(addr, i)) = Offset(addr) + i
    BY <1>1, <2>2, BlockOffsets, MapAssumption
  <2>. QED
    BY <2>2, <2>3, BlockOffsets, WindowByOffset
<1>3. ASSUME ~Fits(addr, count)
      PROVE  ~(Memory!Cells(addr, count) \subseteq Window)
  <2>. DEFINE i == IF Offset(addr) >= PA_DISCO_HOLDING_NREGS
                   THEN 0 ELSE PA_DISCO_HOLDING_NREGS - Offset(addr)
  <2>1. /\ i \in 0 .. (count - 1)
         /\ Offset(addr) + i \in Nat /\ Offset(addr) + i >= PA_DISCO_HOLDING_NREGS
    BY <1>1, <1>3, MapAssumption DEF Fits
  <2>2. Offset(addr) + i < RegModulus
    BY <1>1, OffsetInverse, MapAssumption DEF RegAddress
  <2>3. Memory!At(addr, i) \in RegAddress /\ Offset(Memory!At(addr, i)) = Offset(addr) + i
    BY <2>1, <2>2, BlockOffsets
  <2>. HIDE DEF i
  <2>4. Memory!At(addr, i) \notin Window
    BY <2>1, <2>3, WindowByOffset, MapAssumption
  <2>. QED
    BY <2>1, <2>4 DEF Memory!Cells
<1>. QED
  BY <1>2, <1>3
------------------------------------------------------------------------------
(***************************************************************************)
(* Each operation does what RegisterMemory says.                           *)
(***************************************************************************)
\* What is at an address is what the array has at its offset.
ByOffset ==
    /\ DOMAIN Contents = Window
    /\ \A a \in Window : /\ a \in RegAddress
                       /\ Offset(a) \in 0 .. (PA_DISCO_HOLDING_NREGS - 1)
                       /\ Contents[a] = holding_regs[Offset(a)]

LEMMA ContentsByOffset == MapTypeOK => ByOffset
<1>. SUFFICES ASSUME MapTypeOK
              PROVE  ByOffset
  OBVIOUS
<1>1. ASSUME NEW a \in Window
      PROVE  a \in RegAddress /\ Offset(a) \in 0 .. (PA_DISCO_HOLDING_NREGS - 1)
  BY WindowByOffset, OffsetInverse, MapAssumption DEF MapTypeOK, RegAddress
<1>. QED
  BY <1>1 DEF Contents, Offset, ByOffset

LEMMA InitIsMemory == MapInit => MapTypeOK /\ Memory!Init
<1>. SUFFICES ASSUME MapInit
              PROVE  MapTypeOK /\ Memory!Init
  OBVIOUS
<1>1. MapTypeOK
  BY MapAssumption DEF MapInit, MapTypeOK, Zeroed, RegAddress
<1>2. DOMAIN Contents = Window /\ \A a \in Window : Contents[a] = 0
  BY <1>1, ContentsByOffset DEF MapInit, Zeroed, ByOffset
<1>3. Contents = [a \in DOMAIN Contents |-> 0]
  BY <1>2 DEF Contents
<1>. QED
  BY <1>1, <1>3 DEF Memory!Init, MapInit

LEMMA ClearIsMemory == pa_disco_register_map_init => MapTypeOK' /\ Memory!Clear
<1>. SUFFICES ASSUME pa_disco_register_map_init
              PROVE  MapTypeOK' /\ Memory!Clear
  OBVIOUS
<1>1. MapTypeOK'
  BY MapAssumption DEF pa_disco_register_map_init, MapTypeOK, Zeroed, RegAddress
<1>2. ByOffset'
  BY <1>1, ContentsByOffset, PTL
<1>3. DOMAIN Contents' = Window' /\ \A a \in Window' : Contents'[a] = 0
  BY <1>2 DEF pa_disco_register_map_init, Zeroed, ByOffset, Offset
<1>4. Contents' = [a \in DOMAIN Contents' |-> 0]
  BY <1>3 DEF Contents
<1>. QED
  BY <1>1, <1>4 DEF Memory!Clear, pa_disco_register_map_init, Call

\* A block that fits has its i-th register in the i-th cell after its first.
LEMMA BlockInArray ==
    ASSUME MapTypeOK,
           NEW addr \in RegAddress, NEW count \in 1 .. MaxCount, Fits(addr, count),
           NEW i \in 0 .. (count - 1)
    PROVE  /\ Memory!At(addr, i) \in Window
           /\ Offset(Memory!At(addr, i)) = Offset(addr) + i
           /\ Offset(addr) + i \in 0 .. (PA_DISCO_HOLDING_NREGS - 1)
<1>1. holding_start \in RegAddress
  BY DEF MapTypeOK
<1>2. Offset(addr) \in Nat /\ Offset(addr) + i < PA_DISCO_HOLDING_NREGS
  BY <1>1, OffsetInverse, MapAssumption DEF Fits, RegAddress
<1>3. /\ Memory!At(addr, i) \in RegAddress
      /\ Offset(Memory!At(addr, i)) = Offset(addr) + i
  BY <1>1, <1>2, BlockOffsets, MapAssumption
<1>. QED
  BY <1>1, <1>2, <1>3, WindowByOffset, MapAssumption

LEMMA ReadIsMemory ==
    ASSUME MapTypeOK, NEW addr \in RegAddress, NEW count \in 1 .. MaxCount,
           pam_read_holding_regs(addr, count)
    PROVE  MapTypeOK' /\ Memory!Read
<1>1. MapTypeOK' /\ Contents' = Contents
  BY DEF pam_read_holding_regs, MapTypeOK, Contents, Window, CellAddress
<1>2. call'.fn = "read" /\ call'.addr = addr /\ call'.count = count
  BY DEF pam_read_holding_regs, Call
<1>3. Fits(addr, count) <=> Memory!Cells(addr, count) \subseteq DOMAIN Contents
  BY FitsIsInside, ContentsByOffset DEF MapTypeOK, ByOffset
<1>4. ASSUME Fits(addr, count)
      PROVE  call'.words = [i \in 1 .. count |-> Contents[Memory!At(addr, i - 1)]]
  <2>1. ASSUME NEW i \in 1 .. count
        PROVE  Contents[Memory!At(addr, i - 1)] = holding_regs[Offset(addr) + i - 1]
    <3>1. i - 1 \in 0 .. (count - 1) /\ Offset(addr) \in Int
      BY OffsetInverse DEF MapTypeOK, RegAddress
    <3>2. Contents[Memory!At(addr, i - 1)] = holding_regs[Offset(addr) + (i - 1)]
      BY <1>4, <3>1, BlockInArray, ContentsByOffset DEF ByOffset
    <3>. QED
      BY <3>1, <3>2
  <2>. QED
    BY <1>4, <2>1 DEF pam_read_holding_regs, Call
<1>5. ASSUME ~Fits(addr, count)
      PROVE  call'.words = << >>
  BY <1>5 DEF pam_read_holding_regs, Call
<1>. QED
  BY <1>1, <1>2, <1>3, <1>4, <1>5 DEF Memory!Read

\* The three writes differ in how they name the count.
Written(addr, words) ==
    /\ Call("write", addr, Len(words), words)
    /\ holding_regs' = IF Fits(addr, Len(words)) THEN Stored(Offset(addr), words)
                       ELSE holding_regs
    /\ UNCHANGED holding_start

LEMMA WriteIsMemory ==
    ASSUME MapTypeOK, NEW addr \in RegAddress, NEW words \in Seq(Word),
           Len(words) \in 1 .. MaxCount, Written(addr, words)
    PROVE  MapTypeOK' /\ Memory!Write
<1>. DEFINE count == Len(words)
            block == Memory!Cells(addr, count)
<1>1. call'.fn = "write" /\ call'.addr = addr /\ call'.count = count /\ call'.words = words
  BY DEF Written, Call
<1>2. holding_start' = holding_start /\ Window' = Window
  BY DEF Written, Window, CellAddress
<1>3. Fits(addr, count) <=> block \subseteq DOMAIN Contents
  BY FitsIsInside, ContentsByOffset DEF MapTypeOK, ByOffset
<1>4. ASSUME ~Fits(addr, count)
      PROVE  MapTypeOK' /\ Memory!Write
  <2>1. holding_regs' = holding_regs
    BY <1>4 DEF Written
  <2>2. MapTypeOK' /\ Contents' = Contents
    BY <1>2, <2>1 DEF MapTypeOK, Contents
  <2>. QED
    BY <1>1, <1>3, <1>4, <2>2 DEF Memory!Write
<1>5. ASSUME Fits(addr, count)
      PROVE  MapTypeOK' /\ Memory!Write
  <2>. DEFINE new == Offset(addr) .. (Offset(addr) + count - 1)
  <2>1. Offset(addr) \in Nat /\ holding_start \in RegAddress
    BY OffsetInverse DEF MapTypeOK, RegAddress
  <2>2. DOMAIN holding_regs \cup new = 0 .. (PA_DISCO_HOLDING_NREGS - 1)
    BY <1>5, <2>1, MapAssumption DEF Fits, MapTypeOK
  <2>3. holding_regs' = [k \in 0 .. (PA_DISCO_HOLDING_NREGS - 1) |->
                           IF k \in new THEN words[k - Offset(addr) + 1] ELSE holding_regs[k]]
    BY <1>5, <2>2 DEF Written, Stored
  <2>4. \A k \in new : words[k - Offset(addr) + 1] \in Word
    BY <2>1
  <2>5. MapTypeOK'
    BY <1>2, <2>3, <2>4 DEF MapTypeOK
  <2>6. ByOffset /\ ByOffset'
    BY <2>5, ContentsByOffset, PTL
  <2>7. DOMAIN Contents' = DOMAIN Contents
    BY <1>2, <2>6 DEF ByOffset
  <2>8. ASSUME NEW i \in 1 .. count
        PROVE  Contents'[Memory!At(addr, i - 1)] = words[i]
    <3>. DEFINE a == Memory!At(addr, i - 1)
    <3>1. i - 1 \in 0 .. (count - 1) /\ (i - 1) + 1 = i
      OBVIOUS
    <3>2. /\ a \in Window /\ Offset(a) = Offset(addr) + (i - 1)
          /\ Offset(a) \in 0 .. (PA_DISCO_HOLDING_NREGS - 1)
      BY <1>5, <3>1, BlockInArray
    <3>3. Contents'[a] = holding_regs'[Offset(a)]
      BY <1>2, <2>6, <3>2 DEF ByOffset, Offset
    <3>. QED
      BY <2>1, <2>3, <3>1, <3>2, <3>3
  <2>9. ASSUME NEW a \in DOMAIN Contents \ block
        PROVE  Contents'[a] = Contents[a]
    <3>1. a \in Window /\ a \in RegAddress
      BY <2>6 DEF ByOffset
    <3>2. Contents'[a] = holding_regs'[Offset(a)] /\ Contents[a] = holding_regs[Offset(a)]
      BY <1>2, <2>6, <3>1 DEF ByOffset, Offset
    <3>3. Offset(a) \in 0 .. (PA_DISCO_HOLDING_NREGS - 1)
      BY <2>6, <3>1 DEF ByOffset
    <3>4. Offset(a) \notin new
      <4>1. SUFFICES ASSUME Offset(a) \in new
                     PROVE  FALSE
        OBVIOUS
      <4>. DEFINE i == Offset(a) - Offset(addr)
      <4>2. i \in 0 .. (count - 1) /\ Offset(addr) + i = Offset(a)
        BY <2>1, <3>3, <4>1
      <4>3. Memory!At(addr, i) \in Window /\ Offset(Memory!At(addr, i)) = Offset(a)
        BY <1>5, <4>2, BlockInArray
      <4>4. Memory!At(addr, i) = a
        BY <2>1, <2>6, <3>1, <4>3, OffsetInverse DEF ByOffset
      <4>. QED
        BY <4>2, <4>4 DEF Memory!Cells
    <3>. QED
      BY <2>3, <3>2, <3>3, <3>4
  <2>10. Memory!Outside(block, Contents') = Memory!Outside(block, Contents)
    BY <2>7, <2>9 DEF Memory!Outside
  <2>. QED
    BY <1>1, <1>3, <1>5, <2>5, <2>7, <2>8, <2>10 DEF Memory!Write
<1>. QED
  BY <1>4, <1>5

LEMMA RebaseIsMemory ==
    ASSUME MapTypeOK, NEW start \in RegAddress, NEW regs \in Seq(Word),
           pa_disco_register_map_set_holding(regs, start)
    PROVE  MapTypeOK' /\ Memory!Rebase
<1>. DEFINE copy_count == IF Len(regs) > PA_DISCO_HOLDING_NREGS
                          THEN PA_DISCO_HOLDING_NREGS ELSE Len(regs)
            copied == SubSeq(regs, 1, copy_count)
<1>1. /\ call'.fn = "rebase" /\ call'.addr = start /\ call'.count = Len(regs)
      /\ call'.words = regs /\ holding_start' = start
  BY DEF pa_disco_register_map_set_holding, Call
<1>2. copied \in Seq(Word) /\ Len(copied) = copy_count /\ \A i \in 1 .. copy_count : copied[i] = regs[i]
  BY MapAssumption
<1>3. holding_regs' = [k \in 0 .. (PA_DISCO_HOLDING_NREGS - 1) |->
                         IF k \in 0 .. (copy_count - 1) THEN regs[k + 1] ELSE holding_regs[k]]
  <2>1. holding_regs' = Stored(0, copied)
    BY DEF pa_disco_register_map_set_holding
  <2>2. DOMAIN holding_regs \cup (0 .. (copy_count - 1)) = 0 .. (PA_DISCO_HOLDING_NREGS - 1)
    BY MapAssumption DEF MapTypeOK
  <2>. HIDE DEF copied
  <2>3. Stored(0, copied) = [k \in 0 .. (PA_DISCO_HOLDING_NREGS - 1) |->
                               IF k \in 0 .. (copy_count - 1) THEN copied[k + 1] ELSE holding_regs[k]]
    <3>1. /\ copy_count \in Nat /\ 0 + Len(copied) - 1 = copy_count - 1
          /\ \A k \in 0 .. (PA_DISCO_HOLDING_NREGS - 1) : k - 0 + 1 = k + 1
      BY <1>2, MapAssumption
    <3>. HIDE DEF copy_count
    <3>2. Stored(0, copied) = [k \in DOMAIN holding_regs \cup (0 .. (copy_count - 1)) |->
                                 IF k \in 0 .. (copy_count - 1) THEN copied[k - 0 + 1]
                                 ELSE holding_regs[k]]
      BY <3>1 DEF Stored
    <3>. QED
      BY <2>2, <3>1, <3>2
  <2>4. copy_count \in Nat
    BY MapAssumption
  <2>. HIDE DEF copy_count
  <2>5. \A k \in 0 .. (copy_count - 1) : copied[k + 1] = regs[k + 1]
    BY <1>2, <2>4
  <2>. QED
    BY <2>1, <2>3, <2>5
<1>4. MapTypeOK'
  BY <1>1, <1>3, MapAssumption DEF MapTypeOK
<1>5. ByOffset'
  BY <1>4, ContentsByOffset, PTL
<1>6. DOMAIN Contents' = Memory!Cells(start, PA_DISCO_HOLDING_NREGS)
  BY <1>1, <1>5 DEF ByOffset, Window, CellAddress, Memory!Cells, Memory!At
<1>7. ASSUME NEW i \in 1 .. Len(regs), i =< PA_DISCO_HOLDING_NREGS
      PROVE  Contents'[Memory!At(start, i - 1)] = regs[i]
  <2>. DEFINE a == Memory!At(start, i - 1)
  <2>1. i - 1 \in 0 .. (PA_DISCO_HOLDING_NREGS - 1) /\ i - 1 < copy_count
    BY <1>7, MapAssumption
  <2>2. a \in Window'
    BY <1>1, <2>1 DEF Window, CellAddress, Memory!At
  <2>3. (a - start) % RegModulus = i - 1
    <3>1. i - 1 \in RegAddress
      BY <2>1, MapAssumption DEF RegAddress
    <3>2. /\ a = IF start + (i - 1) < RegModulus THEN start + (i - 1)
                 ELSE start + (i - 1) - RegModulus
          /\ a \in RegAddress
      BY <3>1, WrapsOnce DEF Memory!At, RegAddress
    <3>. HIDE DEF a
    <3>3. (a - start) % RegModulus = IF a >= start THEN a - start ELSE a - start + RegModulus
      BY <3>2, WrapsOnce
    <3>. QED
      BY <3>1, <3>2, <3>3, WrapsOnce DEF RegAddress
  <2>4. Contents'[a] = holding_regs'[i - 1]
    BY <1>1, <1>5, <2>2, <2>3 DEF ByOffset, Offset
  <2>. QED
    BY <1>3, <2>1, <2>4
<1>. QED
  BY <1>1, <1>4, <1>6, <1>7 DEF Memory!Rebase
------------------------------------------------------------------------------
(***************************************************************************)
(* The theorems about the map, under any use of it.                        *)
(***************************************************************************)
LEMMA MapStep == MapTypeOK /\ [MapNext]_mapVars => MapTypeOK' /\ [Memory!Next]_(Memory!memoryVars)
<1>. SUFFICES ASSUME MapTypeOK, [MapNext]_mapVars
              PROVE  MapTypeOK' /\ [Memory!Next]_(Memory!memoryVars)
  OBVIOUS
<1>1. CASE pa_disco_register_map_init
  BY <1>1, ClearIsMemory DEF Memory!Next
<1>2. ASSUME NEW addr \in RegAddress, NEW count \in 1 .. MaxCount,
             pam_read_holding_regs(addr, count)
      PROVE  MapTypeOK' /\ Memory!Next
  BY <1>2, ReadIsMemory DEF Memory!Next
<1>3. ASSUME NEW addr \in RegAddress, NEW words \in Seq(Word),
             Len(words) \in 1 .. MaxCount, Written(addr, words)
      PROVE  MapTypeOK' /\ Memory!Next
  BY <1>3, WriteIsMemory DEF Memory!Next
<1>4. ASSUME NEW addr \in RegAddress, NEW value \in Word, pam_write_single_reg(addr, value)
      PROVE  MapTypeOK' /\ Memory!Next
  <2>1. PICK words : words = <<value>>
    OBVIOUS
  <2>2. words \in Seq(Word) /\ Len(words) = 1
    BY <2>1
  <2>3. Fits(addr, Len(words)) <=> Fits(addr, 1)
    BY <2>2 DEF Fits
  <2>4. Written(addr, words)
    BY <1>4, <2>1, <2>2, <2>3 DEF pam_write_single_reg, Written, Call
  <2>5. Len(words) \in 1 .. MaxCount
    BY <2>2, MapAssumption
  <2>. QED
    BY <1>3, <2>2, <2>4, <2>5
<1>5. ASSUME NEW addr \in RegAddress, NEW val \in Word \X Word,
             pa_disco_register_map_put_float32(addr, val)
      PROVE  MapTypeOK' /\ Memory!Next
  <2>1. PICK high \in Word, low \in Word : val = <<high, low>>
    OBVIOUS
  <2>2. val \in Seq(Word) /\ Len(val) = 2
    BY <2>1
  <2>3. Fits(addr, Len(val)) <=> Fits(addr, 2)
    BY <2>2 DEF Fits
  <2>4. Written(addr, val)
    BY <1>5, <2>2, <2>3 DEF pa_disco_register_map_put_float32, Written, Call
  <2>5. Len(val) \in 1 .. MaxCount
    BY <2>2, MapAssumption
  <2>. QED
    BY <1>3, <2>2, <2>4, <2>5
<1>6. ASSUME NEW addr \in RegAddress, NEW words \in Seq(Word),
             1 =< Len(words), Len(words) =< MaxCount, pam_write_multiple_regs(addr, words)
      PROVE  MapTypeOK' /\ Memory!Next
  BY <1>3, <1>6, MapAssumption DEF pam_write_multiple_regs, Written
<1>7. ASSUME NEW addr \in RegAddress, NEW words \in Seq(Word),
             pa_disco_register_map_set_holding(words, addr)
      PROVE  MapTypeOK' /\ Memory!Next
  BY <1>7, RebaseIsMemory DEF Memory!Next
<1>8. CASE UNCHANGED mapVars
  BY <1>8 DEF mapVars, MapTypeOK, Memory!memoryVars, Contents, Window, CellAddress
<1>. QED
  BY <1>1, <1>2, <1>4, <1>5, <1>6, <1>7, <1>8 DEF MapNext, pa_disco_register_map_put

\* MapTypeOK, for any use of the map: no access ever goes past the array.
THEOREM MapTypeCorrect == MapSpec => []MapTypeOK
<1>1. MapInit => MapTypeOK
  BY InitIsMemory
<1>2. MapTypeOK /\ [MapNext]_mapVars => MapTypeOK'
  BY MapStep
<1>. QED
  BY <1>1, <1>2, PTL DEF MapSpec

\* MapIsMemory, for any use of the map: blocks of MODBUS addresses are read
\* and written as a whole or refused, wherever the array starts.
THEOREM MapImplementsMemory == MapSpec => MapIsMemory
<1>1. MapInit => MapTypeOK /\ Memory!Init
  BY InitIsMemory
<1>2. MapTypeOK /\ [MapNext]_mapVars => MapTypeOK' /\ [Memory!Next]_(Memory!memoryVars)
  BY MapStep
<1>. QED
  BY <1>1, <1>2, PTL DEF MapSpec, MapIsMemory, Memory!Spec

LEMMA ReadersAgreeInvariant == MapTypeOK => ReadersAgree
<1>. SUFFICES ASSUME MapTypeOK, NEW reg \in Edges
              PROVE  /\ pa_disco_register_map_get(reg) = IF reg \in Window THEN Contents[reg] ELSE 0
                     /\ pa_disco_register_map_get_float32(reg) =
                           IF Memory!Cells(reg, 2) \subseteq Window
                           THEN <<Contents[reg], Contents[Memory!At(reg, 1)]>>
                           ELSE <<0, 0>>
                     /\ IF reg \in Window
                        THEN holding_regs[pa_disco_register_map_get_ptr(reg)] = Contents[reg]
                        ELSE pa_disco_register_map_get_ptr(reg) = -1
  BY DEF ReadersAgree
<1>1. holding_start \in RegAddress /\ reg \in RegAddress
  <2>1. RegModulus \in Nat \ {0} /\ holding_start \in Int
    BY MapAssumption DEF MapTypeOK, RegAddress
  <2>2. \A x \in Int : x % RegModulus \in RegAddress
    BY <2>1 DEF RegAddress
  <2>3. PICK k \in Int : reg = CellAddress(k)
    BY MapAssumption DEF Edges
  <2>4. reg \in RegAddress
    BY <2>1, <2>2, <2>3 DEF CellAddress
  <2>. QED
    BY <2>4 DEF MapTypeOK
<1>2. 1 \in 1 .. MaxCount /\ 2 \in 1 .. MaxCount
  BY MapAssumption
<1>3. Fits(reg, 1) <=> reg \in Window
  BY <1>1, WindowByOffset, OffsetInverse, MapAssumption DEF Fits, RegAddress
<1>4. Fits(reg, 2) <=> Memory!Cells(reg, 2) \subseteq Window
  BY <1>1, <1>2, FitsIsInside
<1>5. reg \in Window => Contents[reg] = holding_regs[Offset(reg)]
  BY ContentsByOffset DEF ByOffset
<1>6. ASSUME Fits(reg, 2)
      PROVE  /\ Contents[reg] = holding_regs[Offset(reg)]
             /\ Contents[Memory!At(reg, 1)] = holding_regs[Offset(reg) + 1]
  <2>1. Fits(reg, 1)
    BY <1>1, <1>6, OffsetInverse, MapAssumption DEF Fits, RegAddress
  <2>2. Memory!At(reg, 1) \in Window /\ Offset(Memory!At(reg, 1)) = Offset(reg) + 1
    BY <1>1, <1>2, <1>6, BlockInArray
  <2>. QED
    BY <1>3, <1>5, <2>1, <2>2, ContentsByOffset DEF ByOffset
<1>. QED
  BY <1>3, <1>4, <1>5, <1>6 DEF pa_disco_register_map_get, pa_disco_register_map_get_float32,
                                pa_disco_register_map_get_ptr

\* ReadersAgree, for any use of the map: the application's accessors and the
\* line see the same registers, and none sees one that does not exist.
THEOREM ReadersAlwaysAgree == MapSpec => []ReadersAgree
<1>1. MapTypeOK => ReadersAgree
  BY ReadersAgreeInvariant
<1>. QED
  BY <1>1, MapTypeCorrect, PTL
------------------------------------------------------------------------------
(***************************************************************************)
(* The device: the main loop, the line and the application together.       *)
(***************************************************************************)
\* What the receiver can hold.
Line == {Decoded(f) : f \in Requests}

TickValue == 0 .. (TickModulus - 1)

DeviceTypeOK ==
    /\ MapTypeOK
    /\ srx \in [{Self} -> Seq(Line)]
    /\ address \in [{Self} -> 0 .. (IdModulus - 1)]
    /\ disco_window_wait \in [{Self} -> BOOLEAN]
    /\ disco_window_start \in [{Self} -> TickValue]
    /\ delay \in [{Self} -> Int]
    /\ ticks \in TickValue
    /\ since \in 0 .. disco_window_max

\* A closed window means that disco_window_max milliseconds are over; until
\* they are, they are what the counter has advanced since the window opened,
\* for less than one wrap.
WindowIsTime ==
    /\ ~disco_window_wait[Self] => since = disco_window_max
    /\ disco_window_wait[Self] /\ "get_ticks" \in Provided /\ since < disco_window_max =>
          since = (ticks - disco_window_start[Self]) % TickModulus

LEMMA LineRequests ==
    ASSUME NEW f \in Line
    PROVE  /\ f.fn \in {"read", "write"}
           /\ f.reg \in RegAddress /\ f.nregs \in 1 .. MaxCount
           /\ f.words \in Seq(Word)
           /\ f.fn = "write" => Len(f.words) = f.nregs
           /\ f.slave_id \in 0 .. (IdModulus - 1)
           /\ f.fn = "write" => f.slave_id = f.words[1] % IdModulus
           /\ f.fn = "write" /\ f.nregs = PA_DISCO_REG_COUNT =>
                  f.serialno = SubSeq(f.words, 2, 7)
<1>1. PICK g \in Requests : f = Decoded(g)
  BY DEF Line
<1>2. /\ f.fn = g.fn /\ f.reg = g.reg /\ f.nregs = g.nregs /\ f.words = g.words
      /\ f.slave_id = IF g.fn = "write" THEN g.words[1] % IdModulus ELSE 0
      /\ f.serialno = IF Len(g.words) >= 7 THEN SubSeq(g.words, 2, 7) ELSE ZeroSerial
  BY <1>1 DEF Decoded
<1>3. /\ g.fn \in {"read", "write"} /\ g.reg \in RegAddress /\ g.nregs \in 1 .. MaxCount
      /\ g.words \in Seq(Word) /\ (g.fn = "write" => Len(g.words) = g.nregs)
  BY DeviceAssumption
<1>4. ASSUME g.fn = "write"
      PROVE  g.words[1] \in Nat
  <2>1. Len(g.words) \in 1 .. MaxCount
    BY <1>3, <1>4
  <2>2. g.words[1] \in Word
    BY <1>3, <2>1, MapAssumption
  <2>. QED
    BY <2>2, MapAssumption
<1>5. f.slave_id \in 0 .. (IdModulus - 1)
  <2>1. IdModulus \in Nat \ {0}
    BY DeviceAssumption
  <2>2. g.fn = "write" => g.words[1] % IdModulus \in 0 .. (IdModulus - 1)
    BY <1>4, <2>1, RemainderBelow
  <2> QED BY <1>2, <2>1, <2>2
<1>6. ASSUME g.fn = "write", g.nregs = 10
      PROVE  f.serialno = SubSeq(g.words, 2, 7)
  <2>1. Len(g.words) = 10
    BY <1>3, <1>6
  <2>. QED
    BY <1>2, <2>1
<1>. QED
  BY <1>2, <1>3, <1>5, <1>6 DEF PA_DISCO_REG_COUNT

\* Whatever the device does, its registers see a use that any map may see.
LEMMA DeviceUsesMap == DeviceTypeOK /\ [DeviceNext]_deviceVars => [MapNext]_mapVars
<1>. SUFFICES ASSUME DeviceTypeOK, [DeviceNext]_deviceVars
              PROVE  [MapNext]_mapVars
  OBVIOUS
<1>1. ASSUME RequestStep
      PROVE  [MapNext]_mapVars
  <2>1. Head(srx[Self]) \in Line
    BY <1>1 DEF RequestStep, Dev!pa_disco_register_map_service, DeviceTypeOK
  <2>2. ASSUME Respond(Head(srx[Self]))
        PROVE  MapNext
    <3>. DEFINE f == Head(srx[Self])
    <3>1. /\ f.reg \in RegAddress /\ f.nregs \in 1 .. MaxCount /\ f.words \in Seq(Word)
          /\ f.fn = "write" => Len(f.words) = f.nregs
      BY <2>1, LineRequests
    <3>. HIDE DEF f
    <3>2. ASSUME f.fn = "write"
          PROVE  f.words[1] \in Word /\ 1 =< Len(f.words) /\ Len(f.words) =< MaxCount
      BY <3>1, <3>2, MapAssumption
    <3>. QED
      BY <2>2, <3>1, <3>2 DEF Respond, MapNext, f
  <2>. QED
    BY <1>1, <2>2 DEF RequestStep
<1>2. ASSUME ReplyStep
      PROVE  MapNext
  <2>1. PA_DISCO_REG_START \in RegAddress /\ PA_DISCO_REG_COUNT \in 1 .. MaxCount
    BY DeviceAssumption, MapAssumption DEF PA_DISCO_REG_COUNT
  <2>. QED
    BY <1>2, <2>1 DEF ReplyStep, MapNext
<1>3. ASSUME Application
      PROVE  MapNext
  <2>1. ASSUME NEW p \in Puts, pa_disco_register_map_put(p[1], p[2])
        PROVE  MapNext
    <3>1. p[1] \in RegAddress /\ p[2] \in Word
      BY DeviceAssumption
    <3>. QED
      BY <2>1, <3>1 DEF MapNext
  <2>2. ASSUME NEW p \in Floats, pa_disco_register_map_put_float32(p[1], p[2])
        PROVE  MapNext
    <3>1. p[1] \in RegAddress /\ p[2] \in Word \X Word
      BY DeviceAssumption
    <3>. QED
      BY <2>2, <3>1 DEF MapNext
  <2>3. ASSUME NEW p \in Images, pa_disco_register_map_set_holding(p[1], p[2])
        PROVE  MapNext
    <3>1. p[1] \in Seq(Word) /\ p[2] \in RegAddress
      BY DeviceAssumption
    <3>. QED
      BY <2>3, <3>1 DEF MapNext
  <2>. QED
    BY <1>3, <2>1, <2>2, <2>3 DEF Application
<1>4. ASSUME Restart
      PROVE  MapNext
  BY <1>4 DEF Restart, MapNext
<1>. QED
  BY <1>1, <1>2, <1>3, <1>4 DEF DeviceNext, MainLoop, WindowStep, Receive, Tick, deviceVars

DeviceInv == DeviceTypeOK /\ WindowIsTime

LEMMA DeviceInitInv == DeviceInit => DeviceInv
<1>. SUFFICES ASSUME DeviceInit
              PROVE  DeviceInv
  OBVIOUS
<1>1. MapTypeOK
  BY InitIsMemory DEF DeviceInit
<1>2. 0 \in TickValue /\ 0 \in 0 .. (IdModulus - 1) /\ disco_window_max \in 0 .. disco_window_max
  BY DeviceAssumption DEF TickValue
<1>3. srx \in [{Self} -> Seq(Line)]
  BY DEF DeviceInit
<1>. QED
  BY <1>1, <1>2, <1>3 DEF DeviceInit, DeviceInv, DeviceTypeOK, WindowIsTime, Dev!NoDelay

\* What the three kinds of request do, and what they tell.
LEMMA RequestEffects ==
    ASSUME DeviceTypeOK, RequestStep
    PROVE  LET f == Head(srx[Self]) IN
           /\ f \in Line
           /\ srx' = [srx EXCEPT ![Self] = Tail(@)] /\ srx[Self] # << >>
           /\ delay[Self] = Dev!NoDelay /\ disco_window_wait[Self] = FALSE
           /\ \/ UNCHANGED mapVars
              \/ Respond(f) /\ Dev!Addressed(Self, f) /\ (f.fn = "write" => ~IsFullBlock(f))
           /\ address' # address =>
                 /\ f.fn = "write" /\ Dev!Addressed(Self, f) /\ IsFullBlock(f) /\ Dev!Adopts(Self, f)
                 /\ address' = [address EXCEPT ![Self] = f.slave_id]
           /\ \/ Dev!AnswerQuery(Self)
              \/ UNCHANGED <<disco_window_wait, disco_window_start, delay>>
<1>1. Head(srx[Self]) \in Line
  BY DEF RequestStep, Dev!pa_disco_register_map_service, DeviceTypeOK
<1>. DEFINE f == Head(srx[Self])
<1>2. /\ srx' = [srx EXCEPT ![Self] = Tail(@)] /\ srx[Self] # << >>
      /\ delay[Self] = Dev!NoDelay /\ disco_window_wait[Self] = FALSE
  BY DEF RequestStep, Dev!pa_disco_register_map_service, DeviceTypeOK
<1>3. \/ ~Dev!Addressed(Self, f)
         /\ UNCHANGED <<address, disco_window_wait, disco_window_start, delay>>
      \/ Dev!Addressed(Self, f) /\ f.fn = "read" /\ Dev!pa_disco_slave_read_cb(Self, f) /\ UNCHANGED address
      \/ Dev!Addressed(Self, f) /\ f.fn = "write" /\ Dev!pa_disco_slave_write_cb(Self, f)
         /\ UNCHANGED <<disco_window_wait, disco_window_start, delay>>
  BY DEF RequestStep, Dev!pa_disco_register_map_service
<1>4. \/ UNCHANGED mapVars
      \/ Respond(f) /\ Dev!Addressed(Self, f) /\ Dev!do_reply(f)
  BY DEF RequestStep
<1>. HIDE DEF f
<1>5. Dev!IsFullBlock(f) <=> IsFullBlock(f)
  BY DEF IsFullBlock, Dev!IsFullBlock, PA_DISCO_REG_START, PA_DISCO_REG_COUNT,
         Dev!PA_DISCO_REG_START, Dev!PA_DISCO_REG_COUNT
<1>6. \/ Dev!AnswerQuery(Self)
      \/ UNCHANGED <<disco_window_wait, disco_window_start, delay>>
  BY <1>3 DEF Dev!pa_disco_slave_read_cb
<1>7. \/ UNCHANGED mapVars
      \/ Respond(f) /\ Dev!Addressed(Self, f) /\ (f.fn = "write" => ~IsFullBlock(f))
  BY <1>4, <1>5 DEF Dev!do_reply, Dev!WriteAllowed
<1>8. ASSUME address' # address
      PROVE  /\ f.fn = "write" /\ Dev!Addressed(Self, f) /\ IsFullBlock(f) /\ Dev!Adopts(Self, f)
             /\ address' = [address EXCEPT ![Self] = f.slave_id]
  <2>1. f.fn = "write" /\ Dev!Addressed(Self, f) /\ Dev!pa_disco_slave_write_cb(Self, f)
    BY <1>3, <1>8
  <2>. QED
    BY <1>5, <1>8, <2>1 DEF Dev!pa_disco_slave_write_cb
<1>. QED
  BY <1>1, <1>2, <1>6, <1>7, <1>8 DEF f

LEMMA DeviceStep == DeviceInv /\ [DeviceNext]_deviceVars => DeviceInv'
<1>. SUFFICES ASSUME DeviceInv, [DeviceNext]_deviceVars
              PROVE  DeviceInv'
  OBVIOUS
<1>. USE DEF DeviceInv, DeviceTypeOK
<1>1. MapTypeOK'
  BY DeviceUsesMap, MapStep
<1>2. 0 \in TickValue /\ disco_window_max \in 0 .. disco_window_max /\ 0 \in 0 .. disco_window_max
  BY DeviceAssumption DEF TickValue
<1>3. ASSUME WindowStep
      PROVE  DeviceInv'
  <2>1. /\ delay[Self] = Dev!NoDelay /\ disco_window_wait[Self]
        /\ disco_window_wait' = [disco_window_wait EXCEPT ![Self] = ~Dev!WindowOver(Self)]
        /\ UNCHANGED <<mapVars, address, disco_window_start, delay, ticks, since>>
        /\ srx' \in [{Self} -> Seq(Line)]
    BY <1>3 DEF WindowStep, Dev!pa_disco_slave_service
  <2>2. Dev!WindowOver(Self) => since = disco_window_max
    BY <2>1, DeviceAssumption DEF Dev!WindowOver, WindowIsTime
  <2>3. disco_window_wait' \in [{Self} -> BOOLEAN]
    BY <2>1 DEF Dev!WindowOver
  <2>4. WindowIsTime'
    BY <2>1, <2>2, <2>3 DEF WindowIsTime
  <2>. QED
    BY <1>1, <2>1, <2>3, <2>4
<1>4. ASSUME RequestStep
      PROVE  DeviceInv'
  <2>. DEFINE f == Head(srx[Self])
  <2>1. /\ f \in Line /\ srx' = [srx EXCEPT ![Self] = Tail(@)] /\ srx[Self] # << >>
        /\ delay[Self] = -1 /\ disco_window_wait[Self] = FALSE
        /\ address' # address => address' = [address EXCEPT ![Self] = f.slave_id]
        /\ \/ Dev!AnswerQuery(Self)
           \/ UNCHANGED <<disco_window_wait, disco_window_start, delay>>
    BY <1>4, RequestEffects DEF Dev!NoDelay
  <2>2. ticks' = ticks /\ since' = IF delay'[Self] # -1 THEN 0 ELSE since
    BY <1>4 DEF RequestStep, Dev!NoDelay
  <2>3. srx' \in [{Self} -> Seq(Line)]
    BY <2>1
  <2>4. address' \in [{Self} -> 0 .. (IdModulus - 1)]
    BY <2>1, LineRequests
  <2>5. ASSUME Dev!AnswerQuery(Self)
        PROVE  DeviceInv'
    <3>1. PICK d \in Int : d >= 0 /\ delay' = [delay EXCEPT ![Self] = d]
      <4>1. PICK d \in (IF {"delay_ms", "random"} \subseteq Provided
                        THEN disco_window_min .. disco_window_max ELSE {0}) :
               delay' = [delay EXCEPT ![Self] = d]
        BY <2>5 DEF Dev!AnswerQuery
      <4>2. d \in Int /\ d >= 0
        BY <4>1, DeviceAssumption
      <4>. QED
        BY <4>1, <4>2
    <3>2. since' = 0
      BY <2>2, <3>1
    <3>3. /\ disco_window_wait' = [disco_window_wait EXCEPT ![Self] = TRUE]
          /\ disco_window_start' = [disco_window_start EXCEPT ![Self] = Dev!SlaveNow]
      BY <2>5 DEF Dev!AnswerQuery
    <3>4. Dev!SlaveNow \in TickValue /\ ("get_ticks" \in Provided => Dev!SlaveNow = ticks)
      BY <1>2 DEF Dev!SlaveNow
    <3>5. (ticks - ticks) % TickModulus = 0
      BY DeviceAssumption DEF TickValue
    <3>6. WindowIsTime'
      BY <2>2, <3>2, <3>3, <3>4, <3>5 DEF WindowIsTime
    <3>. QED
      BY <1>1, <1>2, <2>2, <2>3, <2>4, <3>1, <3>2, <3>3, <3>4, <3>6
  <2>6. ASSUME UNCHANGED <<disco_window_wait, disco_window_start, delay>>
        PROVE  DeviceInv'
    BY <1>1, <2>1, <2>2, <2>3, <2>4, <2>6 DEF WindowIsTime
  <2>. QED
    BY <2>1, <2>5, <2>6
<1>5. ASSUME ReplyStep
      PROVE  DeviceInv'
  BY <1>1, <1>5 DEF ReplyStep, Dev!Reply, Dev!NoDelay, WindowIsTime
<1>6. ASSUME Application
      PROVE  DeviceInv'
  BY <1>1, <1>6 DEF Application, slaveVars, WindowIsTime
<1>7. ASSUME Receive
      PROVE  DeviceInv'
  <2>1. PICK f \in Requests : srx' = [srx EXCEPT ![Self] = Append(@, Decoded(f))]
    BY <1>7 DEF Receive
  <2>2. Decoded(f) \in Line
    BY DEF Line
  <2>3. srx' \in [{Self} -> Seq(Line)]
    BY <2>1, <2>2
  <2>. QED
    BY <1>1, <1>7, <2>3 DEF Receive, slaveVars, WindowIsTime
<1>8. ASSUME Tick
      PROVE  DeviceInv'
  <2>1. /\ ticks' = (ticks + 1) % TickModulus
        /\ since' = IF since < disco_window_max THEN since + 1 ELSE since
        /\ UNCHANGED <<mapVars, address, disco_window_wait, disco_window_start, srx>>
        /\ delay' = [s \in {Self} |-> IF delay[s] > 0 THEN delay[s] - 1 ELSE delay[s]]
    BY <1>8 DEF Tick, Dev!Elapse
  <2>2. /\ ticks' \in TickValue /\ since' \in 0 .. disco_window_max
        /\ delay' \in [{Self} -> Int]
    <3>1. ticks' \in TickValue
      <4>1. TickModulus \in Nat \ {0}
        BY DeviceAssumption
      <4>2. ticks + 1 \in Int
        BY <1>1 DEF TickValue, DeviceTypeOK
      <4>3. (ticks + 1) % TickModulus \in 0 .. (TickModulus - 1)
        BY <4>1, <4>2, RemainderBelow
      <4> QED BY <2>1, <4>3 DEF TickValue
    <3>2. since' \in 0 .. disco_window_max
      BY <2>1, DeviceAssumption
    <3>3. delay' \in [{Self} -> Int]
      BY <2>1
    <3>. QED
      BY <3>1, <3>2, <3>3
  <2>3. ASSUME NEW start \in TickValue, since < disco_window_max,
               since = (ticks - start) % TickModulus
        PROVE  since + 1 = (ticks' - start) % TickModulus
    <3>1. TickModulus \in Nat \ {0} /\ since + 1 < TickModulus /\ since \in Nat
      BY <2>3, DeviceAssumption
    <3>2. since = IF ticks >= start THEN ticks - start ELSE ticks - start + TickModulus
      BY <2>3, TickWraps DEF TickValue
    <3>3. ticks' = IF ticks + 1 = TickModulus THEN 0 ELSE ticks + 1
      BY <2>1, TickWraps DEF TickValue
    <3>4. ticks' \in TickValue
      BY <2>2
    <3>5. (ticks' - start) % TickModulus =
             IF ticks' >= start THEN ticks' - start ELSE ticks' - start + TickModulus
      BY <2>3, <3>4, TickWraps DEF TickValue
    <3>. QED
      BY <2>3, <3>1, <3>2, <3>3, <3>5 DEF TickValue
  <2>4. WindowIsTime'
    BY <2>1, <2>2, <2>3, DeviceAssumption DEF WindowIsTime
  <2>. QED
    BY <1>1, <2>1, <2>2, <2>4
<1>9. ASSUME Restart
      PROVE  DeviceInv'
  <2>1. 0 \in 0 .. (IdModulus - 1)
    BY DeviceAssumption
  <2>2. srx' \in [{Self} -> Seq(Line)]
    BY <1>9 DEF Restart, Dev!Restart
  <2>. QED
    BY <1>1, <1>2, <1>9, <2>1, <2>2 DEF Restart, Dev!Restart, Dev!NoDelay, WindowIsTime
<1>10. ASSUME UNCHANGED deviceVars
       PROVE  DeviceInv'
  BY <1>1, <1>10 DEF deviceVars, slaveVars, WindowIsTime
<1>. QED
  BY <1>3, <1>4, <1>5, <1>6, <1>7, <1>8, <1>9, <1>10 DEF DeviceNext, MainLoop

LEMMA DeviceInvariant == DeviceSpec => []DeviceInv
<1>1. DeviceInit => DeviceInv
  BY DeviceInitInv
<1>2. DeviceInv /\ [DeviceNext]_deviceVars => DeviceInv'
  BY DeviceStep
<1>. QED
  BY <1>1, <1>2, PTL DEF DeviceSpec

LEMMA ForSelfAddressed == \A f : Dev!Addressed(Self, f) <=> ForSelf(f)
BY DEF Dev!Addressed, ForSelf

\* IdentityKept: discovery requests leave the reported serial number alone.
THEOREM IdentityIsKept == DeviceSpec => IdentityKept
<1>1. DeviceInv /\ [DeviceNext]_deviceVars =>
        [(MainLoop /\ reported' # reported) =>
          LET f == Head(srx[Self])
          IN  f.fn = "write" /\ ForSelf(f) /\ ~IsFullBlock(f)]_deviceVars
  <2>. SUFFICES ASSUME DeviceInv, [DeviceNext]_deviceVars, MainLoop, reported' # reported
                PROVE  LET f == Head(srx[Self])
                       IN  f.fn = "write" /\ ForSelf(f) /\ ~IsFullBlock(f)
    OBVIOUS
  <2>1. ~(holding_regs' = holding_regs /\ holding_start' = holding_start)
    BY DEF reported, pa_disco_register_map_get, Fits, Offset
  <2>2. RequestStep
    BY <2>1 DEF MainLoop, WindowStep, ReplyStep, pam_read_holding_regs, mapVars
  <2>. DEFINE f == Head(srx[Self])
  <2>3. Respond(f) /\ Dev!Addressed(Self, f) /\ (f.fn = "write" => ~IsFullBlock(f))
    BY <2>1, <2>2, RequestEffects DEF DeviceInv, mapVars
  <2>4. f.fn = "write"
    BY <2>1, <2>3 DEF Respond, pam_read_holding_regs
  <2>. QED
    BY <2>3, <2>4, ForSelfAddressed
<1>. QED
  BY <1>1, DeviceInvariant, PTL DEF DeviceSpec, IdentityKept

\* AddressAssigned: an address comes only with a whole, matching assignment.
THEOREM AddressIsAssigned == DeviceSpec => AddressAssigned
<1>1. DeviceInv /\ [DeviceNext]_deviceVars =>
        [(MainLoop /\ address' # address) =>
          LET f == Head(srx[Self])
          IN  /\ f.fn = "write" /\ ForSelf(f) /\ IsFullBlock(f)
              /\ SubSeq(f.words, 2, 7) \in {SelfSerial, ZeroSerial}
              /\ address'[Self] = f.words[1] % IdModulus]_deviceVars
  <2>. DEFINE f == Head(srx[Self])
  <2>. SUFFICES ASSUME DeviceInv, [DeviceNext]_deviceVars, MainLoop, address' # address
                PROVE  /\ f.fn = "write" /\ ForSelf(f) /\ IsFullBlock(f)
                       /\ SubSeq(f.words, 2, 7) \in {SelfSerial, ZeroSerial}
                       /\ address'[Self] = f.words[1] % IdModulus
    OBVIOUS
  <2>1. RequestStep
    BY DEF MainLoop, WindowStep, ReplyStep, Dev!pa_disco_slave_service, Dev!Reply
  <2>2. /\ f \in Line /\ f.fn = "write" /\ ForSelf(f) /\ IsFullBlock(f) /\ Dev!Adopts(Self, f)
        /\ address' = [address EXCEPT ![Self] = f.slave_id]
    BY <2>1, RequestEffects, ForSelfAddressed DEF DeviceInv
  <2>. HIDE DEF f
  <2>3. f.serialno = SubSeq(f.words, 2, 7) /\ f.slave_id = f.words[1] % IdModulus
    BY <2>2, LineRequests DEF IsFullBlock
  <2>4. f.serialno \in {SelfSerial, ZeroSerial}
    BY <2>2 DEF Dev!Adopts
  <2>5. address'[Self] = f.slave_id
    BY <2>2 DEF DeviceInv, DeviceTypeOK
  <2>. QED
    BY <2>2, <2>3, <2>4, <2>5
<1>. QED
  BY <1>1, DeviceInvariant, PTL DEF DeviceSpec, AddressAssigned

\* OneQueryPerWindow, for every width of the tick counter that holds a window.
THEOREM OneQueryOnly == DeviceSpec => OneQueryPerWindow
<1>1. DeviceInv => [(disco_window_wait'[Self] /\ ~disco_window_wait[Self]) =>
                       since = disco_window_max]_deviceVars
  BY DEF DeviceInv, WindowIsTime
<1>. QED
  BY <1>1, DeviceInvariant, PTL DEF DeviceSpec, OneQueryPerWindow

\* The registers of the device are a memory, whoever uses them.
THEOREM DeviceImplementsMemory == DeviceSpec => MapIsMemory
<1>1. DeviceInit => Memory!Init
  BY InitIsMemory DEF DeviceInit
<1>2. DeviceInv /\ [DeviceNext]_deviceVars => [Memory!Next]_(Memory!memoryVars)
  BY DeviceUsesMap, MapStep DEF DeviceInv, DeviceTypeOK
<1>. QED
  BY <1>1, <1>2, DeviceInvariant, PTL DEF DeviceSpec, MapIsMemory, Memory!Spec
==============================================================================
