------------------------- MODULE PeripheralsProofs -------------------------
(***************************************************************************)
(* Devices implements Peripherals: behind maps, spaces, callbacks and      *)
(* latched copies, every access is one to a register or to a memory.       *)
(***************************************************************************)
EXTENDS DevicesProofs

(* The start: what the spaces hold until the image is loaded.              *)

\* What new_space has given away for d.
Given(d) == IF \E i \in 1..Len(maps) : maps[i].name = d THEN page_round(LEN[d]) ELSE 0

\* new_space gives away what the registered ranges need, and no more.
Sums ==
  p_space = Given("serial") + Given("rtc") + Given("vgactl") + Given("vmem")
            + Given("keyboard")

\* No range meets pmem.
PmemApart ==
  \A i \in 1..Len(maps) : maps[i].high < MBASE \/ MBASE + MSIZE <= maps[i].low

\* Byte o of a range when its init function has returned.
First(d, o) == IF d = "vgactl" /\ o < 4 THEN Digit(SCREEN, o) ELSE 0

\* Nothing but the size register is written before the machine runs.
BootInv ==
  ~ loaded =>
    /\ pmem = [x \in 0..(MSIZE - 1) |-> 0]
    /\ dev.ctrl = 0 /\ dev.intr_nr = 0
    /\ \A x \in IOX : x >= p_space => io_space[x] = 0
    /\ \A i \in 1..Len(maps) : \A o \in 0..(LEN[maps[i].name] + 2) :
         io_space[maps[i].space + o] = First(maps[i].name, o)

StartInv == Sums /\ PmemApart /\ BootInv

\* Initially there is no range, and memory is zero.
LEMMA InitStartInv == Init => StartInv
<1> SUFFICES ASSUME Init PROVE StartInv
  OBVIOUS
<1>1. maps = <<>> /\ p_space = 0 /\ Len(maps) = 0
  BY DEF Init, BusInit
<1>2. Sums
  BY <1>1 DEF Sums, Given
<1>3. PmemApart
  BY <1>1 DEF PmemApart
<1>4. PICK m \in Machines : dev = [NoDevice EXCEPT !.uart = m.uart]
  BY DEF Init
<1>5. dev.ctrl = 0 /\ dev.intr_nr = 0
  BY <1>4 DEF NoDevice
<1>6. /\ pmem = [x \in 0..(MSIZE - 1) |-> 0]
      /\ \A x \in IOX : io_space[x] = 0
  BY DEF Init, BusInit, IOX
<1> QED
  BY <1>1, <1>2, <1>3, <1>5, <1>6 DEF StartInv, BootInv

\* The next range to register has not been registered.
LEMMA NextRange ==
  ASSUME MapInv, TypeInv, ~ booted
  PROVE  /\ Len(maps) \in Nat /\ Len(maps) < Len(Boot)
         /\ Boot[Len(maps) + 1] \in Names
         /\ \A i \in 1..Len(maps) : maps[i].name # Boot[Len(maps) + 1]
<1>1. Boot \in Seq(Names) /\ \A i, j \in DOMAIN Boot : Boot[i] = Boot[j] => i = j
  BY DevicesAssumption DEF DevicesAssumption
<1>2. Len(maps) \in Nat /\ Len(maps) < Len(Boot) /\ Len(Boot) \in Nat
  BY <1>1 DEF MapInv, Registered, booted
<1>3. Len(maps) + 1 \in DOMAIN Boot /\ DOMAIN Boot = 1..Len(Boot)
  BY <1>1, <1>2
<1>4. ASSUME NEW i \in 1..Len(maps)
      PROVE  maps[i].name # Boot[Len(maps) + 1]
  <2>1. i \in DOMAIN Boot /\ i # Len(maps) + 1
    BY <1>2, <1>3
  <2>2. maps[i].name = Boot[i]
    BY DEF TypeInv, Placed
  <2> QED
    BY <1>1, <1>3, <2>1, <2>2
<1> QED
  BY <1>1, <1>2, <1>3, <1>4

\* Its pages fit behind those given away.
LEMMA RoomLeft ==
  ASSUME MapInv, TypeInv, Sums, ~ booted
  PROVE  /\ p_space + page_round(LEN[Boot[Len(maps) + 1]]) < IO_SPACE_MAX
         /\ Len(maps) < NR_MAP
<1>1. PICK d \in Names : d = Boot[Len(maps) + 1]
  BY NextRange
<1>2. \A e \in Names : page_round(LEN[e]) \in Nat
  BY Lengths, RoundIsNat
<1>3. Names = {"serial", "rtc", "vgactl", "vmem", "keyboard"}
  BY DevicesAssumption DEF DevicesAssumption
<1>4. PICK a \in Nat, b \in Nat, c \in Nat, v \in Nat, k \in Nat :
        /\ a = page_round(LEN["serial"]) /\ b = page_round(LEN["rtc"])
        /\ c = page_round(LEN["vgactl"]) /\ v = page_round(LEN["vmem"])
        /\ k = page_round(LEN["keyboard"]) /\ a + b + c + v + k < IO_SPACE_MAX
  BY <1>2, <1>3, RoomAssumption DEF RoomAssumption
<1>5. /\ Given("serial") \in {0, a} /\ Given("rtc") \in {0, b}
      /\ Given("vgactl") \in {0, c} /\ Given("vmem") \in {0, v}
      /\ Given("keyboard") \in {0, k}
  BY <1>4 DEF Given
<1>6. Given(d) = 0
  BY <1>1, NextRange DEF Given
<1>7. IO_SPACE_MAX \in Nat
  BY BusAssumption DEF BusAssumption
<1>8. p_space + page_round(LEN[d]) <= a + b + c + v + k
  <2>1. CASE d = "serial"
    BY <1>4, <1>5, <1>6, <2>1 DEF Sums
  <2>2. CASE d = "rtc"
    BY <1>4, <1>5, <1>6, <2>2 DEF Sums
  <2>3. CASE d = "vgactl"
    BY <1>4, <1>5, <1>6, <2>3 DEF Sums
  <2>4. CASE d = "vmem"
    BY <1>4, <1>5, <1>6, <2>4 DEF Sums
  <2>5. CASE d = "keyboard"
    BY <1>4, <1>5, <1>6, <2>5 DEF Sums
  <2> QED
    BY <1>3, <2>1, <2>2, <2>3, <2>4, <2>5
<1>9. p_space \in Nat
  BY DEF MapInv, Stacked
<1>10. Len(maps) < NR_MAP
  <2>1. Len(Boot) <= NR_MAP /\ NR_MAP \in Nat /\ Len(Boot) \in Nat
    BY RoomAssumption, BusAssumption, DevicesAssumption
    DEF RoomAssumption, BusAssumption, DevicesAssumption
  <2> QED
    BY <2>1, NextRange
<1>11. page_round(LEN[d]) \in Nat
  BY <1>2
<1>12. p_space + page_round(LEN[d]) < IO_SPACE_MAX
  BY <1>4, <1>7, <1>8, <1>9, <1>11
<1> QED
  BY <1>1, <1>10, <1>12

\* Registering the next range.
LEMMA RegisteredNext ==
  ASSUME MapInv, TypeInv, InitDevice, NEW d, d = Boot[Len(maps) + 1]
  PROVE  \E k \in Nat : /\ k = Len(maps) /\ Len(maps') = k + 1
                        /\ \A i \in 1..k : maps'[i] = maps[i]
                        /\ maps'[k + 1].name = d /\ maps'[k + 1].low = mmio[d]
                        /\ maps'[k + 1].high = mmio[d] + LEN[d] - 1
                        /\ maps'[k + 1].space = p_space
                        /\ p_space' = p_space + page_round(LEN[d])
<1>1. PICK m : m = [name |-> d, low |-> mmio[d], high |-> mmio[d] + LEN[d] - 1,
                    space |-> p_space]
  OBVIOUS
<1>2. maps' = Append(maps, m) /\ p_space' = p_space + page_round(LEN[d])
  BY <1>1 DEF InitDevice, NewMap
<1>3. PICK k \in Nat : k = Len(maps)
  BY DEF MapInv, Registered
<1>4. Len(maps') = k + 1 /\ maps'[k + 1] = m /\ \A i \in 1..k : maps'[i] = maps[i]
  BY <1>2, <1>3 DEF MapInv, Registered
<1> QED
  BY <1>1, <1>2, <1>3, <1>4

\* The overlap test, stated on the other side.
LEMMA Overlapping ==
  ASSUME MapInv, TypeInv, NEW d \in Names
  PROVE  /\ mmio[d] \in Int /\ LEN[d] \in Nat /\ LEN[d] > 0 /\ LEN[d] <= MSIZE
         /\ MBASE \in Nat /\ MSIZE \in Nat
         /\ \A x \in Int : in_pmem(x) <=> MBASE <= x /\ x < MBASE + MSIZE
<1>1. MBASE \in Nat /\ MSIZE \in Nat
  BY BusAssumption DEF BusAssumption
<1>2. mmio[d] \in Int
  BY DEF MapInv, Registered
<1>3. LEN[d] <= MSIZE
  BY RoomAssumption DEF RoomAssumption
<1> QED
  BY <1>1, <1>2, <1>3, Lengths DEF in_pmem

\* A registration keeps that, because init_device registers a range over bytes
\* that no other one has been given.
LEMMA NextStartInv ==
  ASSUME MapInv, TypeInv, StartInv, InitDevice
  PROVE  StartInv'
<1>1. PICK d \in Names : d = Boot[Len(maps) + 1]
  BY NextRange DEF InitDevice
<1>2. PICK k \in Nat : /\ k = Len(maps) /\ Len(maps') = k + 1
                       /\ \A i \in 1..k : maps'[i] = maps[i]
                       /\ maps'[k + 1].name = d /\ maps'[k + 1].low = mmio[d]
                       /\ maps'[k + 1].high = mmio[d] + LEN[d] - 1
                       /\ maps'[k + 1].space = p_space
                       /\ p_space' = p_space + page_round(LEN[d])
  BY <1>1, RegisteredNext, ZenonT(30)
<1>3. \A i \in 1..(k + 1) : i \in 1..k \/ i = k + 1
  OBVIOUS
<1>4. \A i \in 1..k : maps[i].name # d
  BY <1>1, <1>2, NextRange DEF InitDevice
<1>5. LEN[d] \in Nat /\ page_round(LEN[d]) \in Nat /\ LEN[d] + 3 <= page_round(LEN[d])
  BY Lengths, RoundIsNat, SlackAssumption
<1>6. Sums'
  <2>1. Given(d) = 0
    BY <1>2, <1>4 DEF Given
  <2>2. Given(d)' = page_round(LEN[d])
    <3>1. k + 1 \in 1..Len(maps')
      BY <1>2
    <3> QED
      BY <1>2, <3>1 DEF Given
  <2>3. ASSUME NEW e \in Names, e # d
        PROVE  Given(e)' = Given(e)
    <3>1. (\E i \in 1..Len(maps') : maps'[i].name = e)
            <=> (\E i \in 1..Len(maps) : maps[i].name = e)
      BY <1>2, <1>3, <2>3
    <3> QED
      BY <3>1 DEF Given
  <2>4. Names = {"serial", "rtc", "vgactl", "vmem", "keyboard"}
    BY DevicesAssumption DEF DevicesAssumption
  <2>5. \A e \in Names : Given(e) \in Nat
    <3>1. \A e \in Names : page_round(LEN[e]) \in Nat
      BY Lengths, RoundIsNat
    <3> QED
      BY <3>1 DEF Given
  <2>6. PICK a \in Nat, b \in Nat, c \in Nat, v \in Nat, w \in Nat :
          /\ a = Given("serial") /\ b = Given("rtc") /\ c = Given("vgactl")
          /\ v = Given("vmem") /\ w = Given("keyboard") /\ p_space = a + b + c + v + w
    BY <2>4, <2>5 DEF StartInv, Sums
  <2>7. PICK r \in Nat : r = page_round(LEN[d]) /\ p_space' = p_space + r
    BY <1>2, <1>5
  <2>8. \A e \in Names : Given(e)' = IF e = d THEN r ELSE Given(e)
    BY <2>2, <2>3, <2>7
  <2>9. /\ Given("serial")' = IF d = "serial" THEN r ELSE a
        /\ Given("rtc")' = IF d = "rtc" THEN r ELSE b
        /\ Given("vgactl")' = IF d = "vgactl" THEN r ELSE c
        /\ Given("vmem")' = IF d = "vmem" THEN r ELSE v
        /\ Given("keyboard")' = IF d = "keyboard" THEN r ELSE w
    BY <2>4, <2>6, <2>8
  <2>10. Sums' <=> p_space' = Given("serial")' + Given("rtc")' + Given("vgactl")'
                              + Given("vmem")' + Given("keyboard")'
    BY DEF Sums
  <2> QED
    BY <2>1, <2>4, <2>6, <2>7, <2>9, <2>10
<1>7. PmemApart'
  <2>1. ~ in_pmem(mmio[d]) /\ ~ in_pmem(mmio[d] + LEN[d] - 1)
    BY <1>1 DEF InitDevice, NewMap, CanAdd, Overlaps
  <2>2. mmio[d] + LEN[d] - 1 < MBASE \/ MBASE + MSIZE <= mmio[d]
    <3>1. mmio[d] \in Int /\ mmio[d] + LEN[d] - 1 \in Int
      BY Overlapping
    <3> QED
      BY <2>1, <3>1, Overlapping
  <2> QED
    BY <1>2, <1>3, <2>2 DEF StartInv, PmemApart
<1>8. BootInv'
  <2>1. UNCHANGED <<pmem, dev, loaded>> /\ ~ loaded
    BY DEF InitDevice, NewMap, TypeInv
  <2>2. /\ \A x \in IOX : x >= p_space => io_space[x] = 0
        /\ \A i \in 1..k : \A o \in 0..(LEN[maps[i].name] + 2) :
             io_space[maps[i].space + o] = First(maps[i].name, o)
    BY <1>2, <2>1 DEF StartInv, BootInv
  <2>3. DOMAIN io_space = IOX /\ p_space \in Nat /\ p_space' \in Nat /\ p_space' <= IO_SPACE_MAX
        /\ p_space < IO_SPACE_MAX /\ IO_SPACE_MAX \in Nat
    <3>1. /\ DOMAIN io_space = IOX /\ p_space \in Nat /\ p_space < IO_SPACE_MAX
          /\ IO_SPACE_MAX \in Nat
      BY BusAssumption DEF BusAssumption, TypeInv, MapInv, Stacked
    <3>2. p_space + page_round(LEN[d]) < IO_SPACE_MAX
      BY <1>1 DEF InitDevice, NewMap, CanAdd
    <3>3. PICK r \in Nat : r = page_round(LEN[d]) /\ p_space' = p_space + r
      BY <1>2, <1>5
    <3> QED
      BY <3>1, <3>2, <3>3
  <2>4. \A x \in IOX : x < p_space \/ x >= p_space' => io_space'[x] = io_space[x]
    <3>1. CASE d = "vgactl"
      <4>1. io_space' = host_write(io_space, p_space, 4, SCREEN)
        BY <1>1, <3>1 DEF InitDevice, init_vga
      <4>2. p_space' >= p_space + 4
        BY <1>2, <1>5, <2>3, <3>1, Lengths
      <4>3. \A x \in IOX : x < p_space \/ x >= p_space' => x \notin p_space..(p_space + 4 - 1)
        BY <2>3, <4>2 DEF IOX
      <4> QED
        BY <2>3, <4>1, <4>3 DEF host_write
    <3>2. CASE d # "vgactl"
      BY <1>1, <3>2 DEF InitDevice
    <3> QED
      BY <3>1, <3>2
  <2>5. \A o \in 0..(LEN[d] + 2) : io_space'[p_space + o] = First(d, o)
    <3> SUFFICES ASSUME NEW o \in 0..(LEN[d] + 2)
                 PROVE  io_space'[p_space + o] = First(d, o)
      OBVIOUS
    <3>1. p_space + o \in IOX /\ p_space + o >= p_space
      <4>1. PICK r \in Nat : /\ r = page_round(LEN[d]) /\ p_space' = p_space + r
                              /\ LEN[d] + 3 <= r
        BY <1>2, <1>5
      <4>2. o \in Nat /\ o <= LEN[d] + 2
        BY <1>5
      <4>3. p_space + o < p_space'
        BY <1>5, <2>3, <4>1, <4>2
      <4> QED
        BY <2>3, <4>2, <4>3 DEF IOX
    <3>2. io_space[p_space + o] = 0
      BY <2>2, <3>1
    <3>3. CASE d = "vgactl"
      <4>1. io_space' = host_write(io_space, p_space, 4, SCREEN)
        BY <1>1, <3>3 DEF InitDevice, init_vga
      <4>2. p_space + o \in p_space..(p_space + 4 - 1) <=> o < 4
        BY <2>3
      <4>3. (p_space + o) - p_space = o
        BY <2>3
      <4> QED
        BY <2>3, <3>1, <3>2, <3>3, <4>1, <4>2, <4>3 DEF host_write, First, Digit
    <3>4. CASE d # "vgactl"
      BY <1>1, <3>2, <3>4 DEF InitDevice, First
    <3> QED
      BY <3>3, <3>4
  <2>6. ASSUME NEW i \in 1..k, NEW o \in 0..(LEN[maps[i].name] + 2)
        PROVE  io_space'[maps[i].space + o] = First(maps[i].name, o)
    <3>1. i \in DOMAIN maps
      BY <1>2 DEF MapInv, Registered
    <3>2. /\ maps[i].space \in Nat /\ LEN[maps[i].name] \in Nat
          /\ LEN[maps[i].name] + 3 <= page_round(LEN[maps[i].name])
          /\ page_round(LEN[maps[i].name]) \in Nat
      BY <3>1, RangeFacts
    <3>3. maps[i].space + page_round(LEN[maps[i].name]) <= p_space
      BY <1>2 DEF MapInv, Stacked, End
    <3>4. maps[i].space + o \in IOX /\ maps[i].space + o < p_space
      <4>1. PICK b \in Nat, l \in Nat, r \in Nat :
              /\ b = maps[i].space /\ l = LEN[maps[i].name]
              /\ r = page_round(LEN[maps[i].name]) /\ l + 3 <= r /\ b + r <= p_space
        BY <3>2, <3>3
      <4>2. o \in Nat /\ o <= l + 2
        BY <4>1
      <4>3. b + o \in Nat /\ b + o < p_space /\ b + o < IO_SPACE_MAX
        BY <2>3, <4>1, <4>2
      <4>4. \A x \in Nat : x < IO_SPACE_MAX => x \in IOX
        BY <2>3 DEF IOX
      <4> QED
        BY <4>1, <4>3, <4>4
    <3> QED
      BY <2>2, <2>4, <3>4
  <2>7. \A x \in IOX : x >= p_space' => io_space'[x] = 0
    <3>1. \A x \in IOX : x >= p_space' => x >= p_space
      BY <1>2, <1>5, <2>3 DEF IOX
    <3> QED
      BY <2>2, <2>4, <3>1
  <2>8. ASSUME NEW i \in 1..(k + 1), NEW o \in 0..(LEN[maps'[i].name] + 2)
        PROVE  io_space'[maps'[i].space + o] = First(maps'[i].name, o)
    <3>1. CASE i \in 1..k
      <4>1. maps'[i] = maps[i]
        BY <1>2, <3>1
      <4> QED
        BY <2>6, <2>8, <3>1, <4>1
    <3>2. CASE i = k + 1
      BY <1>2, <2>5, <2>8, <3>2
    <3> QED
      BY <1>3, <3>1, <3>2
  <2>9. pmem' = [x \in 0..(MSIZE - 1) |-> 0] /\ dev'.ctrl = 0 /\ dev'.intr_nr = 0
    BY <2>1 DEF StartInv, BootInv
  <2> QED
    BY <1>2, <2>7, <2>8, <2>9 DEF BootInv, First, IOX
<1> QED
  BY <1>6, <1>7, <1>8 DEF StartInv

\* The start is over when the machine runs.
LEMMA NextKeepsStartInv == MapInv /\ TypeInv /\ StartInv /\ [Next]_vars => StartInv'
<1> SUFFICES ASSUME MapInv, TypeInv, StartInv, [Next]_vars PROVE StartInv'
  OBVIOUS
<1>1. CASE InitDevice
  BY <1>1, NextStartInv
<1>2. CASE ~ InitDevice
  <2>1. UNCHANGED <<maps, p_space, mmio>>
    BY <1>2, OthersKeepMaps DEF Next
  <2>2. loaded' \/ UNCHANGED <<loaded, pmem, dev, io_space>>
    <3>1. CASE InitDeviceFails
      BY <3>1 DEF InitDeviceFails
    <3>2. CASE LoadImage
      BY <3>2 DEF LoadImage
    <3>3. CASE Access \/ VgaUpdate \/ SendKey \/ Tick
      <4>1. loaded /\ UNCHANGED loaded
        BY <3>3 DEF Access, VgaUpdate, SendKey, Tick, up
      <4> QED
        BY <4>1
    <3>4. CASE UNCHANGED vars
      BY <3>4 DEF vars, bus
    <3> QED
      BY <1>2, <3>1, <3>2, <3>3, <3>4 DEF Next
  <2>3. Sums' /\ PmemApart'
    BY <2>1 DEF StartInv, Sums, Given, PmemApart
  <2>4. BootInv'
    <3>1. CASE loaded'
      BY <3>1 DEF BootInv
    <3>2. CASE UNCHANGED <<loaded, pmem, dev, io_space>>
      BY <2>1, <3>2 DEF StartInv, BootInv
    <3> QED
      BY <2>2, <3>1, <3>2
  <2> QED
    BY <2>3, <2>4 DEF StartInv
<1> QED
  BY <1>1, <1>2
-----------------------------------------------------------------------------
(* The mapping.                                                            *)

Memories == {"pmem", "vgactl", "vmem"}

\* Peripherals and Devices mean the same by words in memory.
LEMMA SameWords ==
  /\ \A k : Abstract!Weight(k) = Weight(k)
  /\ \A m, at, len : Abstract!host_read(m, at, len) = host_read(m, at, len)
  /\ \A m, at, len, data :
       Abstract!host_write(m, at, len, data) = host_write(m, at, len, data)
  /\ Abstract!Lens = Lens
<1>1. \A k : Abstract!Weight(k) = Weight(k)
  BY Zenon DEF Abstract!Weight, Weight
<1>2. ASSUME NEW m, NEW at, NEW len
      PROVE  Abstract!host_read(m, at, len) = host_read(m, at, len)
  <2>1. /\ Abstract!Weight(0) = Weight(0) /\ Abstract!Weight(1) = Weight(1)
        /\ Abstract!Weight(2) = Weight(2) /\ Abstract!Weight(3) = Weight(3)
    BY <1>1, Zenon
  <2> QED
    BY <2>1, Zenon DEF Abstract!host_read, host_read
<1>3. ASSUME NEW m, NEW at, NEW len, NEW data
      PROVE  Abstract!host_write(m, at, len, data) = host_write(m, at, len, data)
  BY <1>1, Zenon DEF Abstract!host_write, host_write
<1> QED
  BY <1>1, <1>2, <1>3, Zenon DEF Abstract!Lens, Lens

\* The memories a guest sees, before and after a step that keeps the ranges.
LEMMA RamFacts ==
  /\ Ram = [d \in Memories |-> Ram[d]] /\ Ram' = [d \in Memories |-> Ram'[d]]
  /\ Ram["pmem"] = pmem /\ Ram'["pmem"] = pmem'
  /\ \A d \in {"vgactl", "vmem"} :
       /\ loaded => Ram[d] = [o \in 0..(LEN[d] + 2) |-> io_space[base(d) + o]]
       /\ ~ loaded => Ram[d] = [o \in 0..(LEN[d] + 2) |-> 0]
       /\ loaded' /\ UNCHANGED maps =>
            Ram'[d] = [o \in 0..(LEN[d] + 2) |-> io_space'[base(d) + o]]
       /\ ~ loaded' => Ram'[d] = [o \in 0..(LEN[d] + 2) |-> 0]
<1>1. Ram = [d \in Memories |-> Ram[d]] /\ Ram' = [d \in Memories |-> Ram'[d]]
  BY DEF Ram, Memories
<1>2. Ram["pmem"] = pmem /\ Ram'["pmem"] = pmem'
  BY DEF Ram
<1>3. ASSUME NEW d \in {"vgactl", "vmem"}
      PROVE  /\ loaded => Ram[d] = [o \in 0..(LEN[d] + 2) |-> io_space[base(d) + o]]
             /\ ~ loaded => Ram[d] = [o \in 0..(LEN[d] + 2) |-> 0]
             /\ ~ loaded' => Ram'[d] = [o \in 0..(LEN[d] + 2) |-> 0]
  BY <1>3 DEF Ram
<1>4. ASSUME NEW d \in {"vgactl", "vmem"}, loaded', UNCHANGED maps
      PROVE  Ram'[d] = [o \in 0..(LEN[d] + 2) |-> io_space'[base(d) + o]]
  <2>1. base(d)' = base(d)
    BY <1>4 DEF base
  <2> QED
    BY <1>4, <2>1 DEF Ram
<1> QED
  BY <1>1, <1>2, <1>3, <1>4

\* Two functions on the memories with the same values are one.
LEMMA SameRam ==
  ASSUME NEW f, f = [d \in Memories |-> f[d]], \A d \in Memories : Ram'[d] = f[d]
  PROVE  Ram' = f
BY RamFacts

\* Initial states map to initial states.
LEMMA InitMaps == Init => Abstract!Init
<1> SUFFICES ASSUME Init PROVE Abstract!Init
  OBVIOUS
<1>1. PICK m \in Machines : /\ mmio = m.mmio /\ image = m.image
                            /\ dev = [NoDevice EXCEPT !.uart = m.uart]
  BY DEF Init
<1>2. Registers = [ctrl |-> 0, rx_ready |-> 0, intr_nr |-> 0,
                   uart |-> m.uart, tx |-> <<>>, keys |-> <<>>]
  BY <1>1 DEF Registers, NoDevice
<1>3. ~ loaded /\ pmem = [x \in 0..(MSIZE - 1) |-> 0]
  BY DEF Init, BusInit
<1>4. Ram = [d \in {"pmem", "vgactl", "vmem"} |-> [o \in Abstract!Bytes(d) |-> 0]]
  <2>1. \A d \in Memories : Ram[d] = [o \in Abstract!Bytes(d) |-> 0]
    BY <1>3, RamFacts DEF Abstract!Bytes, Memories
  <2> QED
    BY <2>1, RamFacts, Zenon DEF Memories
<1>5. last = [op |-> "none", addr |-> 0, len |-> 1, val |-> 0]
  BY DEF Init, NoAccess
<1> QED
  BY <1>1, <1>2, <1>4, <1>5 DEF Init, BusInit, Abstract!Init

\* The place of a range that has been registered.
Slot(d) == CHOOSE i \in DOMAIN maps : maps[i].name = d

\* Once all are, each has one.
LEMMA SlotFacts ==
  ASSUME MapInv, TypeInv, booted, NEW d \in Names
  PROVE  /\ Slot(d) \in DOMAIN maps /\ Slot(d) \in 1..Len(maps)
         /\ maps[Slot(d)].name = d /\ maps[Slot(d)].low = mmio[d]
         /\ maps[Slot(d)].high = mmio[d] + LEN[d] - 1
         /\ base(d) = maps[Slot(d)].space
         /\ base(d) \in Nat /\ LEN[d] \in Nat /\ mmio[d] \in Int
         /\ base(d) + LEN[d] + 3 <= IO_SPACE_MAX /\ IO_SPACE_MAX \in Nat
         /\ \A i \in DOMAIN maps : maps[i].name = d => i = Slot(d)
<1>1. Boot \in Seq(Names) /\ \A i, j \in DOMAIN Boot : Boot[i] = Boot[j] => i = j
  BY DevicesAssumption DEF DevicesAssumption
<1>2. DOMAIN maps = 1..Len(maps) /\ DOMAIN Boot = 1..Len(maps)
  BY <1>1 DEF MapInv, Registered, booted
<1>3. PICK i0 \in DOMAIN maps : Boot[i0] = d
  BY <1>2 DEF Names
<1>4. \A i \in DOMAIN maps : maps[i].name = Boot[i] /\ maps[i].low = mmio[Boot[i]]
  BY <1>2 DEF TypeInv, Placed
<1>5. Slot(d) \in DOMAIN maps /\ maps[Slot(d)].name = d
  BY <1>3, <1>4 DEF Slot
<1>6. \A i \in DOMAIN maps : maps[i].name = d => i = Slot(d)
  BY <1>1, <1>2, <1>4, <1>5
<1>7. PICK i1 \in DOMAIN maps : i1 = Slot(d)
  BY <1>5
<1>8. /\ LEN[d] \in Nat /\ LEN[d] + 3 <= page_round(LEN[d]) /\ maps[i1].low \in Int
      /\ maps[i1].high = maps[i1].low + LEN[d] - 1
      /\ maps[i1].space \in Nat /\ page_round(LEN[d]) \in Nat
      /\ maps[i1].space + page_round(LEN[d]) <= IO_SPACE_MAX
  BY <1>5, <1>7, RangeFacts
<1>9. IO_SPACE_MAX \in Nat
  BY BusAssumption DEF BusAssumption
<1>10. maps[i1].space + LEN[d] + 3 <= IO_SPACE_MAX
  BY <1>8, <1>9
<1>11. base(d) = maps[i1].space
  BY <1>7 DEF base, Slot
<1>12. maps[i1].low = mmio[d]
  BY <1>4, <1>5, <1>7
<1> QED
  BY <1>2, <1>5, <1>6, <1>7, <1>8, <1>9, <1>10, <1>11, <1>12

\* Ranges and pmem share no address, spaces no byte.
LEMMA SlotsApart ==
  ASSUME MapInv, TypeInv, PmemApart, booted, NEW d \in Names
  PROVE  /\ mmio[d] + LEN[d] - 1 < MBASE \/ MBASE + MSIZE <= mmio[d]
         /\ \A e \in Names : e # d =>
              /\ \/ mmio[d] + LEN[d] - 1 < mmio[e]
                 \/ mmio[e] + LEN[e] - 1 < mmio[d]
              /\ base(d) + LEN[d] + 2 < base(e) \/ base(e) + LEN[e] + 2 < base(d)
<1>1. mmio[d] + LEN[d] - 1 < MBASE \/ MBASE + MSIZE <= mmio[d]
  BY SlotFacts DEF PmemApart
<1>2. ASSUME NEW e \in Names, e # d
      PROVE  /\ \/ mmio[d] + LEN[d] - 1 < mmio[e]
                \/ mmio[e] + LEN[e] - 1 < mmio[d]
             /\ base(d) + LEN[d] + 2 < base(e) \/ base(e) + LEN[e] + 2 < base(d)
  <2>1. PICK i \in 1..Len(maps) : /\ i = Slot(d) /\ i \in DOMAIN maps
                                  /\ maps[i].name = d /\ maps[i].low = mmio[d]
                                  /\ maps[i].high = mmio[d] + LEN[d] - 1
                                  /\ base(d) = maps[i].space
    BY SlotFacts
  <2>2. PICK j \in 1..Len(maps) : /\ j = Slot(e) /\ j \in DOMAIN maps
                                  /\ maps[j].name = e /\ maps[j].low = mmio[e]
                                  /\ maps[j].high = mmio[e] + LEN[e] - 1
                                  /\ base(e) = maps[j].space
    BY SlotFacts
  <2>3. i < j \/ j < i
    BY <1>2, <2>1, <2>2
  <2>4. /\ LEN[d] \in Nat /\ LEN[d] + 3 <= page_round(LEN[d])
        /\ LEN[e] \in Nat /\ LEN[e] + 3 <= page_round(LEN[e])
        /\ page_round(LEN[d]) \in Nat /\ page_round(LEN[e]) \in Nat
        /\ base(d) \in Nat /\ base(e) \in Nat
    BY <2>1, <2>2, RangeFacts
  <2>5. \/ mmio[d] + LEN[d] - 1 < mmio[e]
        \/ mmio[e] + LEN[e] - 1 < mmio[d]
    BY <2>1, <2>2, <2>3 DEF MapInv, Apart
  <2>6. base(d) + page_round(LEN[d]) <= base(e) \/ base(e) + page_round(LEN[e]) <= base(d)
    BY <2>1, <2>2, <2>3 DEF MapInv, Stacked, End
  <2>7. base(d) + LEN[d] + 2 < base(e) \/ base(e) + LEN[e] + 2 < base(d)
    <3>1. PICK b \in Nat, l \in Nat, r \in Nat :
            b = base(d) /\ l = LEN[d] /\ r = page_round(LEN[d]) /\ l + 3 <= r
      BY <2>4
    <3>2. PICK c \in Nat, m \in Nat, q \in Nat :
            c = base(e) /\ m = LEN[e] /\ q = page_round(LEN[e]) /\ m + 3 <= q
      BY <2>4
    <3>3. (b + r <= c \/ c + q <= b) /\ l + 3 <= r /\ m + 3 <= q
      BY <2>6, <3>1, <3>2
    <3>4. b + l + 2 < c \/ c + m + 2 < b
      BY <3>3
    <3> QED
      BY <3>1, <3>2, <3>4
  <2> QED
    BY <2>5, <2>7
<1> QED
  BY <1>1, <1>2

\* A layout that registers can boot ...
LEMMA BootedBootable ==
  ASSUME MapInv, TypeInv, PmemApart, booted, image \in {None} \cup 1..MSIZE
  PROVE  Abstract!Bootable
<1>1. ASSUME NEW d \in Names, NEW e \in Names, d # e
      PROVE  Abstract!Range(d) \cap Abstract!Range(e) = {}
  <2>1. /\ mmio[d] \in Int /\ LEN[d] \in Nat /\ mmio[e] \in Int /\ LEN[e] \in Nat
    BY SlotFacts
  <2>2. mmio[d] + LEN[d] - 1 < mmio[e] \/ mmio[e] + LEN[e] - 1 < mmio[d]
    BY <1>1, SlotsApart
  <2> QED
    BY <2>1, <2>2 DEF Abstract!Range
<1>2. ASSUME NEW d \in Names
      PROVE  Abstract!Range(d) \cap MBASE..(MBASE + MSIZE - 1) = {}
  <2>1. mmio[d] \in Int /\ LEN[d] \in Nat /\ MBASE \in Nat /\ MSIZE \in Nat
    BY Overlapping
  <2>2. mmio[d] + LEN[d] - 1 < MBASE \/ MBASE + MSIZE <= mmio[d]
    BY SlotsApart
  <2> QED
    BY <2>1, <2>2 DEF Abstract!Range
<1> QED
  BY <1>1, <1>2 DEF Abstract!Bootable

\* ... and one that does not cannot: there is room, so a range overlaps.
LEMMA RefusedUnbootable ==
  ASSUME MapInv, TypeInv, Sums, InitDeviceFails
  PROVE  ~ Abstract!Bootable
<1>1. PICK d \in Names : d = Boot[Len(maps) + 1] /\ ~ CanAdd(mmio[d], LEN[d])
  BY NextRange DEF InitDeviceFails
<1>2. Overlaps(mmio[d], mmio[d] + LEN[d] - 1)
  BY <1>1, RoomLeft DEF CanAdd, InitDeviceFails
<1>3. /\ mmio[d] \in Int /\ LEN[d] \in Nat /\ LEN[d] > 0
      /\ MBASE \in Nat /\ MSIZE \in Nat
  BY Overlapping
<1>4. PICK lo \in Int, hi \in Int : lo = mmio[d] /\ hi = mmio[d] + LEN[d] - 1 /\ lo <= hi
  BY <1>3
<1>5. Abstract!Range(d) = lo..hi
  BY <1>4 DEF Abstract!Range
<1>6. CASE in_pmem(lo) \/ in_pmem(hi)
  <2>1. lo..hi \cap MBASE..(MBASE + MSIZE - 1) # {}
    BY <1>4, <1>6 DEF in_pmem
  <2> QED
    BY <1>5, <2>1 DEF Abstract!Bootable
<1>7. ASSUME NEW i \in DOMAIN maps, lo <= maps[i].high, hi >= maps[i].low
      PROVE  ~ Abstract!Bootable
  <2>1. PICK e \in Names : e = maps[i].name
    BY RangeFacts
  <2>2. e # d
    BY <1>1, <2>1, RangeFacts, NextRange DEF InitDeviceFails
  <2>3. PICK l \in Int, h \in Int : /\ l = maps[i].low /\ h = maps[i].high
                                    /\ l = mmio[e] /\ h = mmio[e] + LEN[e] - 1
                                    /\ l <= h
    <3>1. i \in 1..Len(maps) /\ maps[i].low \in Int /\ maps[i].high \in Int
          /\ maps[i].high = maps[i].low + LEN[e] - 1
      BY <2>1, RangeFacts
    <3>2. maps[i].low = mmio[e]
      BY <2>1, <3>1 DEF TypeInv, Placed
    <3>3. LEN[e] \in Nat /\ LEN[e] > 0
      BY Lengths
    <3> QED
      BY <3>1, <3>2, <3>3
  <2>4. Abstract!Range(e) = l..h
    BY <2>3 DEF Abstract!Range
  <2>5. \E x \in Int : x \in lo..hi /\ x \in l..h
    <3>1. CASE lo >= l
      BY <1>4, <1>7, <2>3, <3>1
    <3>2. CASE lo < l
      BY <1>4, <1>7, <2>3, <3>2
    <3> QED
      BY <3>1, <3>2
  <2> QED
    BY <1>5, <2>2, <2>4, <2>5 DEF Abstract!Bootable
<1> QED
  BY <1>2, <1>4, <1>6, <1>7 DEF Overlaps

\* A step that changes nothing the guest sees.
LEMMA RamSame ==
  ASSUME UNCHANGED <<loaded, pmem>>, loaded => UNCHANGED <<maps, io_space>>
  PROVE  UNCHANGED Ram
<1>1. \A d \in Memories : Ram'[d] = Ram[d]
  BY RamFacts DEF Memories
<1> QED
  BY <1>1, RamFacts, SameRam

\* The registration of a range is a stuttering step.
LEMMA InitDeviceMaps ==
  ASSUME TypeInv, InitDevice
  PROVE  UNCHANGED Abstract!vars
<1>1. UNCHANGED <<mmio, image, loaded, fate, dev, clock, screen, last, pmem>> /\ ~ loaded
  BY DEF InitDevice, NewMap, TypeInv
<1>2. UNCHANGED Ram
  BY <1>1, RamSame
<1> QED
  BY <1>1, <1>2 DEF Abstract!vars, Registers

\* Its failure fails the start.
LEMMA InitDeviceFailsMaps ==
  ASSUME MapInv, TypeInv, Sums, InitDeviceFails
  PROVE  Abstract!BootFails
<1>1. ~ loaded /\ fate = "run" /\ fate' = "died"
      /\ UNCHANGED <<mmio, image, loaded, dev, clock, screen, last, pmem>>
  BY DEF InitDeviceFails, TypeInv
<1>2. UNCHANGED Ram
  BY <1>1, RamSame
<1> QED
  BY <1>1, <1>2, RefusedUnbootable DEF Abstract!BootFails, Registers

\* The image makes the machine start, or fails it.
LEMMA LoadImageMaps ==
  ASSUME MapInv, TypeInv, StartInv, LoadImage
  PROVE  Abstract!PowerOn \/ Abstract!BootFails
<1>1. /\ booted /\ ~ loaded /\ fate = "run"
      /\ UNCHANGED <<maps, io_space, mmio, image, dev, clock, screen, last>>
  BY DEF LoadImage
<1>2. UNCHANGED Registers
  BY <1>1 DEF Registers
<1>3. CASE image \notin {None} \cup 1..MSIZE
  <2>1. /\ fate' \in {"died", "wild"} /\ (fate' = "wild" => image # 0)
        /\ UNCHANGED <<loaded, pmem>>
    BY <1>3 DEF LoadImage
  <2>2. UNCHANGED Ram
    BY <1>1, <2>1, RamSame
  <2>3. fate' = "wild" => image \notin {None} \cup 0..MSIZE
    <3>1. \A x \in 0..MSIZE : x = 0 \/ x \in 1..MSIZE
      BY BusAssumption DEF BusAssumption
    <3> QED
      BY <1>3, <2>1, <3>1
  <2>4. ~ Abstract!Bootable
    BY <1>3 DEF Abstract!Bootable
  <2>5. Abstract!BootFails
    BY <1>1, <1>2, <2>1, <2>2, <2>3, <2>4 DEF Abstract!BootFails
  <2> QED
    BY <2>5
<1>4. CASE image \in {None} \cup 1..MSIZE
  <2>1. /\ loaded' /\ UNCHANGED fate
        /\ pmem' = [x \in DOMAIN pmem |->
                      IF image # None /\ x < image THEN 2 ELSE init_isa[x]]
    BY <1>4 DEF LoadImage
  <2>2. pmem = [x \in 0..(MSIZE - 1) |-> 0]
    BY <1>1 DEF StartInv, BootInv
  <2>3. Ram'["pmem"] = [o \in DOMAIN Ram["pmem"] |->
                          IF image # None /\ o < image THEN 2
                          ELSE IF o < BUILTIN THEN 1 ELSE 0]
    BY <2>1, <2>2, RamFacts DEF init_isa
  <2>4. ASSUME NEW d \in {"vgactl", "vmem"}
        PROVE  Ram'[d] = [o \in 0..(LEN[d] + 2) |-> First(d, o)]
    <3>1. d \in Names
      BY DevicesAssumption DEF DevicesAssumption
    <3>2. PICK i \in 1..Len(maps) : maps[i].name = d /\ base(d) = maps[i].space
      BY <1>1, <3>1, SlotFacts
    <3>3. \A o \in 0..(LEN[d] + 2) : io_space[base(d) + o] = First(d, o)
      BY <1>1, <3>2 DEF StartInv, BootInv
    <3>4. Ram'[d] = [o \in 0..(LEN[d] + 2) |-> io_space'[base(d) + o]]
      BY <1>1, <2>1, RamFacts
    <3> QED
      BY <1>1, <3>3, <3>4
  <2>5. Ram'["vgactl"] = [o \in DOMAIN Ram["vgactl"] |->
                            IF o < 4 THEN (SCREEN \div Abstract!Weight(o)) % BYTE ELSE 0]
    <3>1. DOMAIN Ram["vgactl"] = 0..(LEN["vgactl"] + 2)
      BY <1>1, RamFacts
    <3>2. \A o : Abstract!Weight(o) = Weight(o)
      BY SameWords
    <3>3. \A o : First("vgactl", o) = IF o < 4 THEN (SCREEN \div Abstract!Weight(o)) % BYTE ELSE 0
      BY <3>2 DEF First, Digit
    <3> QED
      BY <2>4, <3>1, <3>3
  <2>6. Ram'["vmem"] = Ram["vmem"]
    <3>1. \A o : First("vmem", o) = 0
      BY DEF First
    <3>2. Ram["vmem"] = [o \in 0..(LEN["vmem"] + 2) |-> 0]
      BY <1>1, RamFacts
    <3> QED
      BY <2>4, <3>1, <3>2
  <2>7. Ram' = [Ram EXCEPT
          !["vgactl"] = [o \in DOMAIN @ |->
             IF o < 4 THEN (SCREEN \div Abstract!Weight(o)) % BYTE ELSE 0],
          !["pmem"] = [o \in DOMAIN @ |-> IF image # None /\ o < image THEN 2
                                          ELSE IF o < BUILTIN THEN 1 ELSE 0]]
    <3>1. PICK g, p : /\ g = Ram'["vgactl"] /\ p = Ram'["pmem"]
      OBVIOUS
    <3>2. Ram' = [Ram EXCEPT !["vgactl"] = g, !["pmem"] = p]
      <4>1. PICK f : f = [Ram EXCEPT !["vgactl"] = g, !["pmem"] = p]
        OBVIOUS
      <4>2. f = [d \in Memories |-> f[d]]
        BY <4>1, RamFacts
      <4>3. \A d \in Memories : Ram'[d] = f[d]
        BY <2>6, <3>1, <4>1, RamFacts DEF Memories
      <4>4. Ram' = f
        BY <4>2, <4>3, SameRam
      <4> QED
        BY <4>1, <4>4
    <3> QED
      BY <2>3, <2>5, <3>1, <3>2, Zenon
  <2>8. Abstract!Bootable
    BY <1>1, <1>4, BootedBootable DEF StartInv
  <2>9. loaded' = TRUE
    BY <1>4 DEF LoadImage
  <2>10. Abstract!PowerOn
    BY <1>1, <1>2, <2>1, <2>7, <2>8, <2>9, Zenon DEF Abstract!PowerOn
  <2> QED
    BY <2>10
<1> QED
  BY <1>3, <1>4
-----------------------------------------------------------------------------
(* Copies of the registers.                                                *)

\* While the machine runs, the spaces hold what a partial write must find:
\* the whole of ctrl and of intr_nr; and nothing beside a received byte.
CtrlInv == host_read(io_space, base("serial"), 4) = dev.ctrl
PadInv == \A o \in 17..19 : io_space[base("serial") + o] = 0
IntrInv == host_read(io_space, base("rtc") + 8, 4) = dev.intr_nr

RegInv == up => CtrlInv /\ PadInv /\ IntrInv

Inv == MapInv /\ TypeInv /\ StartInv /\ RegInv

\* What the accesses rest on.
LEMMA UpFacts ==
  ASSUME Inv, up
  PROVE  /\ MapInv /\ TypeInv /\ PmemApart /\ booted /\ loaded /\ fate = "run"
         /\ CtrlInv /\ PadInv /\ IntrInv
         /\ {"serial", "rtc", "vgactl", "vmem", "keyboard"} = Names
         /\ io_space \in [IOX -> Byte] /\ dev \in Statics /\ IOX \in SUBSET Int
<1>1. /\ MapInv /\ TypeInv /\ PmemApart /\ loaded /\ fate = "run"
      /\ CtrlInv /\ PadInv /\ IntrInv
  BY DEF Inv, StartInv, RegInv, up
<1>2. booted /\ io_space \in [IOX -> Byte] /\ dev \in Statics
  BY <1>1 DEF TypeInv
<1>3. {"serial", "rtc", "vgactl", "vmem", "keyboard"} = Names
  BY DevicesAssumption DEF DevicesAssumption
<1>4. IOX \in SUBSET Int
  BY BusAssumption DEF BusAssumption, IOX
<1> QED
  BY <1>1, <1>2, <1>3, <1>4

\* The bytes of a range, and three more, are in io_space.
LEMMA InSpace ==
  ASSUME Inv, up, NEW d \in Names, NEW o \in Nat, o <= LEN[d] + 2
  PROVE  base(d) + o \in IOX /\ io_space[base(d) + o] \in Byte
<1>1. /\ base(d) \in Nat /\ LEN[d] \in Nat /\ base(d) + LEN[d] + 3 <= IO_SPACE_MAX
      /\ IO_SPACE_MAX \in Nat
  BY UpFacts, SlotFacts
<1>2. base(d) + o \in IOX
  BY <1>1 DEF IOX
<1> QED
  BY <1>2, UpFacts

\* A word depends on its four bytes.
LEMMA ReadWordSame ==
  ASSUME NEW at, \A k \in 0..3 : io_space'[at + k] = io_space[at + k]
  PROVE  host_read(io_space', at, 4) = host_read(io_space, at, 4)
<1>1. /\ io_space'[at + 0] = io_space[at + 0] /\ io_space'[at + 1] = io_space[at + 1]
      /\ io_space'[at + 2] = io_space[at + 2] /\ io_space'[at + 3] = io_space[at + 3]
  OBVIOUS
<1> QED
  BY <1>1 DEF host_read

\* Four zero bytes are the word 0.
LEMMA ReadZero ==
  ASSUME NEW at \in Int, \A k \in 0..3 : io_space[at + k] = 0
  PROVE  host_read(io_space, at, 4) = 0
<1>1. io_space[at + 0] = 0 /\ at + 0 = at
  OBVIOUS
<1>2. /\ io_space[at] = 0 /\ io_space[at + 1] = 0 /\ io_space[at + 2] = 0
      /\ io_space[at + 3] = 0
  BY <1>1
<1>3. /\ Weight(1) \in Nat /\ Weight(2) \in Nat /\ Weight(3) \in Nat
  BY WeightFacts
<1>4. 0 * Weight(1) = 0 /\ 0 * Weight(2) = 0 /\ 0 * Weight(3) = 0
  BY <1>3
<1> QED
  BY <1>2, <1>4, ReadSums

\* The machine starts with the copies right.
LEMMA LoadImageRegInv ==
  ASSUME MapInv, TypeInv, StartInv, LoadImage
  PROVE  RegInv'
<1> SUFFICES ASSUME up' PROVE CtrlInv' /\ PadInv' /\ IntrInv'
  BY DEF RegInv
<1>1. booted /\ ~ loaded /\ UNCHANGED <<maps, io_space, dev>>
  BY DEF LoadImage
<1>2. dev.ctrl = 0 /\ dev.intr_nr = 0
  BY <1>1 DEF StartInv, BootInv
<1>3. ASSUME NEW d \in {"serial", "rtc"}
      PROVE  \A o \in 0..(LEN[d] + 2) : io_space[base(d) + o] = 0
  <2>1. d \in Names
    BY DevicesAssumption DEF DevicesAssumption
  <2>2. PICK i \in 1..Len(maps) : maps[i].name = d /\ base(d) = maps[i].space
    BY <1>1, <2>1, SlotFacts
  <2>3. \A o : First(d, o) = 0
    BY DEF First
  <2> QED
    BY <1>1, <2>2, <2>3 DEF StartInv, BootInv
<1>4. LEN["serial"] = 20 /\ LEN["rtc"] = 12
  BY Lengths
<1>5. base("serial") \in Int /\ base("rtc") \in Int
  BY <1>1, SlotFacts, DevicesAssumption DEF DevicesAssumption
<1>6. host_read(io_space, base("serial"), 4) = 0
  <2>1. \A k \in 0..3 : io_space[base("serial") + k] = 0
    BY <1>3, <1>4
  <2> QED
    BY <1>5, <2>1, ReadZero
<1>7. host_read(io_space, base("rtc") + 8, 4) = 0
  <2>1. \A k \in 0..3 : io_space[(base("rtc") + 8) + k] = 0
    <3>1. \A k \in 0..3 : (base("rtc") + 8) + k = base("rtc") + (8 + k) /\ 8 + k \in 0..14
      BY <1>5
    <3> QED
      BY <1>3, <1>4, <3>1
  <2> QED
    BY <1>5, <2>1, ReadZero
<1>8. \A o \in 17..19 : io_space[base("serial") + o] = 0
  BY <1>3, <1>4
<1>9. base("serial")' = base("serial") /\ base("rtc")' = base("rtc")
  BY <1>1 DEF base
<1> QED
  BY <1>1, <1>2, <1>6, <1>7, <1>8, <1>9 DEF CtrlInv, PadInv, IntrInv

\* Where a space begins.
LEMMA BaseIsInt ==
  ASSUME Inv, up, NEW d \in Names
  PROVE  base(d) \in Int
<1>1. MapInv /\ TypeInv /\ booted
  BY UpFacts
<1>2. base(d) \in Nat
  BY <1>1, SlotFacts
<1> QED
  BY <1>2

\* The copies, after a step that leaves their bytes and their registers.
LEMMA KeepsCtrl ==
  ASSUME Inv, up, UNCHANGED maps, dev'.ctrl = dev.ctrl,
         \A k \in 0..3 : io_space'[base("serial") + k] = io_space[base("serial") + k]
  PROVE  CtrlInv'
<1>a. "serial" \in Names
  BY UpFacts
<1>b. base("serial") \in Int
  BY <1>a, BaseIsInt, Zenon
<1>1. base("serial") \in Int /\ base("serial")' = base("serial")
  BY <1>b, Zenon DEF base
<1>2. host_read(io_space', base("serial"), 4) = host_read(io_space, base("serial"), 4)
  BY <1>1, ReadWordSame
<1> QED
  BY <1>1, <1>2, UpFacts, Zenon DEF CtrlInv

\* Likewise.
LEMMA KeepsPad ==
  ASSUME Inv, up, UNCHANGED maps,
         \A o \in 17..19 : io_space'[base("serial") + o] = io_space[base("serial") + o]
  PROVE  PadInv'
<1>1. base("serial")' = base("serial")
  BY DEF base
<1>2. PadInv
  BY UpFacts
<1> QED
  BY <1>1, <1>2, Zenon DEF PadInv

\* Likewise.
LEMMA KeepsIntr ==
  ASSUME Inv, up, UNCHANGED maps, dev'.intr_nr = dev.intr_nr,
         \A o \in 8..11 : io_space'[base("rtc") + o] = io_space[base("rtc") + o]
  PROVE  IntrInv'
<1>a. "rtc" \in Names
  BY UpFacts
<1>b. base("rtc") \in Int
  BY <1>a, BaseIsInt, Zenon
<1>1. base("rtc") \in Int /\ base("rtc")' = base("rtc")
  BY <1>b, Zenon DEF base
<1>2. \A k \in 0..3 : (base("rtc") + 8) + k = base("rtc") + (8 + k) /\ 8 + k \in 8..11
  BY <1>1
<1>3. host_read(io_space', base("rtc") + 8, 4) = host_read(io_space, base("rtc") + 8, 4)
  <2>1. \A k \in 0..3 : io_space'[(base("rtc") + 8) + k] = io_space[(base("rtc") + 8) + k]
    BY <1>2
  <2> QED
    BY <1>1, <2>1, ReadWordSame
<1> QED
  BY <1>1, <1>3, UpFacts, Zenon DEF IntrInv

\* A change within one range is none in the others.
LEMMA OthersSame ==
  ASSUME Inv, up, NEW d \in Names, NEW e \in Names, e # d,
         Within(io_space, io_space', base(d), base(d) + LEN[d] + 2)
  PROVE  \A o \in 0..(LEN[e] + 2) : io_space'[base(e) + o] = io_space[base(e) + o]
<1> SUFFICES ASSUME NEW o \in 0..(LEN[e] + 2)
             PROVE  io_space'[base(e) + o] = io_space[base(e) + o]
  OBVIOUS
<1>1. /\ base(d) \in Nat /\ LEN[d] \in Nat /\ base(e) \in Nat /\ LEN[e] \in Nat
  BY UpFacts, SlotFacts
<1>2. base(d) + LEN[d] + 2 < base(e) \/ base(e) + LEN[e] + 2 < base(d)
  BY UpFacts, SlotsApart
<1>3. base(e) + o \notin base(d)..(base(d) + LEN[d] + 2)
  BY <1>1, <1>2
<1>4. base(e) + o \in DOMAIN io_space
  BY <1>1, InSpace, UpFacts
<1> QED
  BY <1>3, <1>4 DEF Within

\* A change within a range with a handler is no change of a memory.
LEMMA RamFrame ==
  ASSUME Inv, up, UNCHANGED <<maps, loaded, pmem>>, NEW d \in {"serial", "rtc", "keyboard"},
         Within(io_space, io_space', base(d), base(d) + LEN[d] + 2)
  PROVE  Ram' = Ram
<1>1. ASSUME NEW e \in {"vgactl", "vmem"}
      PROVE  Ram'[e] = Ram[e]
  <2>1. e \in Names /\ d \in Names /\ e # d
    BY <1>1, UpFacts
  <2>2. \A o \in 0..(LEN[e] + 2) : io_space'[base(e) + o] = io_space[base(e) + o]
    BY <2>1, OthersSame
  <2>3. loaded /\ loaded'
    BY DEF up
  <2>4. /\ Ram[e] = [o \in 0..(LEN[e] + 2) |-> io_space[base(e) + o]]
        /\ Ram'[e] = [o \in 0..(LEN[e] + 2) |-> io_space'[base(e) + o]]
    BY <1>1, <2>3, RamFacts
  <2> QED
    BY <2>2, <2>4
<1>2. Ram'["pmem"] = Ram["pmem"]
  BY RamFacts
<1>3. \A e \in Memories : Ram'[e] = Ram[e]
  BY <1>1, <1>2 DEF Memories
<1> QED
  BY <1>3, RamFacts, SameRam

\* What becomes of the registers when a handler has updated no static ...
LEMMA RegistersSame ==
  ASSUME UNCHANGED dev
  PROVE  Registers' = Registers
BY DEF Registers

\* ... or one of them, and of the two that are copied.
LEMMA CtrlUpdated ==
  ASSUME dev \in Statics, NEW v, dev' = [dev EXCEPT !.ctrl = v]
  PROVE  /\ Registers' = [Registers EXCEPT !.ctrl = v]
         /\ dev'.ctrl = v /\ dev'.intr_nr = dev.intr_nr
BY DEF Registers, Statics

\* Likewise.
LEMMA IntrUpdated ==
  ASSUME dev \in Statics, NEW v, dev' = [dev EXCEPT !.intr_nr = v]
  PROVE  /\ Registers' = [Registers EXCEPT !.intr_nr = v]
         /\ dev'.ctrl = dev.ctrl /\ dev'.intr_nr = v
BY DEF Registers, Statics

\* The copy of the time is no register.
LEMMA ClockUpdated ==
  ASSUME dev \in Statics, NEW v, dev' = [dev EXCEPT !.timer_rtc = v]
  PROVE  /\ Registers' = Registers
         /\ dev'.ctrl = dev.ctrl /\ dev'.intr_nr = dev.intr_nr
BY DEF Registers, Statics

\* Likewise.
LEMMA ReadyUpdated ==
  ASSUME dev \in Statics, NEW v, dev' = [dev EXCEPT !.rx_ready = v]
  PROVE  /\ Registers' = [Registers EXCEPT !.rx_ready = v]
         /\ dev'.ctrl = dev.ctrl /\ dev'.intr_nr = dev.intr_nr
BY DEF Registers, Statics

\* Likewise.
LEMMA UartUpdated ==
  ASSUME dev \in Statics, NEW v, dev' = [dev EXCEPT !.uart = v]
  PROVE  /\ Registers' = [Registers EXCEPT !.uart = v]
         /\ dev'.ctrl = dev.ctrl /\ dev'.intr_nr = dev.intr_nr
BY DEF Registers, Statics

\* Likewise.
LEMMA TxUpdated ==
  ASSUME dev \in Statics, NEW v, dev' = [dev EXCEPT !.tx = v]
  PROVE  /\ Registers' = [Registers EXCEPT !.tx = v]
         /\ dev'.ctrl = dev.ctrl /\ dev'.intr_nr = dev.intr_nr
BY DEF Registers, Statics

\* Likewise.
LEMMA KeysUpdated ==
  ASSUME dev \in Statics, NEW v, dev' = [dev EXCEPT !.keys = v]
  PROVE  /\ Registers' = [Registers EXCEPT !.keys = v]
         /\ dev'.ctrl = dev.ctrl /\ dev'.intr_nr = dev.intr_nr
BY DEF Registers, Statics
-----------------------------------------------------------------------------
(* Accesses to registers.                                                  *)

Controllers == {"serial", "rtc", "keyboard"}

\* What an access leaves alone wherever it goes.
Frame == UNCHANGED <<maps, mmio, image, loaded, clock, screen>>

\* The offsets that Peripherals serves lie in the ranges.
LEMMA ServedFacts ==
  ASSUME NEW served, served \in {Abstract!Readable, Abstract!Writable}
  PROVE  /\ DOMAIN served = Controllers
         /\ \A d \in Controllers : \A o \in served[d] : o \in Nat /\ o < LEN[d]
<1>1. LEN["serial"] = 20 /\ LEN["rtc"] = 12 /\ LEN["keyboard"] = 16
  BY Lengths
<1>2. CASE served = Abstract!Readable
  <2>1. served = [serial |-> {0, 4, 16}, rtc |-> {0, 4, 8}, keyboard |-> {4}]
    BY <1>2 DEF Abstract!Readable
  <2> QED
    BY <1>1, <2>1 DEF Controllers
<1>3. CASE served = Abstract!Writable
  <2>1. served = [serial |-> {0, 4, 12}, rtc |-> {0, 8}, keyboard |-> {}]
    BY <1>3 DEF Abstract!Writable
  <2> QED
    BY <1>1, <2>1 DEF Controllers
<1> QED
  BY <1>2, <1>3

\* An address in a range is in no other one, nor in pmem.
LEMMA Located ==
  ASSUME Inv, up, NEW d \in Names, NEW off \in Nat, off < LEN[d], NEW addr, addr = mmio[d] + off
  PROVE  /\ addr \in Int /\ ~ in_pmem(addr)
         /\ \A e \in Names : \A o \in Nat : o < LEN[e] /\ addr = mmio[e] + o => e = d /\ o = off
<1>1. /\ mmio[d] \in Int /\ LEN[d] \in Nat /\ MBASE \in Nat /\ MSIZE \in Nat
      /\ \A x \in Int : in_pmem(x) <=> MBASE <= x /\ x < MBASE + MSIZE
  BY UpFacts, Overlapping
<1>2. PICK a \in Int, l \in Nat : a = mmio[d] /\ l = LEN[d] /\ off < l /\ addr = a + off
  BY <1>1
<1>3. a + l - 1 < MBASE \/ MBASE + MSIZE <= a
  BY <1>2, UpFacts, SlotsApart
<1>4. addr \in Int /\ (addr < MBASE \/ MBASE + MSIZE <= addr)
  BY <1>1, <1>2, <1>3
<1>5. ASSUME NEW e \in Names, NEW o \in Nat, o < LEN[e], addr = mmio[e] + o
      PROVE  e = d /\ o = off
  <2>1. CASE e = d
    BY <1>2, <1>5, <2>1
  <2>2. CASE e # d
    <3>1. PICK c \in Int, m \in Nat : c = mmio[e] /\ m = LEN[e] /\ o < m /\ addr = c + o
      BY <1>5, UpFacts, Overlapping
    <3>2. a + l - 1 < c \/ c + m - 1 < a
      BY <1>2, <2>2, <3>1, UpFacts, SlotsApart
    <3> QED
      BY <1>2, <3>1, <3>2
  <2> QED
    BY <2>1, <2>2
<1> QED
  BY <1>1, <1>4, <1>5

\* An address of a range with a handler is in no memory.
LEMMA NoMemory ==
  ASSUME Inv, up, NEW d \in Controllers, NEW off \in Nat, off < LEN[d],
         NEW addr, addr = mmio[d] + off, NEW len
  PROVE  \A m \in Memories : ~ Abstract!Memory(m, addr, len)
<1>1. d \in Names
  BY UpFacts DEF Controllers
<1>2. /\ addr \in Int /\ ~ in_pmem(addr)
      /\ \A e \in Names : \A o \in Nat : o < LEN[e] /\ addr = mmio[e] + o => e = d /\ o = off
  BY <1>1, Located
<1>3. MBASE \in Nat /\ MSIZE \in Nat
  BY BusAssumption DEF BusAssumption
<1>4. ~ Abstract!Memory("pmem", addr, len)
  BY <1>2, <1>3 DEF in_pmem, Abstract!Memory, Abstract!Begin, Abstract!Bytes
<1>5. ASSUME NEW m \in {"vgactl", "vmem"}
      PROVE  ~ Abstract!Memory(m, addr, len)
  <2>1. m \in Names /\ m # d /\ m # "pmem"
    BY UpFacts DEF Controllers
  <2>2. mmio[m] \in Int /\ LEN[m] \in Nat
    BY <2>1, UpFacts, Overlapping
  <2>3. addr \notin mmio[m]..(mmio[m] + LEN[m] - 1)
    <3> SUFFICES ASSUME addr \in mmio[m]..(mmio[m] + LEN[m] - 1) PROVE FALSE
      OBVIOUS
    <3>1. PICK a \in Int, l \in Nat : a = mmio[m] /\ l = LEN[m]
      BY <2>2
    <3>2. addr - a \in Nat /\ addr - a < l /\ addr = a + (addr - a)
      BY <1>2, <3>1
    <3> QED
      BY <1>2, <2>1, <3>1, <3>2
  <2> QED
    BY <2>1, <2>3 DEF Abstract!Memory, Abstract!Range
<1> QED
  BY <1>4, <1>5 DEF Memories

\* A handler that aborts is one that Peripherals does not serve.
LEMMA RefusedMaps ==
  ASSUME Inv, up, Frame, NEW d \in Controllers, NEW off \in Nat, off < LEN[d],
         NEW addr, addr = mmio[d] + off, NEW len,
         NEW served, served \in {Abstract!Readable, Abstract!Writable},
         off \notin served[d] \/ (d = "serial" /\ off = 16 /\ dev.uart = None),
         fate' = "died", UNCHANGED dev, Ram' = Ram,
         last' = [op |-> "fault", addr |-> addr, len |-> len, val |-> 0]
  PROVE  Abstract!Fault(addr, len, served)
<1>1. d \in Names /\ Controllers \subseteq Names
  BY UpFacts DEF Controllers
<1>2. /\ addr \in Int /\ ~ in_pmem(addr)
      /\ \A e \in Names : \A o \in Nat : o < LEN[e] /\ addr = mmio[e] + o => e = d /\ o = off
  BY <1>1, Located
<1>3. \A e \in DOMAIN served :
        \/ addr \notin {mmio[e] + o : o \in served[e]}
        \/ addr = mmio["serial"] + 16 /\ Registers.uart = None
  <2> SUFFICES ASSUME NEW e \in Controllers, NEW o \in served[e], addr = mmio[e] + o
               PROVE  addr = mmio["serial"] + 16 /\ Registers.uart = None
    BY ServedFacts
  <2>1. o \in Nat /\ o < LEN[e] /\ e \in Names
    BY <1>1, ServedFacts
  <2>2. e = d /\ o = off
    BY <1>2, <2>1
  <2>3. d = "serial" /\ off = 16 /\ dev.uart = None
    BY <2>2
  <2> QED
    BY <2>3 DEF Registers
<1>4. \A m \in DOMAIN Ram : ~ Abstract!Memory(m, addr, len)
  <2>1. DOMAIN Ram = Memories
    BY RamFacts
  <2> QED
    BY <2>1, NoMemory
<1>5. addr \notin MBASE..(MBASE + MSIZE - 1)
  BY <1>2 DEF in_pmem
<1>6. Registers' = Registers
  BY RegistersSame
<1>7. loaded /\ fate = "run"
  BY DEF up
<1> QED
  BY <1>3, <1>4, <1>5, <1>6, <1>7, Zenon DEF Abstract!Fault, Frame

\* A handler that has returned answers as a register does.
LEMMA AnswerMaps ==
  ASSUME Frame, UNCHANGED fate, Ram' = Ram, NEW addr, NEW len, NEW v, NEW R, Registers' = R,
         last' = [op |-> "read", addr |-> addr, len |-> len, val |-> v % Weight(len)]
  PROVE  Abstract!Answer(addr, len, v, R)
<1>1. last' = [op |-> "read", addr |-> addr, len |-> len, val |-> v % Abstract!Weight(len)]
  BY SameWords
<1> QED
  BY <1>1, Zenon DEF Abstract!Answer, Frame

\* Or takes what was written to it.
LEMMA TakeMaps ==
  ASSUME Frame, UNCHANGED fate, Ram' = Ram, NEW addr, NEW len, NEW v, NEW R, Registers' = R,
         last' = [op |-> "write", addr |-> addr, len |-> len, val |-> v]
  PROVE  Abstract!Take(addr, len, v, R)
BY Zenon DEF Abstract!Take, Frame

\* What a handler has put into its space is read from there.
LEMMA PutIsRead ==
  ASSUME Inv, up, NEW d \in Names, NEW o \in Nat, o + 3 <= LEN[d] + 2, NEW v \in Nat,
         NEW len \in Lens, NEW s \in [IOX -> Byte], io_space' = host_write(s, base(d) + o, 4, v)
  PROVE  /\ host_read(io_space', base(d) + o, len) = v % Weight(len)
         /\ \A k \in Nat : k <= LEN[d] + 2 /\ (k < o \/ o + 3 < k) =>
              io_space'[base(d) + k] = s[base(d) + k]
<1>1. base(d) \in Nat /\ LEN[d] \in Nat
  BY UpFacts, SlotFacts
<1>2. \A k \in 0..3 : (base(d) + o) + k \in DOMAIN s
  <2> SUFFICES ASSUME NEW k \in 0..3 PROVE (base(d) + o) + k \in IOX
    OBVIOUS
  <2>1. o + k \in Nat /\ o + k <= LEN[d] + 2 /\ (base(d) + o) + k = base(d) + (o + k)
    BY <1>1
  <2> QED
    BY <2>1, InSpace
<1>3. host_read(io_space', base(d) + o, len) = v % Weight(len)
  BY <1>1, <1>2, ReadWritten
<1>4. ASSUME NEW k \in Nat, k <= LEN[d] + 2, k < o \/ o + 3 < k
      PROVE  io_space'[base(d) + k] = s[base(d) + k]
  <2>1. base(d) + k \in IOX
    BY <1>4, InSpace
  <2>2. base(d) + k \notin (base(d) + o)..((base(d) + o) + 4 - 1)
    BY <1>1, <1>4
  <2> QED
    BY <2>1, <2>2 DEF host_write
<1> QED
  BY <1>3, <1>4

\* A read of the serial port.
LEMMA SerialRead ==
  ASSUME Inv, up, Frame, Ram' = Ram, NEW len \in Lens, NEW off \in Nat, off < 20,
         NEW addr, addr = mmio["serial"] + off,
         serial_io_handler(base("serial"), off, FALSE, io_space),
         Record("read", addr, len, host_read(io_space', base("serial") + off, len))
  PROVE  /\ Abstract!Read(addr, len)
         /\ fate' = "run" => CtrlInv' /\ PadInv' /\ dev'.intr_nr = dev.intr_nr
<1>1. "serial" \in Names /\ dev \in Statics /\ io_space \in [IOX -> Byte]
      /\ LEN["serial"] = 20 /\ "serial" \in Controllers /\ UNCHANGED maps
      /\ CtrlInv /\ PadInv /\ fate = "run" /\ loaded
  BY UpFacts, Lengths DEF Controllers, Frame
<1>2. PICK b \in Nat : b = base("serial")
  BY <1>1, UpFacts, SlotFacts
<1>3. mmio["serial"] \in Int
  BY <1>1, UpFacts, SlotFacts
<1>4. /\ dev.ctrl \in Nat /\ 2 * dev.rx_ready \in Nat /\ dev.ctrl % Weight(4) = dev.ctrl
  <2>1. dev.ctrl \in Word /\ dev.rx_ready \in {0, 1}
    BY <1>1, StaticsTypes
  <2>2. \A x \in {0, 1} : 2 * x \in Nat
    OBVIOUS
  <2>3. Weight(4) \in Nat \ {0}
    BY WeightFacts
  <2>4. PICK c \in Nat, w \in Nat \ {0} : c = dev.ctrl /\ w = Weight(4) /\ c < w
    BY <2>1, <2>3 DEF Word
  <2>5. c % w = c
    BY <2>4, SMT
  <2> QED
    BY <2>1, <2>2, <2>4, <2>5
<1>5. CASE off = 0 /\ Return(host_write(io_space, b, 4, dev.ctrl), dev)
  <2>1. io_space' = host_write(io_space, b, 4, dev.ctrl) /\ UNCHANGED <<dev, fate>>
    BY <1>5 DEF Return
  <2>2. b + 0 = b
    OBVIOUS
  <2>3. /\ \A l \in Lens : host_read(io_space', b, l) = dev.ctrl % Weight(l)
        /\ \A k \in Nat : k <= 22 /\ 3 < k => io_space'[b + k] = io_space[b + k]
    BY <1>1, <1>2, <1>4, <2>1, <2>2, PutIsRead
  <2>4. last' = [op |-> "read", addr |-> addr, len |-> len, val |-> dev.ctrl % Weight(len)]
    BY <1>1, <1>2, <1>5, <2>1, <2>2, <2>3 DEF Record
  <2>5. Registers' = Registers
    BY <1>1, <2>1, RegistersSame
  <2>6. Abstract!Answer(addr, len, Registers.ctrl, Registers)
    BY <2>1, <2>4, <2>5, AnswerMaps DEF Registers
  <2>7. Abstract!ReadRegister(addr, len)
    BY <1>1, <1>5, <2>6 DEF Abstract!ReadRegister, Abstract!At
  <2>8. PadInv'
    BY <1>1, <1>2, <2>3, KeepsPad
  <2>9. CtrlInv'
    <3>1. base("serial")' = b
      BY <1>1, <1>2 DEF base
    <3> QED
      BY <1>4, <2>1, <2>3, <3>1 DEF CtrlInv, Lens
  <2> QED
    BY <2>1, <2>7, <2>8, <2>9 DEF Abstract!Read
<1>6. CASE off = 4 /\ Return(host_write(io_space, b + 4, 4, 2 * dev.rx_ready), dev)
  <2>1. io_space' = host_write(io_space, b + 4, 4, 2 * dev.rx_ready) /\ UNCHANGED <<dev, fate>>
    BY <1>6 DEF Return
  <2>2. /\ host_read(io_space', b + 4, len) = (2 * dev.rx_ready) % Weight(len)
        /\ \A k \in Nat : k <= 22 /\ (k < 4 \/ 7 < k) => io_space'[b + k] = io_space[b + k]
    BY <1>1, <1>2, <1>4, <2>1, PutIsRead
  <2>3. last' = [op |-> "read", addr |-> addr, len |-> len,
                 val |-> (2 * dev.rx_ready) % Weight(len)]
    BY <1>1, <1>2, <1>6, <2>1, <2>2 DEF Record
  <2>4. Registers' = Registers
    BY <1>1, <2>1, RegistersSame
  <2>5. Abstract!Answer(addr, len, 2 * Registers.rx_ready, Registers)
    BY <2>1, <2>3, <2>4, AnswerMaps DEF Registers
  <2>6. Abstract!ReadRegister(addr, len)
    BY <1>1, <1>6, <2>5 DEF Abstract!ReadRegister, Abstract!At
  <2>7. PadInv'
    BY <1>1, <1>2, <2>2, KeepsPad
  <2>8. CtrlInv'
    BY <1>1, <1>2, <2>1, <2>2, KeepsCtrl
  <2> QED
    BY <2>1, <2>6, <2>7, <2>8 DEF Abstract!Read
<1>7. CASE /\ off = 16 /\ dev.uart # None
           /\ Return([io_space EXCEPT ![b + 16] = getc_narrowed],
                     [dev EXCEPT !.uart = Rest(@)])
  <2>1. PICK c : c = getc_narrowed
    OBVIOUS
  <2>2. c \in Byte /\ c \in Nat /\ 0 \in Byte
    <3>1. dev.uart \in Seq(Byte)
      BY <1>1, <1>7, StaticsTypes
    <3>2. dev.uart # <<>> => Head(dev.uart) \in Byte
      BY <3>1
    <3>3. BYTE - 1 \in Byte /\ 0 \in Byte /\ Byte \subseteq Nat
      BY Small
    <3>4. c \in Byte
      BY <2>1, <3>2, <3>3, Zenon DEF getc_narrowed
    <3> QED
      BY <3>3, <3>4
  <2>3. /\ io_space' = [io_space EXCEPT ![b + 16] = c] /\ UNCHANGED fate
        /\ dev' = [dev EXCEPT !.uart = Rest(dev.uart)]
    BY <1>7, <2>1 DEF Return
  <2>4. \A k \in Nat : k <= 22 => b + k \in IOX
    BY <1>1, <1>2, InSpace
  <2>5. \A k \in Nat : k <= 22 /\ k # 16 => io_space'[b + k] = io_space[b + k]
    BY <1>1, <2>3, <2>4
  <2>6. /\ io_space'[b + 16] = c /\ io_space'[(b + 16) + 1] = 0
        /\ io_space'[(b + 16) + 2] = 0 /\ io_space'[(b + 16) + 3] = 0
    <3>1. b + 16 \in IOX
      BY <2>4
    <3>2. io_space'[b + 17] = 0 /\ io_space'[b + 18] = 0 /\ io_space'[b + 19] = 0
      BY <1>1, <1>2, <2>5 DEF PadInv
    <3>3. (b + 16) + 1 = b + 17 /\ (b + 16) + 2 = b + 18 /\ (b + 16) + 3 = b + 19
      OBVIOUS
    <3> QED
      BY <1>1, <2>3, <3>1, <3>2, <3>3
  <2>7. host_read(io_space', b + 16, len) = c
    <3>1. /\ Weight(1) \in Nat /\ Weight(2) \in Nat /\ Weight(3) \in Nat
      BY WeightFacts
    <3>2. 0 * Weight(1) = 0 /\ 0 * Weight(2) = 0 /\ 0 * Weight(3) = 0
      BY <3>1
    <3>3. /\ host_read(io_space', b + 16, 1) = c
          /\ host_read(io_space', b + 16, 2) = c + 0
          /\ host_read(io_space', b + 16, 4) = c + 0 + 0 + 0
      BY <2>2, <2>6, <3>2, ReadSums
    <3> QED
      BY <2>2, <3>3 DEF Lens
  <2>8. c % Weight(len) = c
    <3>1. \A k \in 0..3 : io_space'[(b + 16) + k] \in Byte
      <4>1. (b + 16) + 0 = b + 16
        OBVIOUS
      <4> QED
        BY <2>2, <2>6, <4>1
    <3>2. \A k \in 0..(len - 1) : k \in 0..3
      BY DEF Lens
    <3>3. b + 16 \in Int
      OBVIOUS
    <3>4. host_read(io_space', b + 16, len) % Weight(len) = host_read(io_space', b + 16, len)
      BY <3>1, <3>2, <3>3, ReadBounds
    <3> QED
      BY <2>7, <3>4
  <2>9. last' = [op |-> "read", addr |-> addr, len |-> len, val |-> c % Weight(len)]
    BY <1>1, <1>2, <1>7, <2>3, <2>7, <2>8 DEF Record
  <2>10. Registers' = [Registers EXCEPT !.uart = Rest(dev.uart)]
    <3>1. PICK r : r = Rest(dev.uart)
      OBVIOUS
    <3>2. dev' = [dev EXCEPT !.uart = r]
      BY <2>3, <3>1
    <3>3. Registers' = [Registers EXCEPT !.uart = r]
      BY <1>1, <3>2, UartUpdated
    <3> QED
      BY <3>1, <3>3
  <2>11. Rest(dev.uart) = Abstract!Tail4(Registers.uart)
    BY DEF Rest, Abstract!Tail4, Registers
  <2>12. Abstract!Answer(addr, len,
           IF Registers.uart = <<>> THEN BYTE - 1 ELSE Head(Registers.uart),
           [Registers EXCEPT !.uart = Abstract!Tail4(@)])
    <3>1. c = IF Registers.uart = <<>> THEN BYTE - 1 ELSE Head(Registers.uart)
      BY <2>1 DEF getc_narrowed, Registers
    <3>2. Registers' = [Registers EXCEPT !.uart = Abstract!Tail4(@)]
      BY <2>10, <2>11
    <3>3. \A R : Registers' = R => Abstract!Answer(addr, len, c, R)
      BY <2>3, <2>9, AnswerMaps
    <3> QED
      BY <3>1, <3>2, <3>3, Zenon
  <2>13. Registers.uart # None
    BY <1>7 DEF Registers
  <2>14. Abstract!ReadRegister(addr, len)
    BY <1>1, <1>7, <2>12, <2>13 DEF Abstract!ReadRegister, Abstract!At
  <2>15. PadInv'
    BY <1>1, <1>2, <2>5, KeepsPad
  <2>16. dev'.ctrl = dev.ctrl /\ dev'.intr_nr = dev.intr_nr
    <3>1. PICK r : r = Rest(dev.uart)
      OBVIOUS
    <3>2. dev' = [dev EXCEPT !.uart = r]
      BY <2>3, <3>1
    <3> QED
      BY <1>1, <3>2, UartUpdated
  <2>17. CtrlInv'
    BY <1>1, <1>2, <2>5, <2>16, KeepsCtrl
  <2> QED
    BY <2>14, <2>15, <2>16, <2>17 DEF Abstract!Read
<1>8. CASE /\ off \notin {0, 4, 16} \/ (off = 16 /\ dev.uart = None)
           /\ Abort(io_space)
  <2>1. fate' = "died" /\ UNCHANGED dev
    BY <1>8 DEF Abort
  <2>2. last' = [op |-> "fault", addr |-> addr, len |-> len, val |-> 0]
    BY <2>1 DEF Record
  <2>3. Abstract!Readable["serial"] = {0, 4, 16}
    BY DEF Abstract!Readable
  <2>4. Abstract!Fault(addr, len, Abstract!Readable)
    BY <1>1, <1>8, <2>1, <2>2, <2>3, RefusedMaps
  <2> QED
    BY <2>1, <2>4 DEF Abstract!Read
<1> QED
  BY <1>2, <1>5, <1>6, <1>7, <1>8
  DEF serial_io_handler, TX_OFFSET, RX_OFFSET, STATUS_OFFSET

\* A handler that puts a word into its space answers with that word.
LEMMA PutAnswers ==
  ASSUME Inv, up, Frame, Ram' = Ram, UNCHANGED fate, NEW d \in Names,
         NEW o \in Nat, o + 3 <= LEN[d] + 2, NEW v \in Nat, NEW len \in Lens,
         io_space' = host_write(io_space, base(d) + o, 4, v),
         NEW R, Registers' = R, NEW addr,
         Record("read", addr, len, host_read(io_space', base(d) + o, len))
  PROVE  /\ Abstract!Answer(addr, len, v, R)
         /\ \A k \in Nat : k <= LEN[d] + 2 /\ (k < o \/ o + 3 < k) =>
              io_space'[base(d) + k] = io_space[base(d) + k]
<1>1. io_space \in [IOX -> Byte] /\ fate = "run"
  BY UpFacts
<1>2. /\ host_read(io_space', base(d) + o, len) = v % Weight(len)
      /\ \A k \in Nat : k <= LEN[d] + 2 /\ (k < o \/ o + 3 < k) =>
              io_space'[base(d) + k] = io_space[base(d) + k]
  BY <1>1, PutIsRead
<1>3. last' = [op |-> "read", addr |-> addr, len |-> len, val |-> v % Weight(len)]
  BY <1>1, <1>2 DEF Record
<1> QED
  BY <1>2, <1>3, AnswerMaps

\* A read of the timer.
LEMMA RtcRead ==
  ASSUME Inv, up, Frame, Ram' = Ram, NEW len \in Lens, NEW off \in Nat, off < 12,
         NEW addr, addr = mmio["rtc"] + off,
         rtc_io_handler(base("rtc"), off, FALSE, io_space),
         Record("read", addr, len, host_read(io_space', base("rtc") + off, len))
  PROVE  /\ Abstract!Read(addr, len)
         /\ fate' = "run" => IntrInv' /\ dev'.ctrl = dev.ctrl
<1>1. "rtc" \in Names /\ dev \in Statics /\ io_space \in [IOX -> Byte]
      /\ LEN["rtc"] = 12 /\ "rtc" \in Controllers /\ UNCHANGED maps
      /\ IntrInv /\ fate = "run" /\ loaded
  BY UpFacts, Lengths DEF Controllers, Frame
<1>2. PICK b \in Nat : b = base("rtc")
  BY <1>1, UpFacts, SlotFacts
<1>3. b + 0 = b
  OBVIOUS
<1>4. clock \in Nat /\ SECOND \in Nat \ {0} /\ Weight(4) \in Nat \ {0}
  BY UpFacts, WeightFacts, DevicesAssumption DEF TypeInv, DevicesAssumption
<1>5. dev.intr_nr \in Nat /\ dev.intr_nr \in Word
  BY <1>1, StaticsTypes, Small
<1>6. ASSUME NEW o \in Nat, o + 3 <= 14, NEW v \in Nat, off = o, UNCHANGED fate,
             io_space' = host_write(io_space, b + o, 4, v), Registers' = Registers
      PROVE  /\ Abstract!Answer(addr, len, v, Registers)
             /\ \A k \in Nat : k <= 14 /\ (k < o \/ o + 3 < k) =>
                  io_space'[b + k] = io_space[b + k]
  <2>1. o + 3 <= LEN["rtc"] + 2 /\ LEN["rtc"] + 2 = 14
    BY <1>1, <1>6
  <2>2. PICK R : R = Registers
    OBVIOUS
  <2>3. io_space' = host_write(io_space, base("rtc") + o, 4, v)
        /\ Record("read", addr, len, host_read(io_space', base("rtc") + o, len))
    BY <1>2, <1>6
  <2>4. /\ Abstract!Answer(addr, len, v, R)
        /\ \A k \in Nat : k <= LEN["rtc"] + 2 /\ (k < o \/ o + 3 < k) =>
                  io_space'[base("rtc") + k] = io_space[base("rtc") + k]
    <3>1. Registers' = R
      BY <1>6, <2>2
    <3> QED
      BY <1>1, <1>6, <2>1, <2>3, <3>1, PutAnswers
  <2> QED
    BY <1>2, <2>1, <2>2, <2>4
<1>7. CASE /\ off = 0
           /\ LET now == (clock \div SECOND) % Weight(4)
              IN  Return(host_write(io_space, b, 4, now), [dev EXCEPT !.timer_rtc = now])
  <2>1. PICK v : v = (clock \div SECOND) % Weight(4)
    OBVIOUS
  <2>2. v \in Nat
    <3>1. clock \div SECOND \in Nat
      BY <1>4, DivMod
    <3> QED
      BY <1>4, <2>1, <3>1, DivMod
  <2>3. /\ io_space' = host_write(io_space, b + 0, 4, v) /\ UNCHANGED fate
        /\ dev' = [dev EXCEPT !.timer_rtc = v]
    BY <1>3, <1>7, <2>1 DEF Return
  <2>4. Registers' = Registers /\ dev'.ctrl = dev.ctrl /\ dev'.intr_nr = dev.intr_nr
    BY <1>1, <2>3, ClockUpdated
  <2>5. /\ Abstract!Answer(addr, len, v, Registers)
        /\ \A k \in Nat : k <= 14 /\ 3 < k => io_space'[b + k] = io_space[b + k]
    <3>1. 0 \in Nat /\ 0 + 3 <= 14 /\ \A k : 0 + 3 < k <=> 3 < k
      OBVIOUS
    <3>2. /\ Abstract!Answer(addr, len, v, Registers)
          /\ \A k \in Nat : k <= 14 /\ (k < 0 \/ 0 + 3 < k) => io_space'[b + k] = io_space[b + k]
      BY <1>6, <1>7, <2>2, <2>3, <2>4, <3>1
    <3> QED
      BY <3>1, <3>2
  <2>6. Abstract!ReadRegister(addr, len)
    <3>1. v = Abstract!Wrap(clock \div SECOND)
      BY <2>1, SameWords DEF Abstract!Wrap
    <3>2. Abstract!Answer(addr, len, Abstract!Wrap(clock \div SECOND), Registers)
      BY <2>5, <3>1
    <3>3. Abstract!At("rtc", 0, addr)
      BY <1>1, <1>7 DEF Abstract!At
    <3> QED
      BY <3>2, <3>3 DEF Abstract!ReadRegister
  <2>7. IntrInv'
    BY <1>1, <1>2, <2>4, <2>5, KeepsIntr
  <2> QED
    BY <2>4, <2>6, <2>7 DEF Abstract!Read
<1>8. CASE off = 4 /\ Return(host_write(io_space, b + 4, 4, clock % Weight(4)), dev)
  <2>1. PICK v : v = clock % Weight(4)
    OBVIOUS
  <2>2. v \in Nat
    BY <1>4, <2>1, DivMod
  <2>3. io_space' = host_write(io_space, b + 4, 4, v) /\ UNCHANGED <<fate, dev>>
    BY <1>8, <2>1 DEF Return
  <2>4. Registers' = Registers
    BY <1>1, <2>3, RegistersSame
  <2>5. /\ Abstract!Answer(addr, len, v, Registers)
        /\ \A k \in Nat : k <= 14 /\ (k < 4 \/ 7 < k) => io_space'[b + k] = io_space[b + k]
    <3>1. 4 \in Nat /\ 4 + 3 <= 14 /\ 4 + 3 = 7
      OBVIOUS
    <3> QED
      BY <1>6, <1>8, <2>2, <2>3, <2>4, <3>1
  <2>6. Abstract!ReadRegister(addr, len)
    <3>1. v = Abstract!Wrap(clock)
      BY <2>1, SameWords DEF Abstract!Wrap
    <3>2. Abstract!Answer(addr, len, Abstract!Wrap(clock), Registers)
      BY <2>5, <3>1
    <3>3. Abstract!At("rtc", 4, addr)
      BY <1>1, <1>8 DEF Abstract!At
    <3> QED
      BY <3>2, <3>3 DEF Abstract!ReadRegister
  <2>7. IntrInv'
    BY <1>1, <1>2, <2>3, <2>5, KeepsIntr
  <2> QED
    BY <2>3, <2>6, <2>7 DEF Abstract!Read
<1>9. CASE off = 8 /\ Return(host_write(io_space, b + 8, 4, dev.intr_nr), dev)
  <2>1. io_space' = host_write(io_space, b + 8, 4, dev.intr_nr) /\ UNCHANGED <<fate, dev>>
    BY <1>9 DEF Return
  <2>2. Registers' = Registers /\ Registers.intr_nr = dev.intr_nr
    BY <1>1, <2>1, RegistersSame DEF Registers
  <2>3. Abstract!Answer(addr, len, dev.intr_nr, Registers)
    <3>1. 8 \in Nat /\ 8 + 3 <= 14
      OBVIOUS
    <3> QED
      BY <1>5, <1>6, <1>9, <2>1, <2>2, <3>1
  <2>4. Abstract!ReadRegister(addr, len)
    <3>1. Abstract!At("rtc", 8, addr)
      BY <1>1, <1>9 DEF Abstract!At
    <3>2. Abstract!Answer(addr, len, Registers.intr_nr, Registers)
      BY <2>2, <2>3
    <3> QED
      BY <3>1, <3>2 DEF Abstract!ReadRegister
  <2>5. IntrInv'
    <3>1. 8 \in Nat /\ 8 + 3 <= LEN["rtc"] + 2 /\ 4 \in Lens
      BY <1>1 DEF Lens
    <3>2. host_read(io_space', base("rtc") + 8, 4) = dev.intr_nr % Weight(4)
      BY <1>1, <1>2, <1>5, <2>1, <3>1, PutIsRead
    <3>3. dev.intr_nr % Weight(4) = dev.intr_nr
      <4>1. PICK c \in Nat, w \in Nat \ {0} : c = dev.intr_nr /\ w = Weight(4) /\ c < w
        BY <1>4, <1>5 DEF Word
      <4>2. c % w = c
        BY <4>1, SMT
      <4> QED
        BY <4>1, <4>2
    <3>4. base("rtc")' = base("rtc")
      BY <1>1 DEF base
    <3> QED
      BY <2>1, <3>2, <3>3, <3>4 DEF IntrInv
  <2> QED
    BY <2>1, <2>4, <2>5 DEF Abstract!Read
<1>10. CASE off \notin {0, 4, 8} /\ Abort(io_space)
  <2>1. fate' = "died" /\ UNCHANGED dev
    BY <1>10 DEF Abort
  <2>2. last' = [op |-> "fault", addr |-> addr, len |-> len, val |-> 0]
    BY <2>1 DEF Record
  <2>3. Abstract!Readable["rtc"] = {0, 4, 8}
    BY DEF Abstract!Readable
  <2>4. Abstract!Fault(addr, len, Abstract!Readable)
    BY <1>1, <1>10, <2>1, <2>2, <2>3, RefusedMaps
  <2> QED
    BY <2>1, <2>4 DEF Abstract!Read
<1> QED
  BY <1>2, <1>7, <1>8, <1>9, <1>10
  DEF rtc_io_handler, RTC_OFFSET, UPTIME_OFFSET, INTR_OFFSET

\* A read of the keyboard.
LEMMA KeyboardRead ==
  ASSUME Inv, up, Frame, Ram' = Ram, NEW len \in Lens, NEW off \in Nat, off < 16,
         NEW addr, addr = mmio["keyboard"] + off,
         i8042_data_io_handler(base("keyboard"), off, FALSE, io_space),
         Record("read", addr, len, host_read(io_space', base("keyboard") + off, len))
  PROVE  /\ Abstract!Read(addr, len)
         /\ fate' = "run" => dev'.ctrl = dev.ctrl /\ dev'.intr_nr = dev.intr_nr
<1>1. "keyboard" \in Names /\ dev \in Statics /\ "keyboard" \in Controllers
      /\ LEN["keyboard"] = 16 /\ fate = "run" /\ loaded
  BY UpFacts, Lengths DEF Controllers
<1>2. CASE /\ off = 4
           /\ Return(host_write(io_space, base("keyboard") + 4, 4,
                                IF dev.keys = <<>> THEN 0 ELSE Head(dev.keys)),
                     [dev EXCEPT !.keys = Rest(@)])
  <2>1. PICK v, r : v = (IF dev.keys = <<>> THEN 0 ELSE Head(dev.keys)) /\ r = Rest(dev.keys)
    OBVIOUS
  <2>2. v \in Nat
    <3>1. dev.keys \in Seq(KeyCodes) /\ KeyCodes \subseteq Nat
      BY <1>1, StaticsTypes, DevicesAssumption DEF DevicesAssumption
    <3> QED
      BY <2>1, <3>1
  <2>3. /\ io_space' = host_write(io_space, base("keyboard") + 4, 4, v) /\ UNCHANGED fate
        /\ dev' = [dev EXCEPT !.keys = r]
    BY <1>2, <2>1 DEF Return
  <2>4. /\ Registers' = [Registers EXCEPT !.keys = r]
        /\ dev'.ctrl = dev.ctrl /\ dev'.intr_nr = dev.intr_nr
    BY <1>1, <2>3, KeysUpdated
  <2>5. r = Abstract!Tail4(Registers.keys) /\ Registers.keys = dev.keys
    BY <2>1 DEF Rest, Abstract!Tail4, Registers
  <2>6. Registers' = [Registers EXCEPT !.keys = Abstract!Tail4(@)]
    BY <2>4, <2>5
  <2>7. Abstract!Answer(addr, len, v, [Registers EXCEPT !.keys = Abstract!Tail4(@)])
    <3>1. PICK R : R = [Registers EXCEPT !.keys = Abstract!Tail4(@)]
      OBVIOUS
    <3>2. 4 \in Nat /\ 4 + 3 <= LEN["keyboard"] + 2
      BY <1>1
    <3>3. Registers' = R
      BY <2>6, <3>1
    <3>4. Record("read", addr, len, host_read(io_space', base("keyboard") + 4, len))
      BY <1>2
    <3>5. Abstract!Answer(addr, len, v, R)
      BY <1>1, <2>2, <2>3, <3>2, <3>3, <3>4, PutAnswers
    <3> QED
      BY <3>1, <3>5
  <2>8. Abstract!ReadRegister(addr, len)
    <3>1. Abstract!At("keyboard", 4, addr)
      BY <1>1, <1>2 DEF Abstract!At
    <3>2. Abstract!Answer(addr, len,
            IF Registers.keys = <<>> THEN 0 ELSE Head(Registers.keys),
            [Registers EXCEPT !.keys = Abstract!Tail4(@)])
      BY <2>1, <2>5, <2>7
    <3> QED
      BY <3>1, <3>2 DEF Abstract!ReadRegister
  <2> QED
    BY <2>4, <2>8 DEF Abstract!Read
<1>3. CASE off # 4 /\ Abort(io_space)
  <2>1. fate' = "died" /\ UNCHANGED dev
    BY <1>3 DEF Abort
  <2>2. last' = [op |-> "fault", addr |-> addr, len |-> len, val |-> 0]
    BY <2>1 DEF Record
  <2>3. Abstract!Readable["keyboard"] = {4}
    BY DEF Abstract!Readable
  <2>4. Abstract!Fault(addr, len, Abstract!Readable)
    BY <1>1, <1>3, <2>1, <2>2, <2>3, RefusedMaps
  <2> QED
    BY <2>1, <2>4 DEF Abstract!Read
<1> QED
  BY <1>2, <1>3 DEF i8042_data_io_handler

\* A multiple of 4 says nothing of bit 1.
LEMMA BitOne ==
  ASSUME NEW p \in Nat, NEW r \in Nat
  PROVE  ((4 * p + r) \div 2) % 2 = (r \div 2) % 2
BY SMT

\* Bit 1 of a merged word is bit 1 of what was written.
LEMMA MergedBit ==
  ASSUME NEW len \in Lens, NEW old \in Nat, NEW data \in Nat
  PROVE  (((old \div Weight(len)) * Weight(len) + (data % Weight(len))) \div 2) % 2
           = (data \div 2) % 2
<1>1. PICK q \in Nat \ {0} : BYTE = 4 * q
  <2>1. BYTE \in Nat /\ BYTE > 1 /\ BYTE % 4 = 0
    BY WeightFacts, DevicesAssumption DEF DevicesAssumption
  <2>2. PICK c \in Nat : c = BYTE /\ c > 1 /\ c % 4 = 0
    BY <2>1
  <2>3. c \div 4 \in Nat \ {0} /\ c = 4 * (c \div 4)
    BY <2>2, SMT
  <2> QED
    BY <2>2, <2>3
<1>2. PICK w \in Nat \ {0}, f \in Nat : w = Weight(len) /\ w = 4 * f
  <2>1. /\ Weight(1) = BYTE /\ Weight(2) = Weight(1) * BYTE /\ Weight(3) = Weight(2) * BYTE
        /\ Weight(4) = Weight(3) * BYTE
        /\ Weight(1) \in Nat /\ Weight(3) \in Nat /\ Weight(len) \in Nat \ {0}
    BY WeightFacts DEF Lens
  <2>2. \A x \in Nat : x * (4 * q) = 4 * (x * q) /\ x * q \in Nat
    OBVIOUS
  <2>3. /\ Weight(1) = 4 * q
        /\ Weight(2) = 4 * (Weight(1) * q) /\ Weight(1) * q \in Nat
        /\ Weight(4) = 4 * (Weight(3) * q) /\ Weight(3) * q \in Nat
    BY <1>1, <2>1, <2>2
  <2>4. \E f \in Nat : Weight(len) = 4 * f
    BY <2>3 DEF Lens
  <2> QED
    BY <2>1, <2>4
<1>3. PICK a \in Nat, k \in Nat, r \in Nat :
        /\ a = old \div w /\ k = data \div w /\ r = data % w /\ data = w * k + r
  <2>1. old \div w \in Nat /\ data \div w \in Nat /\ data % w \in Nat
    BY <1>2, DivMod
  <2>2. data = w * (data \div w) + (data % w)
    BY <1>2, DivMod
  <2> QED
    BY <2>1, <2>2, Zenon
<1>4. a * w = 4 * (a * f) /\ w * k = 4 * (f * k) /\ a * f \in Nat /\ f * k \in Nat
  BY <1>2
<1>5. ((4 * (a * f) + r) \div 2) % 2 = (r \div 2) % 2
  BY <1>4, BitOne
<1>6. ((4 * (f * k) + r) \div 2) % 2 = (r \div 2) % 2
  BY <1>4, BitOne
<1>7. ((a * w + r) \div 2) % 2 = (data \div 2) % 2
  BY <1>3, <1>4, <1>5, <1>6
<1> QED
  BY <1>2, <1>3, <1>7

\* What a guest has written into a range, before the handler sees it.
LEMMA WrittenSpace ==
  ASSUME Inv, up, NEW d \in Names, NEW off \in Nat, off < LEN[d],
         NEW len \in Lens, NEW data \in Nat,
         NEW t, t = host_write(io_space, base(d) + off, len, data)
  PROVE  /\ t \in [IOX -> Byte]
         /\ host_read(t, base(d) + off, 4)
              = (host_read(io_space, base(d) + off, 4) \div Weight(len)) * Weight(len)
                + (data % Weight(len))
         /\ \A k \in Nat : k <= LEN[d] + 2 /\ (k < off \/ off + 3 < k) =>
              t[base(d) + k] = io_space[base(d) + k]
         /\ t[base(d) + off] = data % BYTE
<1>1. /\ base(d) \in Nat /\ LEN[d] \in Nat /\ io_space \in [IOX -> Byte] /\ IOX \in SUBSET Int
  BY UpFacts, SlotFacts
<1>2. \A k \in Nat : k <= LEN[d] + 2 => base(d) + k \in IOX /\ io_space[base(d) + k] \in Byte
  BY InSpace
<1>3. t \in [IOX -> Byte]
  BY <1>1, WriteIsBytes
<1>4. \A k \in 0..3 : (base(d) + off) + k \in DOMAIN io_space
                      /\ io_space[(base(d) + off) + k] \in Byte
  <2> SUFFICES ASSUME NEW k \in 0..3
               PROVE  (base(d) + off) + k \in IOX /\ io_space[(base(d) + off) + k] \in Byte
    BY <1>1
  <2>1. off + k \in Nat /\ off + k <= LEN[d] + 2 /\ (base(d) + off) + k = base(d) + (off + k)
    BY <1>1
  <2> QED
    BY <1>2, <2>1
<1>5. base(d) + off \in Int
  BY <1>1
<1>6. host_read(t, base(d) + off, 4)
        = (host_read(io_space, base(d) + off, 4) \div Weight(len)) * Weight(len)
          + (data % Weight(len))
  BY <1>4, <1>5, WrittenMerges
<1>7. ASSUME NEW k \in Nat, k <= LEN[d] + 2, k < off \/ off + 3 < k
      PROVE  t[base(d) + k] = io_space[base(d) + k]
  <2>1. base(d) + k \in DOMAIN io_space
    BY <1>1, <1>2, <1>7
  <2>2. base(d) + k \notin (base(d) + off)..((base(d) + off) + len - 1)
    BY <1>1, <1>7 DEF Lens
  <2> QED
    BY <2>1, <2>2 DEF host_write
<1>8. t[base(d) + off] = data % BYTE
  <2>1. base(d) + off \in DOMAIN io_space
    BY <1>1, <1>2
  <2>2. base(d) + off \in (base(d) + off)..((base(d) + off) + len - 1)
    BY <1>1 DEF Lens
  <2>3. (base(d) + off) - (base(d) + off) = 0 /\ Weight(0) = 1 /\ data \div 1 = data
    BY <1>5, WeightFacts
  <2> QED
    BY <2>1, <2>2, <2>3 DEF host_write
<1> QED
  BY <1>3, <1>6, <1>7, <1>8

\* A write to the serial port.
LEMMA SerialWrite ==
  ASSUME Inv, up, Frame, Ram' = Ram, NEW len \in Lens, NEW data \in Nat,
         NEW off \in Nat, off < 20, NEW addr, addr = mmio["serial"] + off,
         serial_io_handler(base("serial"), off, TRUE,
                           host_write(io_space, base("serial") + off, len, data)),
         Record("write", addr, len, data)
  PROVE  /\ Abstract!Write(addr, len, data)
         /\ fate' = "run" => CtrlInv' /\ PadInv' /\ dev'.intr_nr = dev.intr_nr
<1>1. "serial" \in Names /\ dev \in Statics /\ LEN["serial"] = 20
      /\ "serial" \in Controllers /\ UNCHANGED maps
      /\ CtrlInv /\ PadInv /\ fate = "run" /\ loaded
  BY UpFacts, Lengths DEF Controllers, Frame
<1>2. PICK b \in Nat : b = base("serial")
  BY <1>1, UpFacts, SlotFacts
<1>3. PICK t : t = host_write(io_space, b + off, len, data)
  OBVIOUS
<1>4. /\ t \in [IOX -> Byte]
      /\ host_read(t, b + off, 4)
              = (host_read(io_space, b + off, 4) \div Weight(len)) * Weight(len)
                + (data % Weight(len))
      /\ \A k \in Nat : k <= 22 /\ (k < off \/ off + 3 < k) => t[b + k] = io_space[b + k]
      /\ t[b + off] = data % BYTE
  <2>1. off < LEN["serial"] /\ LEN["serial"] + 2 = 22
    BY <1>1
  <2> QED
    BY <1>1, <1>2, <1>3, <2>1, WrittenSpace
<1>5. serial_io_handler(b, off, TRUE, t)
  BY <1>2, <1>3
<1>6. b + 0 = b
  OBVIOUS
<1>7. base("serial")' = b
  BY <1>1, <1>2 DEF base
<1>8. ASSUME UNCHANGED fate, NEW R, Registers' = R
      PROVE  Abstract!Take(addr, len, data, R)
  <2>1. last' = [op |-> "write", addr |-> addr, len |-> len, val |-> data]
    BY <1>1, <1>8 DEF Record
  <2> QED
    BY <1>8, <2>1, TakeMaps
<1>9. CASE off = 12 /\ Return(t, [dev EXCEPT !.tx = Append(@, t[b + 12])])
  <2>1. PICK x : x = Append(dev.tx, data % BYTE)
    OBVIOUS
  <2>2. io_space' = t /\ UNCHANGED fate /\ dev' = [dev EXCEPT !.tx = x]
    BY <1>4, <1>9, <2>1 DEF Return
  <2>3. /\ Registers' = [Registers EXCEPT !.tx = x]
        /\ dev'.ctrl = dev.ctrl /\ dev'.intr_nr = dev.intr_nr
    BY <1>1, <2>2, TxUpdated
  <2>4. Registers' = [Registers EXCEPT !.tx = Append(@, data % BYTE)]
    BY <2>1, <2>3 DEF Registers
  <2>5. Abstract!Take(addr, len, data, [Registers EXCEPT !.tx = Append(@, data % BYTE)])
    BY <1>8, <2>2, <2>4
  <2>6. Abstract!WriteRegister(addr, len, data)
    <3>1. Abstract!At("serial", 12, addr)
      BY <1>1, <1>9 DEF Abstract!At
    <3> QED
      BY <2>5, <3>1 DEF Abstract!WriteRegister
  <2>7. \A k \in Nat : k <= 3 \/ (17 <= k /\ k <= 19) => io_space'[b + k] = io_space[b + k]
    BY <1>4, <1>9, <2>2
  <2>8. CtrlInv' /\ PadInv'
    BY <1>1, <1>2, <2>3, <2>7, KeepsCtrl, KeepsPad
  <2> QED
    BY <2>3, <2>6, <2>8 DEF Abstract!Write
<1>10. CASE off = 0 /\ Return(t, [dev EXCEPT !.ctrl = host_read(t, b, 4)])
  <2>1. PICK x : x = host_read(t, b, 4)
    OBVIOUS
  <2>2. io_space' = t /\ UNCHANGED fate /\ dev' = [dev EXCEPT !.ctrl = x]
    BY <1>10, <2>1 DEF Return
  <2>3. /\ Registers' = [Registers EXCEPT !.ctrl = x] /\ Registers.ctrl = dev.ctrl
        /\ dev'.ctrl = x /\ dev'.intr_nr = dev.intr_nr
    BY <1>1, <2>2, CtrlUpdated DEF Registers
  <2>4. x = Abstract!Merge(dev.ctrl, len, data)
    <3>1. host_read(io_space, b, 4) = dev.ctrl
      BY <1>1, <1>2 DEF CtrlInv
    <3>2. x = (dev.ctrl \div Weight(len)) * Weight(len) + (data % Weight(len))
      BY <1>4, <1>6, <1>10, <2>1, <3>1
    <3> QED
      BY <3>2, SameWords DEF Abstract!Merge
  <2>5. Registers' = [Registers EXCEPT !.ctrl = Abstract!Merge(@, len, data)]
    BY <2>3, <2>4
  <2>6. Abstract!Take(addr, len, data, [Registers EXCEPT !.ctrl = Abstract!Merge(@, len, data)])
    <3>1. PICK R : R = [Registers EXCEPT !.ctrl = Abstract!Merge(@, len, data)]
      OBVIOUS
    <3>2. Abstract!Take(addr, len, data, R)
      BY <1>8, <2>2, <2>5, <3>1
    <3> QED
      BY <3>1, <3>2
  <2>7. Abstract!WriteRegister(addr, len, data)
    <3>1. Abstract!At("serial", 0, addr)
      BY <1>1, <1>10 DEF Abstract!At
    <3> QED
      BY <2>6, <3>1 DEF Abstract!WriteRegister
  <2>8. CtrlInv'
    BY <1>7, <2>1, <2>2, <2>3 DEF CtrlInv
  <2>9. \A k \in Nat : 17 <= k /\ k <= 19 => io_space'[b + k] = io_space[b + k]
    BY <1>4, <1>10, <2>2
  <2>10. PadInv'
    BY <1>1, <1>2, <2>9, KeepsPad
  <2> QED
    BY <2>3, <2>7, <2>8, <2>10 DEF Abstract!Write
<1>11. CASE off = 4 /\ Return(t, [dev EXCEPT !.rx_ready = (host_read(t, b + 4, 4) \div 2) % 2])
  <2>1. PICK x : x = (data \div 2) % 2
    OBVIOUS
  <2>2. (host_read(t, b + 4, 4) \div 2) % 2 = x
    <3>1. host_read(io_space, b + 4, 4) \in Nat
      <4>1. \A k \in 0..3 : io_space[(b + 4) + k] \in Byte
        <5> SUFFICES ASSUME NEW k \in 0..3 PROVE io_space[(b + 4) + k] \in Byte
          OBVIOUS
        <5>1. 4 + k \in Nat /\ 4 + k <= LEN["serial"] + 2 /\ (b + 4) + k = b + (4 + k)
          BY <1>1
        <5> QED
          BY <1>1, <1>2, <5>1, InSpace
      <4>2. Weight(4) \in Nat /\ b + 4 \in Int /\ 4 \in Lens
        BY WeightFacts DEF Lens
      <4>3. \A k \in 0..(4 - 1) : io_space[(b + 4) + k] \in Byte
        BY <4>1
      <4> QED
        BY <4>2, <4>3, ReadBounds
    <3> QED
      BY <1>4, <1>11, <2>1, <3>1, MergedBit
  <2>3. io_space' = t /\ UNCHANGED fate /\ dev' = [dev EXCEPT !.rx_ready = x]
    BY <1>11, <2>2 DEF Return
  <2>4. /\ Registers' = [Registers EXCEPT !.rx_ready = x]
        /\ dev'.ctrl = dev.ctrl /\ dev'.intr_nr = dev.intr_nr
    BY <1>1, <2>3, ReadyUpdated
  <2>5. Abstract!Take(addr, len, data, [Registers EXCEPT !.rx_ready = (data \div 2) % 2])
    BY <1>8, <2>1, <2>3, <2>4
  <2>6. Abstract!WriteRegister(addr, len, data)
    <3>1. Abstract!At("serial", 4, addr)
      BY <1>1, <1>11 DEF Abstract!At
    <3> QED
      BY <2>5, <3>1 DEF Abstract!WriteRegister
  <2>7. \A k \in Nat : k <= 3 \/ (17 <= k /\ k <= 19) => io_space'[b + k] = io_space[b + k]
    BY <1>4, <1>11, <2>3
  <2>8. CtrlInv' /\ PadInv'
    BY <1>1, <1>2, <2>4, <2>7, KeepsCtrl, KeepsPad
  <2> QED
    BY <2>4, <2>6, <2>8 DEF Abstract!Write
<1>12. CASE off \notin {0, 4, 12} /\ Abort(t)
  <2>1. fate' = "died" /\ UNCHANGED dev
    BY <1>12 DEF Abort
  <2>2. last' = [op |-> "fault", addr |-> addr, len |-> len, val |-> 0]
    BY <2>1 DEF Record
  <2>3. Abstract!Writable["serial"] = {0, 4, 12}
    BY DEF Abstract!Writable
  <2>4. Abstract!Fault(addr, len, Abstract!Writable)
    BY <1>1, <1>12, <2>1, <2>2, <2>3, RefusedMaps
  <2> QED
    BY <2>1, <2>4 DEF Abstract!Write
<1> QED
  BY <1>5, <1>9, <1>10, <1>11, <1>12
  DEF serial_io_handler, TX_OFFSET, RX_OFFSET, STATUS_OFFSET

\* A write to the timer.
LEMMA RtcWrite ==
  ASSUME Inv, up, Frame, Ram' = Ram, NEW len \in Lens, NEW data \in Nat,
         NEW off \in Nat, off < 12, NEW addr, addr = mmio["rtc"] + off,
         rtc_io_handler(base("rtc"), off, TRUE,
                        host_write(io_space, base("rtc") + off, len, data)),
         Record("write", addr, len, data)
  PROVE  /\ Abstract!Write(addr, len, data)
         /\ fate' = "run" => IntrInv' /\ dev'.ctrl = dev.ctrl
<1>1. "rtc" \in Names /\ dev \in Statics /\ LEN["rtc"] = 12
      /\ "rtc" \in Controllers /\ UNCHANGED maps
      /\ IntrInv /\ fate = "run" /\ loaded
  BY UpFacts, Lengths DEF Controllers, Frame
<1>2. PICK b \in Nat : b = base("rtc")
  BY <1>1, UpFacts, SlotFacts
<1>3. PICK t : t = host_write(io_space, b + off, len, data)
  OBVIOUS
<1>4. /\ host_read(t, b + off, 4)
              = (host_read(io_space, b + off, 4) \div Weight(len)) * Weight(len)
                + (data % Weight(len))
      /\ \A k \in Nat : k <= 14 /\ (k < off \/ off + 3 < k) => t[b + k] = io_space[b + k]
  <2>1. off < LEN["rtc"] /\ LEN["rtc"] + 2 = 14
    BY <1>1
  <2> QED
    BY <1>1, <1>2, <1>3, <2>1, WrittenSpace
<1>5. rtc_io_handler(b, off, TRUE, t)
  BY <1>2, <1>3
<1>6. base("rtc")' = b
  BY <1>1, <1>2 DEF base
<1>7. ASSUME UNCHANGED fate, NEW R, Registers' = R
      PROVE  Abstract!Take(addr, len, data, R)
  <2>1. last' = [op |-> "write", addr |-> addr, len |-> len, val |-> data]
    BY <1>1, <1>7 DEF Record
  <2> QED
    BY <1>7, <2>1, TakeMaps
<1>8. CASE off = 0 /\ Return(t, [dev EXCEPT !.timer_rtc = host_read(t, b, 4)])
  <2>1. PICK x : x = host_read(t, b, 4)
    OBVIOUS
  <2>2. io_space' = t /\ UNCHANGED fate /\ dev' = [dev EXCEPT !.timer_rtc = x]
    BY <1>8, <2>1 DEF Return
  <2>3. Registers' = Registers /\ dev'.ctrl = dev.ctrl /\ dev'.intr_nr = dev.intr_nr
    BY <1>1, <2>2, ClockUpdated
  <2>4. Abstract!Take(addr, len, data, Registers)
    <3>1. PICK R : R = Registers
      OBVIOUS
    <3>2. Abstract!Take(addr, len, data, R)
      BY <1>7, <2>2, <2>3, <3>1
    <3> QED
      BY <3>1, <3>2
  <2>5. Abstract!WriteRegister(addr, len, data)
    <3>1. Abstract!At("rtc", 0, addr)
      BY <1>1, <1>8 DEF Abstract!At
    <3> QED
      BY <2>4, <3>1 DEF Abstract!WriteRegister
  <2>6. \A k \in Nat : 8 <= k /\ k <= 11 => io_space'[b + k] = io_space[b + k]
    BY <1>4, <1>8, <2>2
  <2>7. IntrInv'
    BY <1>1, <1>2, <2>3, <2>6, KeepsIntr
  <2> QED
    BY <2>3, <2>5, <2>7 DEF Abstract!Write
<1>9. CASE off = 8 /\ Return(t, [dev EXCEPT !.intr_nr = host_read(t, b + 8, 4)])
  <2>1. PICK x : x = host_read(t, b + 8, 4)
    OBVIOUS
  <2>2. io_space' = t /\ UNCHANGED fate /\ dev' = [dev EXCEPT !.intr_nr = x]
    BY <1>9, <2>1 DEF Return
  <2>3. /\ Registers' = [Registers EXCEPT !.intr_nr = x] /\ Registers.intr_nr = dev.intr_nr
        /\ dev'.ctrl = dev.ctrl /\ dev'.intr_nr = x
    BY <1>1, <2>2, IntrUpdated DEF Registers
  <2>4. x = Abstract!Merge(dev.intr_nr, len, data)
    <3>1. host_read(io_space, b + 8, 4) = dev.intr_nr
      BY <1>1, <1>2 DEF IntrInv
    <3>2. x = (dev.intr_nr \div Weight(len)) * Weight(len) + (data % Weight(len))
      BY <1>4, <1>9, <2>1, <3>1
    <3> QED
      BY <3>2, SameWords DEF Abstract!Merge
  <2>5. Registers' = [Registers EXCEPT !.intr_nr = Abstract!Merge(@, len, data)]
    BY <2>3, <2>4
  <2>6. Abstract!Take(addr, len, data, [Registers EXCEPT !.intr_nr = Abstract!Merge(@, len, data)])
    <3>1. PICK R : R = [Registers EXCEPT !.intr_nr = Abstract!Merge(@, len, data)]
      OBVIOUS
    <3>2. Abstract!Take(addr, len, data, R)
      BY <1>7, <2>2, <2>5, <3>1
    <3> QED
      BY <3>1, <3>2
  <2>7. Abstract!WriteRegister(addr, len, data)
    <3>1. Abstract!At("rtc", 8, addr)
      BY <1>1, <1>9 DEF Abstract!At
    <3> QED
      BY <2>6, <3>1 DEF Abstract!WriteRegister
  <2>8. IntrInv'
    BY <1>6, <2>1, <2>2, <2>3 DEF IntrInv
  <2> QED
    BY <2>3, <2>7, <2>8 DEF Abstract!Write
<1>10. CASE off \notin {0, 8} /\ Abort(t)
  <2>1. fate' = "died" /\ UNCHANGED dev
    BY <1>10 DEF Abort
  <2>2. last' = [op |-> "fault", addr |-> addr, len |-> len, val |-> 0]
    BY <2>1 DEF Record
  <2>3. Abstract!Writable["rtc"] = {0, 8}
    BY DEF Abstract!Writable
  <2>4. Abstract!Fault(addr, len, Abstract!Writable)
    BY <1>1, <1>10, <2>1, <2>2, <2>3, RefusedMaps
  <2> QED
    BY <2>1, <2>4 DEF Abstract!Write
<1> QED
  BY <1>5, <1>8, <1>9, <1>10
  DEF rtc_io_handler, RTC_OFFSET, UPTIME_OFFSET, INTR_OFFSET

\* A write to the keyboard.
LEMMA KeyboardWrite ==
  ASSUME Inv, up, Frame, Ram' = Ram, NEW len \in Lens, NEW data \in Nat,
         NEW off \in Nat, off < 16, NEW addr, addr = mmio["keyboard"] + off, NEW t,
         i8042_data_io_handler(base("keyboard"), off, TRUE, t),
         Record("write", addr, len, data)
  PROVE  Abstract!Write(addr, len, data) /\ fate' = "died"
<1>1. /\ "keyboard" \in Controllers /\ LEN["keyboard"] = 16
  BY Lengths DEF Controllers
<1>2. fate' = "died" /\ UNCHANGED dev
  BY DEF i8042_data_io_handler, Abort
<1>3. last' = [op |-> "fault", addr |-> addr, len |-> len, val |-> 0]
  BY <1>2 DEF Record
<1>4. Abstract!Writable["keyboard"] = {}
  BY DEF Abstract!Writable
<1>5. Abstract!Fault(addr, len, Abstract!Writable)
  BY <1>1, <1>2, <1>3, <1>4, RefusedMaps
<1> QED
  BY <1>2, <1>5 DEF Abstract!Write
-----------------------------------------------------------------------------
(* Accesses to memory, and to nothing.                                     *)

\* The two ranges without a handler, as memories.
LEMMA VideoFacts ==
  ASSUME Inv, up, NEW d \in {"vgactl", "vmem"}, NEW off \in Nat, off < LEN[d],
         NEW len \in Lens, NEW addr, addr = mmio[d] + off
  PROVE  /\ Abstract!Memory(d, addr, len) /\ addr - Abstract!Begin(d) = off
         /\ d \in DOMAIN Ram /\ d \in Names /\ d # "pmem"
         /\ LEN[d] \in Nat /\ base(d) \in Nat
         /\ Ram[d] = [o \in 0..(LEN[d] + 2) |-> io_space[base(d) + o]]
<1>1. d \in Names /\ d # "pmem" /\ loaded /\ fate = "run"
  BY UpFacts DEF up
<1>2. LEN[d] \in Nat /\ base(d) \in Nat /\ mmio[d] \in Int
  BY <1>1, UpFacts, SlotFacts
<1>3. Ram[d] = [o \in 0..(LEN[d] + 2) |-> io_space[base(d) + o]] /\ d \in DOMAIN Ram
  BY <1>1, RamFacts DEF Memories
<1>4. Abstract!Begin(d) = mmio[d] /\ Abstract!Bytes(d) = 0..(LEN[d] + 2)
      /\ Abstract!Range(d) = mmio[d]..(mmio[d] + LEN[d] - 1)
  BY <1>1 DEF Abstract!Begin, Abstract!Bytes, Abstract!Range
<1>5. PICK a \in Int, l \in Nat : a = mmio[d] /\ l = LEN[d] /\ off < l /\ addr = a + off
  BY <1>2
<1>6. addr - a = off /\ off \in 0..(l + 2) /\ off + len - 1 \in 0..(l + 2)
      /\ addr \in a..(a + l - 1)
  BY <1>5 DEF Lens
<1>7. Abstract!Memory(d, addr, len)
  BY <1>1, <1>4, <1>5, <1>6 DEF Abstract!Memory
<1> QED
  BY <1>1, <1>2, <1>3, <1>4, <1>5, <1>6, <1>7

\* A read there is a read of the memory.
LEMMA VideoRead ==
  ASSUME Inv, up, Frame, Ram' = Ram, NEW d \in {"vgactl", "vmem"},
         NEW off \in Nat, off < LEN[d], NEW len \in Lens, NEW addr, addr = mmio[d] + off,
         Return(io_space, dev),
         Record("read", addr, len, host_read(io_space', base(d) + off, len))
  PROVE  Abstract!Read(addr, len)
<1>1. UNCHANGED <<io_space, dev, fate>> /\ fate = "run" /\ io_space \in [IOX -> Byte]
  BY UpFacts DEF Return
<1>2. /\ Abstract!Memory(d, addr, len) /\ addr - Abstract!Begin(d) = off
      /\ d \in DOMAIN Ram /\ d \in Names
      /\ LEN[d] \in Nat /\ base(d) \in Nat
      /\ Ram[d] = [o \in 0..(LEN[d] + 2) |-> io_space[base(d) + o]]
  BY VideoFacts
<1>3. PICK b \in Nat, l \in Nat : b = base(d) /\ l = LEN[d] /\ off < l
  BY <1>2
<1>4. ASSUME NEW k \in 0..(len - 1)
      PROVE  /\ Ram[d][off + k] = io_space[(b + off) + k]
             /\ Ram[d][off + k] \in Byte
  <2>1. off + k \in 0..(l + 2) /\ off + k \in Nat /\ (b + off) + k = b + (off + k)
        /\ off + k <= l + 2
    BY <1>3 DEF Lens
  <2>2. Ram[d][off + k] = io_space[b + (off + k)]
    BY <1>2, <1>3, <2>1
  <2>3. io_space[b + (off + k)] \in Byte
    BY <1>2, <1>3, <2>1, InSpace
  <2> QED
    BY <2>1, <2>2, <2>3
<1>5. PICK v : v = host_read(Ram[d], off, len)
  OBVIOUS
<1>6. host_read(io_space, b + off, len) = v
  <2>1. b + off \in Int /\ off \in Int
    BY <1>3
  <2>2. PICK x \in Int : x = b + off
    BY <2>1
  <2>3. PICK m : m = Ram[d]
    OBVIOUS
  <2>4. \A k \in 0..(len - 1) : m[off + k] = io_space[x + k]
    BY <1>4, <2>2, <2>3
  <2>5. host_read(m, off, len) = host_read(io_space, x, len)
    BY <2>1, <2>4, ReadSame
  <2> QED
    BY <1>5, <2>2, <2>3, <2>5
<1>7. v % Weight(len) = v
  <2>1. \A k \in 0..(len - 1) : Ram[d][off + k] \in Byte
    BY <1>4
  <2>2. off \in Int
    OBVIOUS
  <2>3. host_read(Ram[d], off, len) % Weight(len) = host_read(Ram[d], off, len)
    BY <2>1, <2>2, ReadBounds
  <2> QED
    BY <1>5, <2>3
<1>8. last' = [op |-> "read", addr |-> addr, len |-> len, val |-> v % Weight(len)]
  BY <1>1, <1>3, <1>6, <1>7 DEF Record
<1>9. Abstract!Answer(addr, len, v, Registers)
  <2>1. PICK R : R = Registers
    OBVIOUS
  <2>2. Registers' = R
    BY <1>1, <2>1, RegistersSame
  <2>3. Abstract!Answer(addr, len, v, R)
    BY <1>1, <1>8, <2>2, AnswerMaps
  <2> QED
    BY <2>1, <2>3
<1>10. v = Abstract!host_read(Ram[d], addr - Abstract!Begin(d), len)
  BY <1>2, <1>5, SameWords
<1>11. Abstract!ReadMemory(d, addr, len)
  BY <1>2, <1>9, <1>10 DEF Abstract!ReadMemory
<1> QED
  BY <1>2, <1>11 DEF Abstract!Read

\* A write there is a write of that memory, and of no other.
LEMMA VideoWrite ==
  ASSUME Inv, up, Frame, UNCHANGED pmem, NEW d \in {"vgactl", "vmem"},
         NEW off \in Nat, off < LEN[d], NEW len \in Lens, NEW data \in Nat,
         NEW addr, addr = mmio[d] + off,
         Return(host_write(io_space, base(d) + off, len, data), dev),
         Within(io_space, io_space', base(d), base(d) + LEN[d] + 2),
         Record("write", addr, len, data)
  PROVE  Abstract!Write(addr, len, data)
<1>1. /\ io_space' = host_write(io_space, base(d) + off, len, data) /\ UNCHANGED <<dev, fate>>
      /\ fate = "run" /\ io_space \in [IOX -> Byte] /\ loaded /\ loaded' /\ UNCHANGED maps
  BY UpFacts DEF Return, Frame
<1>2. /\ Abstract!Memory(d, addr, len) /\ addr - Abstract!Begin(d) = off
      /\ d \in DOMAIN Ram /\ d \in Names
      /\ LEN[d] \in Nat /\ base(d) \in Nat
      /\ Ram[d] = [o \in 0..(LEN[d] + 2) |-> io_space[base(d) + o]]
  BY VideoFacts
<1>3. PICK b \in Nat, l \in Nat : b = base(d) /\ l = LEN[d] /\ off < l
  BY <1>2
<1>4. PICK W : W = host_write(Ram[d], off, len, data)
  OBVIOUS
<1>5. Ram'[d] = W
  <2>1. Ram'[d] = [o \in 0..(l + 2) |-> io_space'[b + o]]
    BY <1>1, <1>3, RamFacts
  <2>2. W = [o \in 0..(l + 2) |-> IF o \in off..(off + len - 1)
                                  THEN (data \div Weight(o - off)) % BYTE
                                  ELSE io_space[b + o]]
    BY <1>2, <1>3, <1>4 DEF host_write
  <2>3. ASSUME NEW o \in 0..(l + 2)
        PROVE  io_space'[b + o] = IF o \in off..(off + len - 1)
                                  THEN (data \div Weight(o - off)) % BYTE
                                  ELSE io_space[b + o]
    <3>1. b + o \in DOMAIN io_space
      BY <1>1, <1>2, <1>3, InSpace
    <3>2. /\ b + o \in (b + off)..((b + off) + len - 1) <=> o \in off..(off + len - 1)
          /\ (b + o) - (b + off) = o - off
      BY <1>3 DEF Lens
    <3> QED
      BY <1>1, <1>3, <3>1, <3>2 DEF host_write
  <2> QED
    BY <2>1, <2>2, <2>3
<1>6. ASSUME NEW e \in Memories, e # d
      PROVE  Ram'[e] = Ram[e]
  <2>1. CASE e = "pmem"
    BY <2>1, RamFacts
  <2>2. CASE e # "pmem"
    <3>1. e \in {"vgactl", "vmem"} /\ e \in Names
      BY <2>2, UpFacts DEF Memories
    <3>2. \A o \in 0..(LEN[e] + 2) : io_space'[base(e) + o] = io_space[base(e) + o]
      BY <1>2, <1>6, <3>1, OthersSame
    <3>3. /\ Ram[e] = [o \in 0..(LEN[e] + 2) |-> io_space[base(e) + o]]
          /\ Ram'[e] = [o \in 0..(LEN[e] + 2) |-> io_space'[base(e) + o]]
      BY <1>1, <3>1, RamFacts
    <3> QED
      BY <3>2, <3>3
  <2> QED
    BY <2>1, <2>2
<1>7. Ram' = [Ram EXCEPT ![d] = W]
  <2>1. PICK f : f = [Ram EXCEPT ![d] = W]
    OBVIOUS
  <2>2. f = [e \in Memories |-> f[e]]
    BY <2>1, RamFacts
  <2>3. \A e \in Memories : Ram'[e] = f[e]
    BY <1>5, <1>6, <2>1, RamFacts
  <2> QED
    BY <2>1, <2>2, <2>3, SameRam
<1>8. W = Abstract!host_write(Ram[d], addr - Abstract!Begin(d), len, data)
  BY <1>2, <1>4, SameWords
<1>9. last' = [op |-> "write", addr |-> addr, len |-> len, val |-> data]
  BY <1>1 DEF Record
<1>10. Registers' = Registers
  BY <1>1, RegistersSame
<1>11. Ram' = [Ram EXCEPT ![d] = Abstract!host_write(@, addr - Abstract!Begin(d), len, data)]
  BY <1>7, <1>8
<1>12. Abstract!WriteMemory(d, addr, len, data)
  BY <1>1, <1>2, <1>9, <1>10, <1>11, Zenon DEF Abstract!WriteMemory, Frame
<1> QED
  BY <1>2, <1>12 DEF Abstract!Write

\* An address inside pmem, and its end too.
LEMMA PmemFacts ==
  ASSUME Inv, up, NEW addr \in Int, NEW len \in Lens, in_pmem(addr), in_pmem(addr + len - 1)
  PROVE  /\ Abstract!Memory("pmem", addr, len) /\ "pmem" \in DOMAIN Ram
         /\ Abstract!Begin("pmem") = MBASE /\ addr - MBASE \in Nat
         /\ addr - MBASE + len - 1 < MSIZE /\ MSIZE \in Nat
<1>1. MBASE \in Nat /\ MSIZE \in Nat /\ loaded /\ fate = "run"
  BY BusAssumption DEF BusAssumption, up
<1>2. /\ Abstract!Begin("pmem") = MBASE /\ Abstract!Bytes("pmem") = 0..(MSIZE - 1)
  BY DEF Abstract!Begin, Abstract!Bytes
<1>3. addr - MBASE \in 0..(MSIZE - 1) /\ addr - MBASE + len - 1 \in 0..(MSIZE - 1)
  BY <1>1 DEF in_pmem, Lens
<1>4. "pmem" \in DOMAIN Ram
  BY RamFacts DEF Memories
<1> QED
  BY <1>1, <1>2, <1>3, <1>4 DEF Abstract!Memory

\* A read of pmem.
LEMMA PmemRead ==
  ASSUME Inv, up, Frame, NEW addr \in Int, NEW len \in Lens, pmem_read(addr, len)
  PROVE  Abstract!Read(addr, len)
<1>1. /\ in_pmem(addr) /\ in_pmem(addr + len - 1) /\ UNCHANGED <<io_space, pmem, dev, fate>>
      /\ Record("read", addr, len, host_read(pmem, addr - MBASE, len))
      /\ fate = "run" /\ UNCHANGED <<maps, loaded>> /\ pmem \in [0..(MSIZE - 1) -> Byte]
  BY UpFacts DEF pmem_read, Frame, TypeInv
<1>2. /\ Abstract!Memory("pmem", addr, len) /\ "pmem" \in DOMAIN Ram
      /\ Abstract!Begin("pmem") = MBASE /\ addr - MBASE \in Nat
      /\ addr - MBASE + len - 1 < MSIZE /\ MSIZE \in Nat
  BY <1>1, PmemFacts
<1>3. PICK x, v : x \in Nat /\ x = addr - MBASE /\ v = host_read(pmem, x, len)
  BY <1>2
<1>4. v % Weight(len) = v
  <2>1. \A k \in 0..(len - 1) : pmem[x + k] \in Byte
    <3> SUFFICES ASSUME NEW k \in 0..(len - 1) PROVE pmem[x + k] \in Byte
      OBVIOUS
    <3>1. x + k \in 0..(MSIZE - 1)
      BY <1>2, <1>3 DEF Lens
    <3> QED
      BY <1>1, <3>1
  <2>2. x \in Int
    BY <1>3
  <2>3. host_read(pmem, x, len) % Weight(len) = host_read(pmem, x, len)
    BY <2>1, <2>2, ReadBounds
  <2> QED
    BY <1>3, <2>3
<1>5. last' = [op |-> "read", addr |-> addr, len |-> len, val |-> v % Weight(len)]
  BY <1>1, <1>3, <1>4 DEF Record
<1>6. Abstract!Answer(addr, len, v, Registers)
  <2>1. PICK R : R = Registers
    OBVIOUS
  <2>2. Registers' = R
    BY <1>1, <2>1, RegistersSame
  <2>3. Ram' = Ram
    BY <1>1, RamSame
  <2>4. Abstract!Answer(addr, len, v, R)
    BY <1>1, <1>5, <2>2, <2>3, AnswerMaps
  <2> QED
    BY <2>1, <2>4
<1>7. v = Abstract!host_read(Ram["pmem"], addr - Abstract!Begin("pmem"), len)
  BY <1>2, <1>3, SameWords, RamFacts
<1>8. Abstract!ReadMemory("pmem", addr, len)
  BY <1>2, <1>6, <1>7 DEF Abstract!ReadMemory
<1> QED
  BY <1>2, <1>8 DEF Abstract!Read

\* A write of pmem.
LEMMA PmemWrite ==
  ASSUME Inv, up, Frame, NEW addr \in Int, NEW len \in Lens, NEW data \in Nat,
         pmem_write(addr, len, data)
  PROVE  Abstract!Write(addr, len, data)
<1>1. /\ in_pmem(addr) /\ in_pmem(addr + len - 1) /\ UNCHANGED <<io_space, dev, fate>>
      /\ pmem' = host_write(pmem, addr - MBASE, len, data)
      /\ Record("write", addr, len, data)
      /\ fate = "run" /\ UNCHANGED <<maps, loaded>> /\ loaded
  BY UpFacts DEF pmem_write, Frame
<1>2. /\ Abstract!Memory("pmem", addr, len) /\ "pmem" \in DOMAIN Ram
      /\ Abstract!Begin("pmem") = MBASE
  BY <1>1, PmemFacts
<1>3. \A e \in {"vgactl", "vmem"} : Ram'[e] = Ram[e]
  BY <1>1, RamFacts
<1>4. PICK W : W = host_write(pmem, addr - MBASE, len, data)
  OBVIOUS
<1>5. Ram' = [Ram EXCEPT !["pmem"] = W]
  <2>1. PICK f : f = [Ram EXCEPT !["pmem"] = W]
    OBVIOUS
  <2>2. f = [e \in Memories |-> f[e]]
    BY <2>1, RamFacts
  <2>3. \A e \in Memories : Ram'[e] = f[e]
    BY <1>1, <1>3, <1>4, <2>1, RamFacts DEF Memories
  <2> QED
    BY <2>1, <2>2, <2>3, SameRam
<1>6. W = Abstract!host_write(Ram["pmem"], addr - Abstract!Begin("pmem"), len, data)
  BY <1>2, <1>4, SameWords, RamFacts
<1>7. Ram' = [Ram EXCEPT !["pmem"] =
                Abstract!host_write(@, addr - Abstract!Begin("pmem"), len, data)]
  BY <1>5, <1>6
<1>8. last' = [op |-> "write", addr |-> addr, len |-> len, val |-> data]
  BY <1>1 DEF Record
<1>9. Registers' = Registers
  BY <1>1, RegistersSame
<1>10. Abstract!WriteMemory("pmem", addr, len, data)
  BY <1>1, <1>2, <1>7, <1>8, <1>9, Zenon DEF Abstract!WriteMemory, Frame
<1> QED
  BY <1>2, <1>10 DEF Abstract!Write

\* An access outside all ranges that pmem does not hold either.
LEMMA NowhereMaps ==
  ASSUME Inv, up, Frame, UNCHANGED <<io_space, pmem, dev>>, NEW addr \in Int, NEW len \in Lens,
         ~ in_pmem(addr) \/ ~ in_pmem(addr + len - 1),
         fate' = IF in_pmem(addr) THEN "wild" ELSE "died",
         \A e \in Names : \A o \in Nat : o < LEN[e] => addr # mmio[e] + o,
         last' = [op |-> "fault", addr |-> addr, len |-> len, val |-> 0]
  PROVE  Abstract!Read(addr, len)
<1>1. MBASE \in Nat /\ MSIZE \in Nat /\ loaded /\ fate = "run" /\ UNCHANGED <<maps, loaded>>
  BY BusAssumption DEF BusAssumption, up, Frame
<1>2. PICK served : served = Abstract!Readable
  OBVIOUS
<1>3. \A d \in DOMAIN served : addr \notin {mmio[d] + o : o \in served[d]}
  <2> SUFFICES ASSUME NEW d \in Controllers, NEW o \in served[d], addr = mmio[d] + o
               PROVE  FALSE
    BY <1>2, ServedFacts
  <2>1. o \in Nat /\ o < LEN[d] /\ d \in Names
    BY <1>2, ServedFacts, UpFacts DEF Controllers
  <2> QED
    BY <2>1
<1>4. ~ Abstract!Memory("pmem", addr, len)
  BY <1>1 DEF in_pmem, Abstract!Memory, Abstract!Begin, Abstract!Bytes, Lens
<1>5. ASSUME NEW m \in {"vgactl", "vmem"}
      PROVE  ~ Abstract!Memory(m, addr, len)
  <2>1. m \in Names /\ m # "pmem"
    BY UpFacts
  <2>2. mmio[m] \in Int /\ LEN[m] \in Nat
    BY <2>1, UpFacts, SlotFacts
  <2>3. addr \notin mmio[m]..(mmio[m] + LEN[m] - 1)
    <3> SUFFICES ASSUME addr \in mmio[m]..(mmio[m] + LEN[m] - 1) PROVE FALSE
      OBVIOUS
    <3>1. PICK a \in Int, l \in Nat : a = mmio[m] /\ l = LEN[m]
      BY <2>2
    <3>2. addr - a \in Nat /\ addr - a < l /\ addr = a + (addr - a)
      BY <3>1
    <3> QED
      BY <2>1, <3>1, <3>2
  <2> QED
    BY <2>1, <2>3 DEF Abstract!Memory, Abstract!Range
<1>6. \A m \in DOMAIN Ram : ~ Abstract!Memory(m, addr, len)
  BY <1>4, <1>5, RamFacts DEF Memories
<1>7. Ram' = Ram /\ Registers' = Registers
  BY <1>1, RamSame, RegistersSame
<1>8. fate' = IF addr \in MBASE..(MBASE + MSIZE - 1) THEN "wild" ELSE "died"
  BY DEF in_pmem
<1>9. Abstract!Fault(addr, len, served)
  BY <1>1, <1>3, <1>6, <1>7, <1>8, Zenon DEF Abstract!Fault, Frame
<1> QED
  BY <1>2, <1>9 DEF Abstract!Read
-----------------------------------------------------------------------------
(* Accesses through the maps.                                              *)

\* The map that an address is dispatched to is the one of its range.
LEMMA Dispatched ==
  ASSUME Inv, up, NEW addr \in Int, NEW i0, i0 = find_mapid_by_addr(addr), i0 # 0
  PROVE  \E d \in Names : \E off \in Nat :
           /\ off < LEN[d] /\ addr = mmio[d] + off
           /\ i0 \in DOMAIN maps /\ map_inside(maps[i0], addr)
           /\ maps[i0].name = d /\ maps[i0].space = base(d) /\ addr - maps[i0].low = off
<1>1. MapInv /\ i0 \in DOMAIN maps /\ map_inside(maps[i0], addr)
  BY UpFacts, FindFact
<1>2. PICK d \in Names : d = maps[i0].name
  BY <1>1, RangeFacts
<1>3. /\ maps[i0].low = mmio[d] /\ maps[i0].high = mmio[d] + LEN[d] - 1
      /\ maps[i0].space = base(d) /\ mmio[d] \in Int /\ LEN[d] \in Nat
  <2>1. /\ maps[Slot(d)].low = mmio[d] /\ maps[Slot(d)].high = mmio[d] + LEN[d] - 1
        /\ base(d) = maps[Slot(d)].space /\ i0 = Slot(d)
        /\ mmio[d] \in Int /\ LEN[d] \in Nat
    BY <1>1, <1>2, UpFacts, SlotFacts
  <2> QED
    BY <2>1
<1>4. PICK a \in Int, l \in Nat : a = mmio[d] /\ l = LEN[d]
  BY <1>3
<1>5. addr - a \in Nat /\ addr - a < l /\ addr = a + (addr - a)
  BY <1>1, <1>3, <1>4 DEF map_inside
<1> QED
  BY <1>1, <1>2, <1>3, <1>4, <1>5

\* An access to one range keeps the other ranges' copies.
LEMMA AccessRegInv ==
  ASSUME Inv, up, UNCHANGED maps, NEW d \in Names,
         Within(io_space, io_space', base(d), base(d) + LEN[d] + 2),
         fate' = "run" =>
           /\ IF d = "serial" THEN CtrlInv' /\ PadInv' ELSE dev'.ctrl = dev.ctrl
           /\ IF d = "rtc" THEN IntrInv' ELSE dev'.intr_nr = dev.intr_nr
  PROVE  RegInv'
<1> SUFFICES ASSUME fate' = "run" PROVE CtrlInv' /\ PadInv' /\ IntrInv'
  BY DEF RegInv, up
<1>1. "serial" \in Names /\ "rtc" \in Names /\ LEN["serial"] = 20 /\ LEN["rtc"] = 12
  BY UpFacts, Lengths
<1>2. CASE d = "serial"
  <2>1. \A o \in 0..(12 + 2) : io_space'[base("rtc") + o] = io_space[base("rtc") + o]
    BY <1>1, <1>2, OthersSame
  <2>2. \A o \in 8..11 : io_space'[base("rtc") + o] = io_space[base("rtc") + o]
    BY <2>1
  <2> QED
    BY <1>2, <2>2, KeepsIntr
<1>3. CASE d # "serial"
  <2>1. \A o \in 0..(20 + 2) : io_space'[base("serial") + o] = io_space[base("serial") + o]
    BY <1>1, <1>3, OthersSame
  <2>2. /\ \A o \in 0..3 : io_space'[base("serial") + o] = io_space[base("serial") + o]
        /\ \A o \in 17..19 : io_space'[base("serial") + o] = io_space[base("serial") + o]
    BY <2>1
  <2>3. CtrlInv' /\ PadInv'
    BY <1>3, <2>2, KeepsCtrl, KeepsPad
  <2>4. CASE d = "rtc"
    BY <2>3, <2>4
  <2>5. CASE d # "rtc"
    <3>1. \A o \in 0..(12 + 2) : io_space'[base("rtc") + o] = io_space[base("rtc") + o]
      BY <1>1, <2>5, OthersSame
    <3>2. \A o \in 8..11 : io_space'[base("rtc") + o] = io_space[base("rtc") + o]
      BY <3>1
    <3> QED
      BY <2>3, <2>5, <3>2, KeepsIntr
  <2> QED
    BY <2>4, <2>5
<1> QED
  BY <1>2, <1>3

\* A read through a map.
LEMMA MmioReadMaps ==
  ASSUME Inv, up, Frame, NEW addr \in Int, NEW len \in Lens, mmio_read(addr, len)
  PROVE  Abstract!Read(addr, len) /\ RegInv'
<1>1. PICK i0 : i0 = find_mapid_by_addr(addr)
  OBVIOUS
<1>2. i0 # 0 /\ map_read(addr, len, maps[i0])
  BY <1>1 DEF mmio_read
<1>3. PICK d \in Names, off \in Nat :
        /\ off < LEN[d] /\ addr = mmio[d] + off
        /\ i0 \in DOMAIN maps /\ map_inside(maps[i0], addr)
        /\ maps[i0].name = d /\ maps[i0].space = base(d) /\ addr - maps[i0].low = off
  BY <1>1, <1>2, Dispatched
<1>4. /\ invoke_callback(maps[i0], off, FALSE, io_space) /\ UNCHANGED <<pmem, maps, loaded>>
      /\ Record("read", addr, len, host_read(io_space', base(d) + off, len))
  BY <1>2, <1>3 DEF map_read, Frame
<1>5. Within(io_space, io_space', base(d), base(d) + LEN[d] + 2)
  <2>1. MapInv
    BY UpFacts
  <2> QED
    BY <1>2, <1>3, <2>1, MmioWithin
<1>6. {"serial", "rtc", "vgactl", "vmem", "keyboard"} = Names
      /\ LEN["serial"] = 20 /\ LEN["rtc"] = 12 /\ LEN["keyboard"] = 16
  BY UpFacts, Lengths
<1>7. CASE d = "serial"
  <2>1. Ram' = Ram
    BY <1>4, <1>5, <1>7, RamFrame
  <2>2. serial_io_handler(base("serial"), off, FALSE, io_space)
    BY <1>3, <1>4, <1>7 DEF invoke_callback
  <2>3. /\ Abstract!Read(addr, len)
        /\ fate' = "run" => CtrlInv' /\ PadInv' /\ dev'.intr_nr = dev.intr_nr
    BY <1>3, <1>4, <1>6, <1>7, <2>1, <2>2, SerialRead
  <2> QED
    BY <1>4, <1>5, <1>7, <2>3, AccessRegInv
<1>8. CASE d = "rtc"
  <2>1. Ram' = Ram
    BY <1>4, <1>5, <1>8, RamFrame
  <2>2. rtc_io_handler(base("rtc"), off, FALSE, io_space)
    BY <1>3, <1>4, <1>8 DEF invoke_callback
  <2>3. /\ Abstract!Read(addr, len)
        /\ fate' = "run" => IntrInv' /\ dev'.ctrl = dev.ctrl
    BY <1>3, <1>4, <1>6, <1>8, <2>1, <2>2, RtcRead
  <2> QED
    BY <1>4, <1>5, <1>8, <2>3, AccessRegInv
<1>9. CASE d = "keyboard"
  <2>1. Ram' = Ram
    BY <1>4, <1>5, <1>9, RamFrame
  <2>2. i8042_data_io_handler(base("keyboard"), off, FALSE, io_space)
    BY <1>3, <1>4, <1>9 DEF invoke_callback
  <2>3. /\ Abstract!Read(addr, len)
        /\ fate' = "run" => dev'.ctrl = dev.ctrl /\ dev'.intr_nr = dev.intr_nr
    BY <1>3, <1>4, <1>6, <1>9, <2>1, <2>2, KeyboardRead
  <2> QED
    BY <1>4, <1>5, <1>9, <2>3, AccessRegInv
<1>10. CASE d \in {"vgactl", "vmem"}
  <2>1. Return(io_space, dev)
    BY <1>3, <1>4, <1>10 DEF invoke_callback
  <2>2. Ram' = Ram
    BY <1>4, <2>1, RamSame DEF Return
  <2>3. Abstract!Read(addr, len)
    BY <1>3, <1>4, <1>10, <2>1, <2>2, VideoRead
  <2>4. dev' = dev
    BY <2>1 DEF Return
  <2> QED
    BY <1>4, <1>5, <1>10, <2>3, <2>4, AccessRegInv
<1> QED
  BY <1>6, <1>7, <1>8, <1>9, <1>10

\* A write through a map.
LEMMA MmioWriteMaps ==
  ASSUME Inv, up, Frame, NEW addr \in Int, NEW len \in Lens, NEW data \in Data, data \in Nat,
         mmio_write(addr, len, data)
  PROVE  Abstract!Write(addr, len, data) /\ RegInv'
<1>1. PICK i0 : i0 = find_mapid_by_addr(addr)
  OBVIOUS
<1>2. i0 # 0 /\ map_write(addr, len, data, maps[i0])
  BY <1>1 DEF mmio_write
<1>3. PICK d \in Names, off \in Nat :
        /\ off < LEN[d] /\ addr = mmio[d] + off
        /\ i0 \in DOMAIN maps /\ map_inside(maps[i0], addr)
        /\ maps[i0].name = d /\ maps[i0].space = base(d) /\ addr - maps[i0].low = off
  BY <1>1, <1>2, Dispatched
<1>4. /\ invoke_callback(maps[i0], off, TRUE,
                         host_write(io_space, base(d) + off, len, data))
      /\ UNCHANGED <<pmem, maps, loaded>> /\ Record("write", addr, len, data)
  BY <1>2, <1>3 DEF map_write, Frame
<1>5. Within(io_space, io_space', base(d), base(d) + LEN[d] + 2)
  <2>1. MapInv
    BY UpFacts
  <2> QED
    BY <1>2, <1>3, <2>1, MmioWithin
<1>6. {"serial", "rtc", "vgactl", "vmem", "keyboard"} = Names
      /\ LEN["serial"] = 20 /\ LEN["rtc"] = 12 /\ LEN["keyboard"] = 16
  BY UpFacts, Lengths
<1>7. CASE d = "serial"
  <2>1. Ram' = Ram
    BY <1>4, <1>5, <1>7, RamFrame
  <2>2. serial_io_handler(base("serial"), off, TRUE,
                          host_write(io_space, base("serial") + off, len, data))
    BY <1>3, <1>4, <1>7 DEF invoke_callback
  <2>3. /\ Abstract!Write(addr, len, data)
        /\ fate' = "run" => CtrlInv' /\ PadInv' /\ dev'.intr_nr = dev.intr_nr
    BY <1>3, <1>4, <1>6, <1>7, <2>1, <2>2, SerialWrite
  <2> QED
    BY <1>4, <1>5, <1>7, <2>3, AccessRegInv
<1>8. CASE d = "rtc"
  <2>1. Ram' = Ram
    BY <1>4, <1>5, <1>8, RamFrame
  <2>2. rtc_io_handler(base("rtc"), off, TRUE,
                       host_write(io_space, base("rtc") + off, len, data))
    BY <1>3, <1>4, <1>8 DEF invoke_callback
  <2>3. /\ Abstract!Write(addr, len, data)
        /\ fate' = "run" => IntrInv' /\ dev'.ctrl = dev.ctrl
    BY <1>3, <1>4, <1>6, <1>8, <2>1, <2>2, RtcWrite
  <2> QED
    BY <1>4, <1>5, <1>8, <2>3, AccessRegInv
<1>9. CASE d = "keyboard"
  <2>1. Ram' = Ram
    BY <1>4, <1>5, <1>9, RamFrame
  <2>2. PICK t : i8042_data_io_handler(base("keyboard"), off, TRUE, t)
    BY <1>3, <1>4, <1>9 DEF invoke_callback
  <2>3. Abstract!Write(addr, len, data) /\ fate' = "died"
    BY <1>3, <1>4, <1>6, <1>9, <2>1, <2>2, KeyboardWrite
  <2> QED
    BY <1>4, <1>5, <1>9, <2>3, AccessRegInv
<1>10. CASE d \in {"vgactl", "vmem"}
  <2>1. Return(host_write(io_space, base(d) + off, len, data), dev)
    BY <1>3, <1>4, <1>10 DEF invoke_callback
  <2>2. Abstract!Write(addr, len, data)
    BY <1>3, <1>4, <1>5, <1>10, <2>1, VideoWrite
  <2>3. dev' = dev
    BY <2>1 DEF Return
  <2> QED
    BY <1>4, <1>5, <1>10, <2>2, <2>3, AccessRegInv
<1> QED
  BY <1>6, <1>7, <1>8, <1>9, <1>10

\* The copies depend on nothing else.
LEMMA KeepsRegInv ==
  ASSUME Inv, up, UNCHANGED <<maps, io_space>>,
         dev'.ctrl = dev.ctrl, dev'.intr_nr = dev.intr_nr
  PROVE  RegInv'
<1>1. CtrlInv' /\ PadInv' /\ IntrInv'
  BY KeepsCtrl, KeepsPad, KeepsIntr
<1> QED
  BY <1>1 DEF RegInv

\* An address of a range is found.
LEMMA Found ==
  ASSUME MapInv, NEW addr \in Int, NEW j \in DOMAIN maps, map_inside(maps[j], addr)
  PROVE  find_mapid_by_addr(addr) # 0
<1>1. ASSUME NEW k \in 1..(j - 1), map_inside(maps[k], addr)
      PROVE  FALSE
  <2>1. j \in 1..Len(maps)
    BY RangeFacts
  <2>2. k \in DOMAIN maps /\ k # j
    BY <2>1 DEF MapInv, Registered
  <2> QED
    BY <1>1, <2>2, MapInvImpliesDisjoint DEF MapsDisjoint, map_inside
<1>2. find_mapid_by_addr(addr) \in DOMAIN maps
  BY <1>1 DEF find_mapid_by_addr
<1>3. 0 \notin DOMAIN maps
  BY DEF MapInv, Registered
<1> QED
  BY <1>2, <1>3

\* What check_bound refuses, and what runs out of pmem, is in no range.
LEMMA FaultMaps ==
  ASSUME Inv, up, Frame, NEW addr \in Int, NEW len \in Lens,
         Refused(addr, len) \/ Overrun(addr, len)
  PROVE  Abstract!Read(addr, len) /\ RegInv'
<1>1. /\ UNCHANGED <<io_space, pmem, dev, maps>>
      /\ ~ in_pmem(addr) \/ ~ in_pmem(addr + len - 1)
      /\ fate' = IF in_pmem(addr) THEN "wild" ELSE "died"
      /\ Record("fault", addr, len, 0)
  BY DEF Refused, Overrun, Frame
<1>2. last' = [op |-> "fault", addr |-> addr, len |-> len, val |-> 0]
  BY <1>1 DEF Record
<1>3. ASSUME NEW e \in Names, NEW o \in Nat, o < LEN[e], addr = mmio[e] + o
      PROVE  FALSE
  <2>1. /\ Slot(e) \in DOMAIN maps
        /\ maps[Slot(e)].low = mmio[e] /\ maps[Slot(e)].high = mmio[e] + LEN[e] - 1
        /\ LEN[e] \in Nat /\ mmio[e] \in Int
    BY UpFacts, SlotFacts
  <2>2. PICK a \in Int, l \in Nat : a = mmio[e] /\ l = LEN[e]
    BY <2>1
  <2>3. addr \in a..(a + l - 1)
    BY <1>3, <2>2
  <2>4. map_inside(maps[Slot(e)], addr)
    BY <2>1, <2>2, <2>3 DEF map_inside
  <2>5. find_mapid_by_addr(addr) # 0
    BY <2>1, <2>4, UpFacts, Found
  <2>6. ~ in_pmem(addr)
    BY <1>3, Located
  <2> QED
    BY <2>5, <2>6 DEF Refused, Overrun
<1>4. Abstract!Read(addr, len)
  BY <1>1, <1>2, <1>3, NowhereMaps
<1>5. RegInv'
  BY <1>1, KeepsRegInv
<1> QED
  BY <1>4, <1>5

\* An access is one of Peripherals.
LEMMA AccessMaps ==
  ASSUME Inv, Access
  PROVE  Abstract!Next /\ RegInv'
<1>1. up /\ Frame
  BY DEF Access, Frame
<1>2. PICK addr \in Probes, len \in Lens :
        \/ Refused(addr, len) \/ Overrun(addr, len)
        \/ pmem_read(addr, len) \/ mmio_read(addr, len)
        \/ \E data \in Data : pmem_write(addr, len, data) \/ mmio_write(addr, len, data)
  BY DEF Access
<1>3. addr \in Int
  BY DevicesAssumption, BusAssumption DEF DevicesAssumption, BusAssumption, Address
<1>4. \A data \in Data : data \in Nat
  BY DevicesAssumption, Small DEF DevicesAssumption
<1>5. last'.addr = addr /\ last'.len = len
  <2>1. \E op, val : Record(op, addr, len, val)
    BY <1>2 DEF Refused, Overrun, pmem_read, pmem_write, mmio_read, mmio_write,
         map_read, map_write
  <2> QED
    BY <2>1 DEF Record
<1>6. ASSUME Refused(addr, len) \/ Overrun(addr, len)
      PROVE  Abstract!Read(addr, len) /\ RegInv'
  BY <1>1, <1>3, <1>6, FaultMaps
<1>7. ASSUME pmem_read(addr, len)
      PROVE  Abstract!Read(addr, len) /\ RegInv'
  <2>1. Abstract!Read(addr, len)
    BY <1>1, <1>3, <1>7, PmemRead
  <2>2. UNCHANGED <<maps, io_space, dev>>
    BY <1>1, <1>7 DEF pmem_read, Frame
  <2> QED
    BY <1>1, <2>1, <2>2, KeepsRegInv
<1>8. ASSUME mmio_read(addr, len)
      PROVE  Abstract!Read(addr, len) /\ RegInv'
  BY <1>1, <1>3, <1>8, MmioReadMaps
<1>9. ASSUME NEW data \in Data, pmem_write(addr, len, data)
      PROVE  Abstract!Write(addr, len, data) /\ RegInv'
  <2>1. Abstract!Write(addr, len, data)
    BY <1>1, <1>3, <1>4, <1>9, PmemWrite
  <2>2. UNCHANGED <<maps, io_space, dev>>
    BY <1>1, <1>9 DEF pmem_write, Frame
  <2> QED
    BY <1>1, <2>1, <2>2, KeepsRegInv
<1>10. ASSUME NEW data \in Data, mmio_write(addr, len, data)
       PROVE  Abstract!Write(addr, len, data) /\ RegInv'
  BY <1>1, <1>3, <1>4, <1>10, MmioWriteMaps
<1>11. /\ Abstract!Read(addr, len) \/ \E w \in Data : Abstract!Write(addr, len, w)
       /\ RegInv'
  BY <1>2, <1>6, <1>7, <1>8, <1>9, <1>10
<1>12. Abstract!Lens = Lens
  BY SameWords
<1>13. Abstract!Next
  BY <1>5, <1>11, <1>12, Zenon DEF Abstract!Next
<1> QED
  BY <1>11, <1>13
-----------------------------------------------------------------------------
(* The other steps, and the refinement.                                    *)

\* The update of the screen.
LEMMA VgaUpdateMaps ==
  ASSUME Inv, VgaUpdate
  PROVE  Abstract!Refresh /\ RegInv'
<1>1. /\ up /\ loaded /\ fate = "run" /\ loaded' /\ io_space \in [IOX -> Byte]
      /\ UNCHANGED <<maps, pmem, fate, mmio, image, loaded, dev, clock, last>>
  BY UpFacts DEF VgaUpdate, up
<1>2. /\ "vgactl" \in Names /\ "vmem" \in Names /\ LEN["vgactl"] = 8
      /\ LEN["vmem"] \in Nat /\ Pixels \in Nat /\ Pixels <= LEN["vmem"]
  BY <1>1, UpFacts, Lengths, DevicesAssumption DEF DevicesAssumption
<1>3. PICK b \in Nat : b = base("vgactl")
  BY <1>1, <1>2, UpFacts, SlotFacts
<1>4. /\ screen' = IF io_space[b + 4] # 0
                   THEN [p \in 0..(Pixels - 1) |-> io_space[base("vmem") + p]] ELSE screen
      /\ io_space' = [io_space EXCEPT ![b + 4] = 0]
  BY <1>3 DEF VgaUpdate, SYNC_OFFSET
<1>5. Ram["vgactl"] = [o \in 0..10 |-> io_space[b + o]]
  <2>1. LEN["vgactl"] + 2 = 10
    BY <1>2
  <2> QED
    BY <1>1, <1>3, <2>1, RamFacts
<1>6. Ram["vmem"] = [o \in 0..(LEN["vmem"] + 2) |-> io_space[base("vmem") + o]]
  BY <1>1, RamFacts
<1>7. screen' = IF Ram["vgactl"][4] # 0
                THEN [p \in 0..(Pixels - 1) |-> Ram["vmem"][p]] ELSE screen
  <2>1. Ram["vgactl"][4] = io_space[b + 4]
    BY <1>5
  <2>2. \A p \in 0..(Pixels - 1) : Ram["vmem"][p] = io_space[base("vmem") + p]
    BY <1>2, <1>6
  <2> QED
    BY <1>4, <2>1, <2>2
<1>8. Within(io_space, io_space', base("vgactl"), base("vgactl") + LEN["vgactl"] + 2)
  <2>1. b + 4 \in b..(b + 8 + 2)
    OBVIOUS
  <2> QED
    BY <1>1, <1>2, <1>3, <1>4, <2>1 DEF Within
<1>9. Ram'["vmem"] = Ram["vmem"]
  <2>1. \A o \in 0..(LEN["vmem"] + 2) : io_space'[base("vmem") + o] = io_space[base("vmem") + o]
    BY <1>1, <1>2, <1>8, OthersSame
  <2>2. Ram'["vmem"] = [o \in 0..(LEN["vmem"] + 2) |-> io_space'[base("vmem") + o]]
    BY <1>1, RamFacts
  <2> QED
    BY <1>6, <2>1, <2>2
<1>10. Ram'["vgactl"] = [Ram["vgactl"] EXCEPT ![4] = 0]
  <2>1. Ram'["vgactl"] = [o \in 0..10 |-> io_space'[b + o]]
    <3>1. LEN["vgactl"] + 2 = 10
      BY <1>2
    <3> QED
      BY <1>1, <1>3, <3>1, RamFacts
  <2>2. ASSUME NEW o \in 0..10
        PROVE  io_space'[b + o] = IF o = 4 THEN 0 ELSE io_space[b + o]
    <3>1. o \in Nat /\ o <= LEN["vgactl"] + 2 /\ (b + o = b + 4 <=> o = 4)
      BY <1>2
    <3>2. b + o \in DOMAIN io_space
      BY <1>1, <1>2, <1>3, <3>1, InSpace
    <3> QED
      BY <1>4, <3>1, <3>2
  <2> QED
    BY <1>5, <2>1, <2>2
<1>11. Ram' = [Ram EXCEPT !["vgactl"][4] = 0]
  <2>1. PICK f : f = [Ram EXCEPT !["vgactl"][4] = 0]
    OBVIOUS
  <2>2. f = [e \in Memories |-> f[e]]
    BY <2>1, RamFacts
  <2>3. \A e \in Memories : Ram'[e] = f[e]
    BY <1>1, <1>9, <1>10, <2>1, RamFacts DEF Memories
  <2> QED
    BY <2>1, <2>2, <2>3, SameRam
<1>12. Registers' = Registers
  BY <1>1, RegistersSame
<1>13. Abstract!Refresh
  BY <1>1, <1>7, <1>11, <1>12, Zenon DEF Abstract!Refresh
<1>14. RegInv'
  BY <1>1, <1>2, <1>8, AccessRegInv
<1> QED
  BY <1>13, <1>14

\* A key pressed.
LEMMA SendKeyMaps ==
  ASSUME Inv, SendKey
  PROVE  Abstract!Key /\ RegInv'
<1>1. /\ up /\ UNCHANGED <<maps, io_space, pmem, fate, mmio, image, loaded, clock, screen, last>>
      /\ dev \in Statics
  BY UpFacts DEF SendKey, bus
<1>2. PICK k \in KeyCodes : dev' = [dev EXCEPT !.keys = Append(@, k)]
  BY DEF SendKey
<1>3. PICK v : v = Append(dev.keys, k)
  OBVIOUS
<1>4. dev' = [dev EXCEPT !.keys = v]
  BY <1>2, <1>3
<1>5. /\ Registers' = [Registers EXCEPT !.keys = v]
      /\ dev'.ctrl = dev.ctrl /\ dev'.intr_nr = dev.intr_nr
  BY <1>1, <1>4, KeysUpdated
<1>6. Registers' = [Registers EXCEPT !.keys = Append(@, k)]
  BY <1>3, <1>5 DEF Registers
<1>7. Ram' = Ram
  BY <1>1, RamSame
<1>8. Abstract!Key
  BY <1>1, <1>6, <1>7, Zenon DEF Abstract!Key
<1> QED
  BY <1>1, <1>5, <1>8, KeepsRegInv

\* Time passes, or does not.
LEMMA TickMaps ==
  ASSUME Inv, Tick
  PROVE  [Abstract!Tick]_(Abstract!vars) /\ RegInv'
<1>1. /\ up /\ UNCHANGED <<maps, io_space, pmem, fate, mmio, image, loaded, dev, screen, last>>
  BY DEF Tick, bus
<1>2. PICK t \in Nat : clock' = clock + t
  BY DevicesAssumption DEF Tick, DevicesAssumption
<1>3. clock \in Nat
  BY <1>1, UpFacts DEF TypeInv
<1>4. Ram' = Ram /\ Registers' = Registers
  BY <1>1, RamSame, RegistersSame
<1>5. clock' = clock \/ (clock' \in Nat /\ clock' > clock)
  BY <1>2, <1>3
<1>6. [Abstract!Tick]_(Abstract!vars)
  BY <1>1, <1>4, <1>5, Zenon DEF Abstract!Tick, Abstract!vars
<1> QED
  BY <1>1, <1>6, KeepsRegInv

\* Every step is a step of Peripherals or none, and keeps the copies right.
LEMMA NextMaps ==
  ASSUME Inv, [Next]_vars
  PROVE  [Abstract!Next]_(Abstract!vars) /\ RegInv'
<1>1. MapInv /\ TypeInv /\ StartInv /\ RegInv /\ Sums
  BY DEF Inv, StartInv
<1>2. CASE InitDevice
  <2>1. UNCHANGED Abstract!vars
    BY <1>1, <1>2, InitDeviceMaps
  <2>2. ~ up'
    BY <1>1, <1>2 DEF InitDevice, up, TypeInv
  <2> QED
    BY <2>1, <2>2 DEF RegInv
<1>3. CASE InitDeviceFails
  <2>1. Abstract!BootFails
    BY <1>1, <1>3, InitDeviceFailsMaps
  <2>2. ~ up'
    BY <1>3 DEF InitDeviceFails, up
  <2> QED
    BY <2>1, <2>2 DEF RegInv, Abstract!Next
<1>4. CASE LoadImage
  <2>1. Abstract!PowerOn \/ Abstract!BootFails
    BY <1>1, <1>4, LoadImageMaps
  <2>2. RegInv'
    BY <1>1, <1>4, LoadImageRegInv
  <2> QED
    BY <2>1, <2>2 DEF Abstract!Next
<1>5. CASE Access
  BY <1>5, AccessMaps
<1>6. CASE VgaUpdate
  BY <1>6, VgaUpdateMaps DEF Abstract!Next
<1>7. CASE SendKey
  BY <1>7, SendKeyMaps DEF Abstract!Next
<1>8. CASE Tick
  BY <1>8, TickMaps DEF Abstract!Next
<1>9. CASE UNCHANGED vars
  <2>1. UNCHANGED <<maps, io_space, pmem, fate, mmio, image, loaded, dev, clock, screen, last>>
    BY <1>9 DEF vars, bus
  <2>2. Ram' = Ram /\ Registers' = Registers
    BY <2>1, RamSame, RegistersSame
  <2>3. UNCHANGED Abstract!vars
    BY <2>1, <2>2 DEF Abstract!vars
  <2>4. CASE up
    BY <2>1, <2>3, <2>4, KeepsRegInv
  <2>5. CASE ~ up
    <3>1. ~ up'
      BY <2>1, <2>5 DEF up
    <3> QED
      BY <2>3, <3>1 DEF RegInv
  <2> QED
    BY <2>4, <2>5
<1> QED
  BY <1>2, <1>3, <1>4, <1>5, <1>6, <1>7, <1>8, <1>9 DEF Next

\* Together they are inductive.
LEMMA Invariance == Spec => []Inv
<1>1. Init => Inv
  <2> SUFFICES ASSUME Init PROVE Inv
    OBVIOUS
  <2>1. MapInv /\ TypeInv /\ StartInv
    BY InitMapInv, InitTypeInv, InitStartInv
  <2>2. ~ up
    BY DEF Init, up
  <2> QED
    BY <2>1, <2>2 DEF Inv, RegInv
<1>2. Inv /\ [Next]_vars => Inv'
  <2> SUFFICES ASSUME Inv, [Next]_vars PROVE Inv'
    OBVIOUS
  <2>1. MapInv /\ TypeInv /\ StartInv
    BY DEF Inv
  <2>2. MapInv' /\ TypeInv' /\ StartInv'
    BY <2>1, NextMapInv, NextTypeInv, NextKeepsStartInv
  <2>3. RegInv'
    BY NextMaps
  <2> QED
    BY <2>2, <2>3 DEF Inv
<1> QED
  BY <1>1, <1>2, PTL DEF Spec

\* Through maps, spaces, callbacks and latched copies the guest sees the
\* registers and memories of module Peripherals, for any layout, page size,
\* byte width, set of accesses and step of the clock.
THEOREM PeripheralsImplemented == Spec => ImplementsPeripherals
<1>1. Init => Abstract!Init
  BY InitMaps
<1>2. Inv /\ [Next]_vars => [Abstract!Next]_(Abstract!vars)
  BY NextMaps
<1>3. Spec => Abstract!Spec
  BY <1>1, <1>2, Invariance, PTL DEF Spec, Abstract!Spec
<1> QED
  BY <1>3 DEF ImplementsPeripherals
=============================================================================
