--------------------------- MODULE DevicesProofs ---------------------------
(***************************************************************************)
(* Proofs about Devices: registered ranges share neither addresses nor     *)
(* pages, an access changes bytes of the range it names only, although     *)
(* nobody checks where the access ends, and every handler and access keeps *)
(* the types.                                                              *)
(***************************************************************************)
EXTENDS Devices, HostMemProofs, SequenceTheorems, TLAPS

Maps == [name : Names, low : Int, high : Int, space : Int]
IOX == 0..(IO_SPACE_MAX - 1)
End(i) == maps[i].space + page_round(LEN[maps[i].name])

\* What new_space and add_mmio_map keep true: ranges are registered in the
\* order of init_device, spaces lie one behind the other.
Registered ==
  /\ maps \in Seq(Maps)
  /\ mmio \in [Names -> Int] /\ Len(maps) <= Len(Boot)
  /\ \A i \in 1..Len(maps) : maps[i].high = maps[i].low + LEN[maps[i].name] - 1
Stacked ==
  /\ p_space \in Nat /\ p_space < IO_SPACE_MAX
  /\ \A i \in 1..Len(maps) : maps[i].space >= 0 /\ End(i) <= p_space
  /\ \A i \in 1..Len(maps) : \A j \in 1..Len(maps) : i < j => End(i) <= maps[j].space
Apart ==
  \A i \in 1..Len(maps) : \A j \in 1..Len(maps) : i < j =>
    maps[i].high < maps[j].low \/ maps[j].high < maps[i].low

MapInv == Registered /\ Stacked /\ Apart

\* The lengths of the ranges.
LEMMA Lengths ==
  /\ \A d \in Names : LEN[d] \in Nat /\ LEN[d] > 0
  /\ LEN["serial"] = 20 /\ LEN["rtc"] = 12 /\ LEN["vgactl"] = 8
  /\ LEN["keyboard"] = 16
<1>1. LEN \in [Names -> Nat \ {0}]
  BY DevicesAssumption DEF DevicesAssumption
<1> QED
  BY <1>1, DevicesAssumption DEF DevicesAssumption

\* Whole pages are at least as long as what they are for.
LEMMA RoundIsNat ==
  ASSUME NEW len \in Nat
  PROVE  page_round(len) \in Nat
<1>1. PAGE_SIZE \in Nat /\ PAGE_SIZE > 0
  BY BusAssumption DEF BusAssumption
<1>2. (len + PAGE_SIZE - 1) \div PAGE_SIZE \in Nat
  BY <1>1, SMTT(30)
<1> QED
  BY <1>1, <1>2 DEF page_round

\* No map is registered initially.
LEMMA InitMapInv == Init => MapInv
<1> SUFFICES ASSUME Init PROVE MapInv
  OBVIOUS
<1>1. maps = <<>> /\ p_space = 0 /\ IO_SPACE_MAX > 0
  BY BusAssumption DEF BusAssumption, Init, BusInit
<1>2. mmio \in [Names -> Int]
  <2>1. PICK m \in Machines : mmio = m.mmio
    BY DEF Init
  <2>2. m.mmio \in [Names -> Address]
    BY DevicesAssumption DEF DevicesAssumption
  <2>3. Address \subseteq Int
    BY BusAssumption DEF BusAssumption, Address
  <2> QED
    BY <2>1, <2>2, <2>3
<1> QED
  BY <1>1, <1>2 DEF MapInv, Registered, Stacked, Apart

\* A range that passed the overlap test lies on one side of each of the others.
LEMMA NewMapKeepsInv ==
  ASSUME MapInv, NEW d \in Names, NewMap(d, mmio[d], LEN[d]), UNCHANGED mmio,
         Len(maps) < Len(Boot)
  PROVE  MapInv'
<1>a. PICK m : m = [name |-> d, low |-> mmio[d], high |-> mmio[d] + LEN[d] - 1,
                    space |-> p_space]
  OBVIOUS
<1>b. PICK k \in Nat : k = Len(maps)
  BY DEF MapInv, Registered
<1>c. \A i \in 1..k : maps[i] \in Maps
  BY <1>b, ElementOfSeq DEF MapInv, Registered
<1>1. mmio[d] \in Int /\ LEN[d] \in Nat /\ LEN[d] > 0 /\ page_round(LEN[d]) \in Nat
  <2>1. mmio[d] \in Int /\ LEN[d] \in Nat /\ LEN[d] > 0
    BY Lengths DEF MapInv, Registered
  <2> QED
    BY <2>1, RoundIsNat
<1>2. m \in Maps
  BY <1>1, <1>a DEF MapInv, Stacked, Maps
<1>3. maps' = Append(maps, m) /\ p_space' = p_space + page_round(LEN[d])
  BY <1>a DEF NewMap
<1>4. Len(maps') = k + 1 /\ maps'[k + 1] = m
      /\ \A i \in 1..k : maps'[i] = maps[i]
  BY <1>2, <1>3, <1>b DEF MapInv, Registered
<1>5. \A i \in 1..k + 1 : i \in 1..k \/ i = k + 1
  BY <1>4
<1>6. /\ m.name = d /\ m.low = mmio[d] /\ m.high = mmio[d] + LEN[d] - 1
      /\ m.space = p_space
  BY <1>a
<1>7. Registered'
  <2>1. maps' \in Seq(Maps)
    BY <1>2, <1>3 DEF MapInv, Registered
  <2>2. \A i \in 1..k + 1 : maps'[i].high = maps'[i].low + LEN[maps'[i].name] - 1
    BY <1>4, <1>5, <1>6, <1>b DEF MapInv, Registered
  <2> QED
    BY <1>4, <1>b, <2>1, <2>2 DEF MapInv, Registered
<1>8. Stacked'
  <2>1. p_space' \in Nat /\ p_space' < IO_SPACE_MAX
    BY <1>1, <1>3 DEF MapInv, Stacked, NewMap, CanAdd
  <2>2. \A i \in 1..k : End(i)' = End(i) /\ maps'[i].space = maps[i].space
    BY <1>4 DEF End
  <2>3. End(k + 1)' = p_space' /\ maps'[k + 1].space = p_space
    BY <1>3, <1>4, <1>6 DEF End
  <2>4. \A i \in 1..k : maps[i].space >= 0 /\ End(i) <= p_space
    BY <1>b DEF MapInv, Stacked
  <2>5. \A i \in 1..k : maps[i].space \in Int /\ End(i) \in Int
    <3> SUFFICES ASSUME NEW i \in 1..k PROVE maps[i].space \in Int /\ End(i) \in Int
      OBVIOUS
    <3>1. maps[i].name \in Names /\ maps[i].space \in Int
      BY <1>c DEF Maps
    <3>2. LEN[maps[i].name] \in Nat
      BY <3>1, DevicesAssumption DEF DevicesAssumption
    <3>3. page_round(LEN[maps[i].name]) \in Nat
      BY <3>2, RoundIsNat
    <3> QED
      BY <3>1, <3>3 DEF End
  <2>6. \A i \in 1..k + 1 : maps'[i].space >= 0 /\ End(i)' <= p_space'
    <3>1. p_space \in Nat
      BY DEF MapInv, Stacked
    <3>2. ASSUME NEW i \in 1..k
          PROVE  maps'[i].space >= 0 /\ End(i)' <= p_space'
      <4>1. End(i)' = End(i) /\ maps'[i].space = maps[i].space
        BY <2>2
      <4>2. End(i) \in Int /\ End(i) <= p_space /\ maps[i].space >= 0
        BY <2>4, <2>5
      <4>3. p_space <= p_space'
        BY <1>1, <1>3, <3>1
      <4>4. p_space \in Int /\ p_space' \in Int
        BY <2>1, <3>1
      <4> QED
        BY <4>1, <4>2, <4>3, <4>4
    <3>3. maps'[k + 1].space >= 0 /\ End(k + 1)' <= p_space'
      BY <1>1, <1>3, <2>3, <3>1
    <3> QED
      BY <1>5, <3>2, <3>3
  <2>7. \A i \in 1..k + 1 : \A j \in 1..k + 1 : i < j => End(i)' <= maps'[j].space
    <3>1. \A i \in 1..k : \A j \in 1..k : i < j => End(i) <= maps[j].space
      BY <1>b DEF MapInv, Stacked
    <3> QED
      BY <1>5, <2>2, <2>3, <2>4, <3>1
  <2> QED
    BY <1>4, <2>1, <2>6, <2>7 DEF Stacked
<1>9. Apart'
  <2>1. \A i \in 1..k : maps[i].high < m.low \/ m.high < maps[i].low
    <3> SUFFICES ASSUME NEW i \in 1..k
                 PROVE  maps[i].high < m.low \/ m.high < maps[i].low
      OBVIOUS
    <3>1. ~ (mmio[d] <= maps[i].high /\ mmio[d] + LEN[d] - 1 >= maps[i].low)
      <4>1. i \in DOMAIN maps
        BY <1>b DEF MapInv, Registered
      <4> QED
        BY <4>1 DEF NewMap, CanAdd, Overlaps
    <3>2. maps[i].low \in Int /\ maps[i].high \in Int
      BY <1>c DEF Maps
    <3> QED
      BY <1>1, <1>6, <3>1, <3>2, SMTT(30)
  <2>2. \A i \in 1..k + 1 : \A j \in 1..k + 1 : i < j =>
          maps'[i].high < maps'[j].low \/ maps'[j].high < maps'[i].low
    BY <1>4, <1>5, <1>b, <2>1 DEF MapInv, Apart
  <2> QED
    BY <1>4, <2>2 DEF Apart
<1> QED
  BY <1>7, <1>8, <1>9 DEF MapInv

\* A step that registers nothing.
LEMMA OthersKeepMaps ==
  (Access \/ VgaUpdate \/ SendKey \/ Tick \/ LoadImage \/ InitDeviceFails
   \/ UNCHANGED vars) => UNCHANGED <<maps, p_space, mmio>>
BY DEF Access, VgaUpdate, SendKey, Tick, LoadImage, InitDeviceFails, vars, bus

\* Only InitDevice changes them.
LEMMA NextMapInv == MapInv /\ [Next]_vars => MapInv'
<1> SUFFICES ASSUME MapInv, [Next]_vars PROVE MapInv'
  OBVIOUS
<1>1. CASE InitDevice
  <2> DEFINE d == Boot[Len(maps) + 1]
  <2>1. Len(maps) + 1 \in DOMAIN Boot /\ Len(maps) < Len(Boot)
    <3>1. Boot \in Seq(Names) /\ Len(maps) <= Len(Boot) /\ maps \in Seq(Maps)
      BY DevicesAssumption DEF DevicesAssumption, MapInv, Registered
    <3>2. Len(maps) # Len(Boot)
      BY <1>1 DEF InitDevice, booted
    <3> QED
      BY <3>1, <3>2
  <2>2. d \in Names
    BY <2>1 DEF Names
  <2> QED
    BY <1>1, <2>1, <2>2, NewMapKeepsInv DEF InitDevice
<1>2. CASE ~ InitDevice
  <2>1. UNCHANGED <<maps, p_space, mmio>>
    BY <1>2, OthersKeepMaps DEF Next
  <2> QED
    BY <2>1 DEF MapInv, Registered, Stacked, Apart, End
<1> QED
  BY <1>1, <1>2

\* Every registered range: its types, and where its space ends.
LEMMA RangeFacts ==
  ASSUME MapInv, NEW i \in DOMAIN maps
  PROVE  /\ maps[i].name \in Names /\ LEN[maps[i].name] \in Nat
         /\ LEN[maps[i].name] + 3 <= page_round(LEN[maps[i].name])
         /\ maps[i].low \in Int /\ maps[i].high \in Int
         /\ maps[i].high = maps[i].low + LEN[maps[i].name] - 1
         /\ maps[i].space \in Nat /\ page_round(LEN[maps[i].name]) \in Nat
         /\ maps[i].space + page_round(LEN[maps[i].name]) <= IO_SPACE_MAX
         /\ i \in 1..Len(maps)
<1>1. maps \in Seq(Maps) /\ i \in 1..Len(maps)
  BY DEF MapInv, Registered
<1>2. maps[i] \in Maps
  BY <1>1, ElementOfSeq
<1>3. /\ maps[i].name \in Names /\ maps[i].low \in Int /\ maps[i].space \in Int
      /\ maps[i].high \in Int
  BY <1>2 DEF Maps
<1>4. LEN[maps[i].name] \in Nat
  BY <1>3, DevicesAssumption DEF DevicesAssumption
<1>5. page_round(LEN[maps[i].name]) \in Nat
  BY <1>4, RoundIsNat
<1>6. LEN[maps[i].name] + 3 <= page_round(LEN[maps[i].name])
  BY <1>3, SlackAssumption
<1>7. maps[i].space >= 0 /\ End(i) <= p_space
  BY <1>1 DEF MapInv, Stacked
<1>8. p_space \in Nat /\ p_space < IO_SPACE_MAX /\ IO_SPACE_MAX \in Nat
  BY BusAssumption DEF BusAssumption, MapInv, Stacked
<1>9. maps[i].high = maps[i].low + LEN[maps[i].name] - 1
  BY <1>1 DEF MapInv, Registered
<1> QED
  BY <1>1, <1>3, <1>4, <1>5, <1>6, <1>7, <1>8, <1>9, SMTT(30) DEF End

\* The pages of two ranges share no byte of io_space.
LEMMA SpacesApart ==
  ASSUME MapInv, NEW i \in DOMAIN maps, NEW j \in DOMAIN maps, i # j
  PROVE  \A x \in Spaces(i) : x \notin Spaces(j)
<1>1. /\ i \in 1..Len(maps) /\ maps[i].space \in Nat
      /\ page_round(LEN[maps[i].name]) \in Nat
  BY RangeFacts
<1>2. /\ j \in 1..Len(maps) /\ maps[j].space \in Nat
      /\ page_round(LEN[maps[j].name]) \in Nat
  BY RangeFacts
<1>3. CASE i < j
  <2>1. End(i) <= maps[j].space
    BY <1>1, <1>2, <1>3 DEF MapInv, Stacked
  <2> QED
    BY <1>1, <1>2, <2>1, SMTT(30) DEF End, Spaces
<1>4. CASE j < i
  <2>1. End(j) <= maps[i].space
    BY <1>1, <1>2, <1>4 DEF MapInv, Stacked
  <2> QED
    BY <1>1, <1>2, <2>1, SMTT(30) DEF End, Spaces
<1>5. i < j \/ j < i
  BY <1>1, <1>2
<1> QED
  BY <1>3, <1>4, <1>5

\* Ordered ranges and stacked spaces are disjoint.
LEMMA MapInvImpliesDisjoint == MapInv => MapsDisjoint
<1> SUFFICES ASSUME MapInv, NEW i \in DOMAIN maps, NEW j \in DOMAIN maps, i # j
             PROVE  /\ maps[i].low..maps[i].high \cap maps[j].low..maps[j].high = {}
                    /\ Spaces(i) \cap Spaces(j) = {}
  BY DEF MapsDisjoint
<1>1. Spaces(i) \cap Spaces(j) = {}
  BY SpacesApart
<1>2. /\ i \in 1..Len(maps) /\ maps[i].low \in Int /\ maps[i].high \in Int
      /\ j \in 1..Len(maps) /\ maps[j].low \in Int /\ maps[j].high \in Int
  BY RangeFacts
<1>3. maps[i].high < maps[j].low \/ maps[j].high < maps[i].low
  <2>1. i < j \/ j < i
    BY <1>2
  <2> QED
    BY <1>2, <2>1 DEF MapInv, Apart
<1>4. maps[i].low..maps[i].high \cap maps[j].low..maps[j].high = {}
  BY <1>2, <1>3
<1> QED
  BY <1>1, <1>4

\* No layout makes two registered ranges share an address or a page: the
\* overlap test of add_mmio_map and the rounding of new_space suffice, for any
\* page size, any address space and any lengths.
THEOREM RangesDisjoint == Spec => []MapsDisjoint
<1>1. Spec => []MapInv
  BY InitMapInv, NextMapInv, PTL DEF Spec
<1> QED
  BY <1>1, MapInvImpliesDisjoint, PTL
-----------------------------------------------------------------------------
\* t is s but for the bytes from lo to hi.
Within(s, t, lo, hi) ==
  DOMAIN t = DOMAIN s /\ \A x \in DOMAIN s : x \notin lo..hi => t[x] = s[x]

\* A write changes the bytes that it is for.
LEMMA WriteWithin ==
  ASSUME NEW s, NEW at \in Int, NEW len \in Nat, NEW data, NEW lo \in Int, NEW hi \in Int,
         lo <= at, at + len - 1 <= hi
  PROVE  Within(s, host_write(s, at, len, data), lo, hi)
<1>1. DOMAIN host_write(s, at, len, data) = DOMAIN s
  BY DEF host_write
<1>2. ASSUME NEW x \in DOMAIN s, x \notin lo..hi
      PROVE  host_write(s, at, len, data)[x] = s[x]
  <2>1. x \notin at..(at + len - 1)
    BY <1>2
  <2> QED
    BY <2>1 DEF host_write
<1> QED
  BY <1>1, <1>2 DEF Within

\* An update of one byte changes that byte.
LEMMA ExceptWithin ==
  ASSUME NEW s, NEW at \in Int, NEW v, NEW lo \in Int, NEW hi \in Int, lo <= at, at <= hi
  PROVE  Within(s, [s EXCEPT ![at] = v], lo, hi)
BY DEF Within

\* No change is within any bounds.
LEMMA SameWithin ==
  ASSUME NEW s, NEW lo, NEW hi
  PROVE  Within(s, s, lo, hi)
BY DEF Within

\* Neither are two changes beyond the bounds of both.
LEMMA WithinTrans ==
  ASSUME NEW s, NEW t, NEW u, NEW lo, NEW hi, Within(s, t, lo, hi), Within(t, u, lo, hi)
  PROVE  Within(s, u, lo, hi)
BY DEF Within

\* A handler writes its own registers, if anything.
LEMMA HandlersWithin ==
  ASSUME NEW map, NEW offset, NEW is_write, NEW s,
         map.name \in Names, map.space \in Nat,
         invoke_callback(map, offset, is_write, s)
  PROVE  Within(s, io_space', map.space, map.space + LEN[map.name] + 2)
<1> DEFINE b == map.space
           hi == b + LEN[map.name] + 2
<1>1. b \in Int /\ hi \in Int /\ LEN[map.name] \in Nat
  BY Lengths
<1>2. CASE io_space' = s
  BY <1>2, SameWithin
<1>3. CASE /\ map.name = "serial" /\ serial_io_handler(b, offset, is_write, s)
           /\ io_space' # s
  <2>1. hi = b + 22
    BY <1>3, Lengths
  <2>2. \/ \E v : io_space' = [s EXCEPT ![b + 16] = v]
        \/ \E v : io_space' = host_write(s, b, 4, v)
        \/ \E v : io_space' = host_write(s, b + 4, 4, v)
    BY <1>3 DEF serial_io_handler, Return, Abort, RX_OFFSET, STATUS_OFFSET
  <2> HIDE DEF b, hi
  <2>3. \A k \in {0, 4} : \A v : Within(s, host_write(s, b + k, 4, v), b, hi)
    BY <1>1, <2>1, WriteWithin
  <2>4. \A v : Within(s, [s EXCEPT ![b + 16] = v], b, hi)
    <3>1. b + 16 \in Int /\ b <= b + 16 /\ b + 16 <= hi
      BY <1>1, <2>1
    <3> QED
      BY <1>1, <3>1, ExceptWithin, Zenon
  <2>5. Within(s, io_space', b, hi)
    <3>1. b + 0 = b
      BY <1>1
    <3> QED
      BY <2>2, <2>3, <2>4, <3>1
  <2> QED
    BY <2>5 DEF b, hi
<1>4. CASE /\ map.name = "rtc" /\ rtc_io_handler(b, offset, is_write, s)
           /\ io_space' # s
  <2>1. hi = b + 14
    BY <1>4, Lengths
  <2>2. \/ \E v : io_space' = host_write(s, b, 4, v)
        \/ \E v : io_space' = host_write(s, b + 4, 4, v)
        \/ \E v : io_space' = host_write(s, b + 8, 4, v)
    BY <1>4 DEF rtc_io_handler, Return, Abort, UPTIME_OFFSET, INTR_OFFSET
  <2> HIDE DEF b, hi
  <2>3. \A k \in {0, 4, 8} : \A v : Within(s, host_write(s, b + k, 4, v), b, hi)
    BY <1>1, <2>1, WriteWithin
  <2>4. Within(s, io_space', b, hi)
    <3>1. b + 0 = b
      BY <1>1
    <3> QED
      BY <2>2, <2>3, <3>1
  <2> QED
    BY <2>4 DEF b, hi
<1>5. CASE /\ map.name = "keyboard" /\ i8042_data_io_handler(b, offset, is_write, s)
           /\ io_space' # s
  <2>1. hi = b + 18
    BY <1>5, Lengths
  <2>2. \E v : io_space' = host_write(s, b + 4, 4, v)
    BY <1>5 DEF i8042_data_io_handler, Return, Abort
  <2> HIDE DEF b, hi
  <2>3. Within(s, io_space', b, hi)
    BY <1>1, <2>1, <2>2, WriteWithin
  <2> QED
    BY <2>3 DEF b, hi
<1> QED
  BY <1>2, <1>3, <1>4, <1>5 DEF invoke_callback, Return

\* The map found for an address is one around it.
LEMMA FindFact ==
  ASSUME MapInv, NEW addr \in Int, NEW i0, i0 = find_mapid_by_addr(addr), i0 # 0
  PROVE  i0 \in DOMAIN maps /\ map_inside(maps[i0], addr)
<1>1. PICK j \in DOMAIN maps : map_inside(maps[j], addr)
  BY DEF find_mapid_by_addr
<1>2. ASSUME NEW k \in 1..(j - 1), map_inside(maps[k], addr)
      PROVE  FALSE
  <2>1. j \in 1..Len(maps)
    BY RangeFacts
  <2>2. k \in DOMAIN maps /\ k # j
    BY <2>1 DEF MapInv, Registered
  <2> QED
    BY <1>1, <1>2, <2>2, MapInvImpliesDisjoint DEF MapsDisjoint, map_inside
<1> QED
  BY <1>1, <1>2 DEF find_mapid_by_addr

\* A change within the range at addr, and the 3 bytes behind it, is none of
\* another range's.
Isolated(addr) ==
  \A i \in DOMAIN maps :
    map_inside(maps[i], addr) \/ \A x \in Spaces(i) : io_space'[x] = io_space[x]

\* What stays within a range and its slack leaves the other spaces.
LEMMA WithinIsolated ==
  ASSUME MapInv, DOMAIN io_space = IOX, NEW addr \in Int, NEW i0 \in DOMAIN maps,
         map_inside(maps[i0], addr),
         Within(io_space, io_space', maps[i0].space,
                maps[i0].space + LEN[maps[i0].name] + 2)
  PROVE  Isolated(addr)
<1> SUFFICES ASSUME NEW i \in DOMAIN maps, i # i0, NEW x \in Spaces(i)
             PROVE  io_space'[x] = io_space[x]
  BY DEF Isolated
<1>1. /\ maps[i].space \in Nat /\ page_round(LEN[maps[i].name]) \in Nat
      /\ maps[i].space + page_round(LEN[maps[i].name]) <= IO_SPACE_MAX
  BY RangeFacts
<1>2. IO_SPACE_MAX \in Nat
  BY BusAssumption DEF BusAssumption
<1>3. x \in DOMAIN io_space
  BY <1>1, <1>2 DEF Spaces, IOX
<1>4. x \notin Spaces(i0)
  BY SpacesApart
<1>5. /\ maps[i0].space \in Nat /\ LEN[maps[i0].name] \in Nat
      /\ page_round(LEN[maps[i0].name]) \in Nat
      /\ LEN[maps[i0].name] + 3 <= page_round(LEN[maps[i0].name])
  BY RangeFacts
<1>6. x \in Int
  BY <1>1 DEF Spaces
<1>7. x \notin maps[i0].space..(maps[i0].space + LEN[maps[i0].name] + 2)
  BY <1>4, <1>5, <1>6 DEF Spaces
<1> QED
  BY <1>3, <1>7 DEF Within

\* Every access records the address it was made at.
LEMMA RecordAddr ==
  ASSUME NEW op, NEW addr, NEW len, NEW val, Record(op, addr, len, val)
  PROVE  last'.addr = addr
BY DEF Record

\* A read or a write through the map found for addr.
LEMMA MmioWithin ==
  ASSUME MapInv, NEW addr \in Int, NEW len \in Lens, NEW i0 \in DOMAIN maps,
         map_inside(maps[i0], addr),
         \/ map_read(addr, len, maps[i0])
         \/ \E data \in Data : map_write(addr, len, data, maps[i0])
  PROVE  Within(io_space, io_space', maps[i0].space,
                maps[i0].space + LEN[maps[i0].name] + 2)
<1>1. /\ maps[i0].name \in Names /\ LEN[maps[i0].name] \in Nat
      /\ maps[i0].space \in Nat /\ maps[i0].low \in Int /\ maps[i0].high \in Int
      /\ maps[i0].high = maps[i0].low + LEN[maps[i0].name] - 1
  BY RangeFacts
<1>2. PICK b, hi, off : /\ b = maps[i0].space /\ hi = b + LEN[maps[i0].name] + 2
                        /\ off = addr - maps[i0].low
  OBVIOUS
<1>3. b \in Int /\ hi \in Int /\ b + off \in Int /\ b <= b + off
      /\ b + off + len - 1 <= hi /\ len \in Nat
  <2>1. addr >= maps[i0].low /\ addr <= maps[i0].high
    BY <1>1 DEF map_inside
  <2>2. len \in Nat /\ len <= 4
    BY DEF Lens
  <2> QED
    BY <1>1, <1>2, <2>1, <2>2
<1>4. CASE map_read(addr, len, maps[i0])
  <2>1. invoke_callback(maps[i0], off, FALSE, io_space)
    BY <1>2, <1>4 DEF map_read
  <2> QED
    BY <1>1, <2>1, HandlersWithin
<1>5. ASSUME NEW data \in Data, map_write(addr, len, data, maps[i0])
      PROVE  Within(io_space, io_space', b, hi)
  <2>1. PICK s : s = host_write(io_space, b + off, len, data)
    OBVIOUS
  <2>2. invoke_callback(maps[i0], off, TRUE, s)
    BY <1>2, <1>5, <2>1 DEF map_write
  <2>3. Within(io_space, s, b, hi)
    BY <1>3, <2>1, WriteWithin
  <2>4. Within(s, io_space', b, hi)
    BY <1>1, <1>2, <2>2, HandlersWithin
  <2> QED
    BY <2>3, <2>4, WithinTrans
<1> QED
  BY <1>2, <1>4, <1>5

\* An access changes one space.
LEMMA AccessIsolated ==
  ASSUME MapInv, DOMAIN io_space = IOX, Access
  PROVE  DOMAIN io_space' = IOX /\ Isolated(last'.addr)
<1>1. PICK addr \in Probes, len \in Lens :
        \/ Refused(addr, len) \/ Overrun(addr, len)
        \/ pmem_read(addr, len) \/ mmio_read(addr, len)
        \/ \E data \in Data : pmem_write(addr, len, data) \/ mmio_write(addr, len, data)
  BY DEF Access
<1>2. addr \in Int
  BY DevicesAssumption, BusAssumption DEF DevicesAssumption, BusAssumption, Address
<1>3. last'.addr = addr
  BY <1>1, RecordAddr DEF Refused, Overrun, pmem_read, pmem_write, mmio_read, mmio_write,
       map_read, map_write
<1>4. CASE UNCHANGED io_space
  BY <1>4 DEF Isolated
<1>5. CASE mmio_read(addr, len) \/ \E data \in Data : mmio_write(addr, len, data)
  <2>1. PICK i0 : i0 = find_mapid_by_addr(addr)
    OBVIOUS
  <2>2. i0 # 0 /\ (\/ map_read(addr, len, maps[i0])
                   \/ \E data \in Data : map_write(addr, len, data, maps[i0]))
    BY <1>5, <2>1 DEF mmio_read, mmio_write
  <2>3. i0 \in DOMAIN maps /\ map_inside(maps[i0], addr)
    BY <1>2, <2>1, <2>2, FindFact
  <2>4. Within(io_space, io_space', maps[i0].space,
               maps[i0].space + LEN[maps[i0].name] + 2)
    BY <1>2, <2>2, <2>3, MmioWithin
  <2>5. Isolated(addr)
    BY <1>2, <2>3, <2>4, WithinIsolated
  <2> QED
    BY <1>3, <2>4, <2>5 DEF Within
<1> QED
  BY <1>1, <1>4, <1>5 DEF Refused, Overrun, pmem_read, pmem_write

IOInv == DOMAIN io_space = IOX

\* io_space keeps its size: initially ...
LEMMA InitIOInv == Init => IOInv
BY DEF Init, BusInit, IOInv, IOX

\* ... and in every step.
LEMMA NextIOInv == MapInv /\ IOInv /\ [Next]_vars => IOInv'
<1> SUFFICES ASSUME MapInv, IOInv, [Next]_vars PROVE IOInv'
  OBVIOUS
<1>1. CASE InitDevice
  BY <1>1 DEF InitDevice, init_vga, IOInv, IOX, host_write
<1>2. CASE Access
  BY <1>2, AccessIsolated DEF IOInv, IOX
<1>3. CASE VgaUpdate
  BY <1>3 DEF VgaUpdate, IOInv, IOX
<1>4. CASE InitDeviceFails \/ LoadImage \/ SendKey \/ Tick \/ UNCHANGED vars
  BY <1>4 DEF InitDeviceFails, LoadImage, SendKey, Tick, vars, bus, IOInv, IOX
<1> QED
  BY <1>1, <1>2, <1>3, <1>4 DEF Next

\* Only an access counts.
LEMMA StepIsolated ==
  ASSUME MapInv, IOInv, [Next]_vars, n' # n
  PROVE  Isolated(last'.addr)
<1>1. Access
  BY DEF Next, InitDevice, InitDeviceFails, LoadImage, VgaUpdate, SendKey, Tick, vars
<1> QED
  BY <1>1, AccessIsolated DEF IOInv

\* An access that begins inside a range ends before the next one's page, though
\* map_read and map_write check where it begins only; and so do the handlers'
\* own writes.  For any layout and page size with 3 bytes to spare.
THEOREM AccessesIsolated == Spec => Isolation
<1>1. Spec => [](MapInv /\ IOInv)
  BY InitMapInv, NextMapInv, InitIOInv, NextIOInv, PTL DEF Spec
<1>2. MapInv /\ IOInv /\ [Next]_vars =>
        [n' # n => \A i \in DOMAIN maps :
           \/ map_inside(maps[i], last'.addr)
           \/ \A x \in Spaces(i) : io_space'[x] = io_space[x]]_vars
  BY StepIsolated DEF Isolated
<1> QED
  BY <1>1, <1>2, PTL DEF Spec, Isolation
-----------------------------------------------------------------------------
(* Types.                                                                  *)

Statics == [ctrl : Word, rx_ready : {0, 1}, timer_rtc : Word, intr_nr : Word,
            uart : Seq(Byte) \cup {None}, tx : Seq(Byte), keys : Seq(KeyCodes)]

\* The ranges are registered under their names, in order, where they belong.
Placed ==
  \A i \in 1..Len(maps) : maps[i].name = Boot[i] /\ maps[i].low = mmio[Boot[i]]

TypeInv ==
  /\ Placed
  /\ io_space \in [IOX -> Byte]
  /\ pmem \in [0..(MSIZE - 1) -> Byte]
  /\ fate \in {"run", "died", "wild"} /\ mmio \in {m.mmio : m \in Machines}
  /\ loaded \in BOOLEAN /\ (loaded => booted)
  /\ dev \in Statics
  /\ clock \in Nat /\ n \in 0..MaxAccess

\* 0, 1 and 2 are bytes and words, and a wrapped number is a word.
LEMMA Small ==
  /\ {0, 1, 2, BYTE - 1} \subseteq Byte /\ 0 \in Word
  /\ \A v \in Nat : v % Weight(4) \in Word
  /\ Word \subseteq Nat /\ Byte \subseteq Nat
<1>1. BYTE \in Nat /\ BYTE > 1 /\ BYTE % 4 = 0
  BY WeightFacts, DevicesAssumption DEF DevicesAssumption
<1>2. BYTE > 2
  BY <1>1
<1>3. Weight(4) \in Nat \ {0}
  BY WeightFacts
<1>4. \A v \in Nat : v % Weight(4) \in Word
  BY <1>3, DivMod DEF Word
<1> QED
  BY <1>1, <1>2, <1>3, <1>4 DEF Byte, Word

\* What a handler may put into its statics.
LEMMA StaticsUpdated ==
  ASSUME dev \in Statics
  PROVE  /\ \A v \in Word : /\ [dev EXCEPT !.ctrl = v] \in Statics
                            /\ [dev EXCEPT !.timer_rtc = v] \in Statics
                            /\ [dev EXCEPT !.intr_nr = v] \in Statics
         /\ \A v \in {0, 1} : [dev EXCEPT !.rx_ready = v] \in Statics
         /\ \A v \in Seq(Byte) : [dev EXCEPT !.tx = v] \in Statics
         /\ \A v \in Seq(Byte) \cup {None} : [dev EXCEPT !.uart = v] \in Statics
         /\ \A v \in Seq(KeyCodes) : [dev EXCEPT !.keys = v] \in Statics
BY DEF Statics

\* The types of the statics.
LEMMA StaticsTypes ==
  ASSUME dev \in Statics
  PROVE  /\ dev.ctrl \in Word /\ dev.timer_rtc \in Word /\ dev.intr_nr \in Word
         /\ dev.rx_ready \in {0, 1} /\ dev.tx \in Seq(Byte)
         /\ dev.uart \in Seq(Byte) \cup {None} /\ dev.keys \in Seq(KeyCodes)
BY DEF Statics

\* The values are typed initially.
LEMMA InitTypeInv == Init => TypeInv
<1> SUFFICES ASSUME Init PROVE TypeInv
  OBVIOUS
<1>1. PICK m \in Machines : mmio = m.mmio /\ dev = [NoDevice EXCEPT !.uart = m.uart]
  BY DEF Init
<1>2. m.uart \in Seq(Byte) \cup {None}
  BY DevicesAssumption DEF DevicesAssumption
<1>3. dev \in Statics
  <2>1. dev = [ctrl |-> 0, rx_ready |-> 0, timer_rtc |-> 0, intr_nr |-> 0,
               uart |-> m.uart, tx |-> <<>>, keys |-> <<>>]
    BY <1>1 DEF NoDevice
  <2>2. 0 \in Word /\ <<>> \in Seq(Byte) /\ <<>> \in Seq(KeyCodes)
    BY Small
  <2> QED
    BY <1>2, <2>1, <2>2 DEF Statics
<1>4. MaxAccess \in Nat
  BY DevicesAssumption DEF DevicesAssumption
<1>5. /\ io_space \in [IOX -> Byte] /\ pmem \in [0..(MSIZE - 1) -> Byte]
      /\ Placed /\ fate = "run" /\ loaded = FALSE /\ clock = 0 /\ n = 0
  BY Small DEF Init, BusInit, IOX, Placed
<1>6. /\ fate \in {"run", "died", "wild"} /\ mmio \in {x.mmio : x \in Machines}
      /\ clock \in Nat /\ n \in 0..MaxAccess
  BY <1>1, <1>4, <1>5
<1>7. loaded \in BOOLEAN /\ (loaded => booted)
  BY <1>5, Zenon
<1> QED
  BY <1>3, <1>5, <1>6, <1>7, Zenon DEF TypeInv

\* A word read from memory is a word.
LEMMA ReadIsWord ==
  ASSUME NEW X \in SUBSET Int, NEW s \in [X -> Byte], NEW at \in Int, at..(at + 3) \subseteq X
  PROVE  host_read(s, at, 4) \in Word
<1>1. \A k \in 0..3 : s[at + k] \in Byte
  OBVIOUS
<1> QED
  BY <1>1, ReadBounds DEF Lens, Word

\* Whatever a handler is called for, the types survive.
LEMMA HandlersTyped ==
  ASSUME dev \in Statics, clock \in Nat, NEW map, NEW offset, NEW is_write,
         NEW s \in [IOX -> Byte], map.space \in Nat, map.name \in Names,
         map.space + LEN[map.name] + 3 <= IO_SPACE_MAX,
         invoke_callback(map, offset, is_write, s)
  PROVE  io_space' \in [IOX -> Byte] /\ dev' \in Statics /\ fate' \in {fate, "died"}
<1>1. PICK b \in Nat : b = map.space
  OBVIOUS
<1>2. IO_SPACE_MAX \in Nat /\ IOX \in SUBSET Int
  BY BusAssumption DEF BusAssumption, IOX
<1>3. LEN["serial"] = 20 /\ LEN["rtc"] = 12 /\ LEN["keyboard"] = 16
  BY DevicesAssumption DEF DevicesAssumption
<1>4. \A k \in Nat : \A v \in Nat : host_write(s, b + k, 4, v) \in [IOX -> Byte]
  BY <1>2, WriteIsBytes DEF Lens
<1>5. \A v \in Nat : host_write(s, b, 4, v) \in [IOX -> Byte]
  <2>1. b + 0 = b
    OBVIOUS
  <2> QED
    BY <1>4, <2>1
<1>6. CASE Return(s, dev) \/ Abort(s)
  BY <1>6 DEF Return, Abort
<1>7. CASE map.name = "serial" /\ serial_io_handler(b, offset, is_write, s)
  <2>1. b + 23 <= IO_SPACE_MAX
    BY <1>1, <1>3, <1>7
  <2>2. host_read(s, b, 4) \in Word /\ host_read(s, b + 4, 4) \in Word
    <3>1. b..(b + 3) \subseteq IOX /\ (b + 4)..(b + 4 + 3) \subseteq IOX
      BY <1>2, <2>1 DEF IOX
    <3> QED
      BY <1>2, <3>1, ReadIsWord
  <2>3. (host_read(s, b + 4, 4) \div 2) % 2 \in {0, 1}
    <3>1. \A v \in Nat : (v \div 2) % 2 \in {0, 1}
      OBVIOUS
    <3> QED
      BY <2>2, <3>1, Small
  <2>4. b + 12 \in IOX /\ b + 16 \in IOX /\ s[b + 12] \in Byte
    BY <1>2, <2>1 DEF IOX
  <2>5. Append(dev.tx, s[b + 12]) \in Seq(Byte)
    BY <2>4, StaticsTypes
  <2>6. dev.uart # None => getc_narrowed \in Byte /\ Rest(dev.uart) \in Seq(Byte)
    <3>1. ASSUME NEW q \in Seq(Byte)
          PROVE  Rest(q) \in Seq(Byte) /\ (q # <<>> => Head(q) \in Byte)
      BY DEF Rest
    <3>2. dev.uart # None => dev.uart \in Seq(Byte)
      BY StaticsTypes
    <3>3. dev.uart # None => Rest(dev.uart) \in Seq(Byte)
      BY <3>1, <3>2
    <3>4. dev.uart # None /\ dev.uart # <<>> => Head(dev.uart) \in Byte
      BY <3>1, <3>2
    <3>5. BYTE - 1 \in Byte
      BY Small
    <3> QED
      BY <3>3, <3>4, <3>5, Zenon DEF getc_narrowed
  <2>7. /\ dev.ctrl \in Nat /\ 2 * dev.rx_ready \in Nat
    <3>1. dev.ctrl \in Word /\ dev.rx_ready \in {0, 1}
      BY StaticsTypes
    <3>2. \A x \in {0, 1} : 2 * x \in Nat
      OBVIOUS
    <3> QED
      BY <3>1, <3>2, Small
  <2>8. CASE /\ offset = TX_OFFSET
             /\ Return(s, [dev EXCEPT !.tx = Append(@, s[b + TX_OFFSET])])
    BY <2>8, <2>5, StaticsUpdated DEF Return, TX_OFFSET
  <2>9. CASE /\ dev.uart # None
             /\ Return([s EXCEPT ![b + RX_OFFSET] = getc_narrowed],
                       [dev EXCEPT !.uart = Rest(@)])
    BY <2>9, <2>4, <2>6, StaticsUpdated DEF Return, RX_OFFSET
  <2>10. CASE Return(s, [dev EXCEPT !.ctrl = host_read(s, b, 4)])
    BY <2>10, <2>2, StaticsUpdated DEF Return
  <2>11. CASE Return(host_write(s, b, 4, dev.ctrl), dev)
    BY <2>11, <1>5, <2>7 DEF Return
  <2>12. CASE Return(s, [dev EXCEPT !.rx_ready =
                           (host_read(s, b + STATUS_OFFSET, 4) \div 2) % 2])
    BY <2>12, <2>3, StaticsUpdated DEF Return, STATUS_OFFSET
  <2>13. CASE Return(host_write(s, b + STATUS_OFFSET, 4, 2 * dev.rx_ready), dev)
    BY <2>13, <1>4, <2>7 DEF Return, STATUS_OFFSET
  <2> QED
    BY <1>6, <1>7, <2>8, <2>9, <2>10, <2>11, <2>12, <2>13 DEF serial_io_handler
<1>8. CASE map.name = "rtc" /\ rtc_io_handler(b, offset, is_write, s)
  <2>1. b + 15 <= IO_SPACE_MAX
    BY <1>1, <1>3, <1>8
  <2>2. host_read(s, b, 4) \in Word /\ host_read(s, b + 8, 4) \in Word
    <3>1. b..(b + 3) \subseteq IOX /\ (b + 8)..(b + 8 + 3) \subseteq IOX
      BY <1>2, <2>1 DEF IOX
    <3> QED
      BY <1>2, <3>1, ReadIsWord
  <2>3. PICK now : now = (clock \div SECOND) % Weight(4)
    OBVIOUS
  <2>4. now \in Word /\ now \in Nat
    <3>1. clock \div SECOND \in Nat
      BY DivMod, DevicesAssumption DEF DevicesAssumption
    <3> QED
      BY <2>3, <3>1, Small
  <2>5. clock % Weight(4) \in Nat /\ dev.intr_nr \in Nat
    BY Small, StaticsTypes
  <2>6. CASE Return(s, [dev EXCEPT !.timer_rtc = host_read(s, b, 4)])
    BY <2>6, <2>2, StaticsUpdated DEF Return
  <2>7. CASE Return(host_write(s, b, 4, now), [dev EXCEPT !.timer_rtc = now])
    BY <2>7, <1>5, <2>4, StaticsUpdated DEF Return
  <2>8. CASE Return(host_write(s, b + UPTIME_OFFSET, 4, clock % Weight(4)), dev)
    BY <2>8, <1>4, <2>5 DEF Return, UPTIME_OFFSET
  <2>9. CASE Return(s, [dev EXCEPT !.intr_nr = host_read(s, b + INTR_OFFSET, 4)])
    BY <2>9, <2>2, StaticsUpdated DEF Return, INTR_OFFSET
  <2>10. CASE Return(host_write(s, b + INTR_OFFSET, 4, dev.intr_nr), dev)
    BY <2>10, <1>4, <2>5 DEF Return, INTR_OFFSET
  <2> QED
    BY <1>6, <1>8, <2>3, <2>6, <2>7, <2>8, <2>9, <2>10 DEF rtc_io_handler
<1>9. CASE map.name = "keyboard" /\ i8042_data_io_handler(b, offset, is_write, s)
  <2>1. PICK k : k = IF dev.keys = <<>> THEN 0 ELSE Head(dev.keys)
    OBVIOUS
  <2>2. k \in Nat /\ Rest(dev.keys) \in Seq(KeyCodes)
    BY <2>1, StaticsTypes, DevicesAssumption, SMTT(30) DEF DevicesAssumption, Rest
  <2>3. CASE Return(host_write(s, b + 4, 4, k), [dev EXCEPT !.keys = Rest(@)])
    BY <2>3, <1>4, <2>2, StaticsUpdated DEF Return
  <2> QED
    BY <1>6, <1>9, <2>1, <2>3 DEF i8042_data_io_handler
<1> QED
  BY <1>1, <1>6, <1>7, <1>8, <1>9 DEF invoke_callback

\* An access keeps the types.
LEMMA AccessTyped ==
  ASSUME MapInv, TypeInv, Access
  PROVE  TypeInv'
<1>1. PICK addr \in Probes, len \in Lens :
        \/ Refused(addr, len) \/ Overrun(addr, len)
        \/ pmem_read(addr, len) \/ mmio_read(addr, len)
        \/ \E data \in Data : pmem_write(addr, len, data) \/ mmio_write(addr, len, data)
  BY DEF Access
<1>2. addr \in Int /\ Data \subseteq Nat
  BY DevicesAssumption, BusAssumption, Small
  DEF DevicesAssumption, BusAssumption, Address
<1>3. /\ UNCHANGED <<maps, p_space, mmio, image, loaded, clock, screen>>
      /\ n' \in 0..MaxAccess
  BY DevicesAssumption DEF DevicesAssumption, Access, TypeInv
<1>4. UNCHANGED <<maps, mmio>> => (Placed' <=> Placed) /\ (booted' <=> booted)
  BY DEF Placed, booted
<1>5. SUFFICES /\ io_space' \in [IOX -> Byte] /\ pmem' \in [0..(MSIZE - 1) -> Byte]
               /\ fate' \in {"run", "died", "wild"} /\ dev' \in Statics
  BY <1>3, <1>4 DEF TypeInv
<1>6. CASE Refused(addr, len) \/ Overrun(addr, len) \/ pmem_read(addr, len)
  BY <1>6 DEF Refused, Overrun, pmem_read, TypeInv
<1>7. ASSUME NEW data \in Data, pmem_write(addr, len, data)
      PROVE  /\ io_space' \in [IOX -> Byte] /\ pmem' \in [0..(MSIZE - 1) -> Byte]
             /\ fate' \in {"run", "died", "wild"} /\ dev' \in Statics
  <2>1. 0..(MSIZE - 1) \in SUBSET Int /\ addr - MBASE \in Int
    BY <1>2, BusAssumption DEF BusAssumption
  <2>2. host_write(pmem, addr - MBASE, len, data) \in [0..(MSIZE - 1) -> Byte]
    BY <1>2, <2>1, WriteIsBytes DEF TypeInv
  <2> QED
    BY <1>7, <2>2 DEF pmem_write, TypeInv
<1>8. CASE mmio_read(addr, len) \/ \E data \in Data : mmio_write(addr, len, data)
  <2>1. PICK i0 : i0 = find_mapid_by_addr(addr)
    OBVIOUS
  <2>2. i0 # 0 /\ (\/ map_read(addr, len, maps[i0])
                   \/ \E data \in Data : map_write(addr, len, data, maps[i0]))
    BY <1>8, <2>1 DEF mmio_read, mmio_write
  <2>3. i0 \in DOMAIN maps /\ map_inside(maps[i0], addr)
    BY <1>2, <2>1, <2>2, FindFact
  <2>4. /\ maps[i0].name \in Names /\ maps[i0].space \in Nat /\ maps[i0].low \in Int
        /\ maps[i0].space + LEN[maps[i0].name] + 3 <= IO_SPACE_MAX
    <3>1. IO_SPACE_MAX \in Nat
      BY BusAssumption DEF BusAssumption
    <3> QED
      BY <2>3, <3>1, RangeFacts, SMTT(30)
  <2>5. UNCHANGED pmem
    BY <2>2 DEF map_read, map_write
  <2>6. io_space \in [IOX -> Byte] /\ dev \in Statics /\ clock \in Nat
    BY DEF TypeInv
  <2>7. \E s \in [IOX -> Byte], w \in BOOLEAN :
          invoke_callback(maps[i0], addr - maps[i0].low, w, s)
    <3>1. CASE map_read(addr, len, maps[i0])
      BY <3>1, <2>6 DEF map_read
    <3>2. ASSUME NEW data \in Data, map_write(addr, len, data, maps[i0])
          PROVE  \E s \in [IOX -> Byte], w \in BOOLEAN :
                   invoke_callback(maps[i0], addr - maps[i0].low, w, s)
      <4>1. IOX \in SUBSET Int /\ maps[i0].space + (addr - maps[i0].low) \in Int
        BY <1>2, <2>4, BusAssumption DEF BusAssumption, IOX
      <4>2. host_write(io_space, maps[i0].space + (addr - maps[i0].low), len, data)
              \in [IOX -> Byte]
        BY <1>2, <2>6, <4>1, WriteIsBytes
      <4> QED
        BY <3>2, <4>2 DEF map_write
    <3> QED
      BY <2>2, <3>1, <3>2
  <2>8. io_space' \in [IOX -> Byte] /\ dev' \in Statics /\ fate' \in {fate, "died"}
    BY <2>4, <2>6, <2>7, HandlersTyped
  <2> QED
    BY <2>5, <2>8 DEF TypeInv
<1> QED
  BY <1>1, <1>6, <1>7, <1>8

\* Every step keeps the types.
LEMMA NextTypeInv == MapInv /\ TypeInv /\ [Next]_vars => TypeInv'
<1> SUFFICES ASSUME MapInv, TypeInv, [Next]_vars PROVE TypeInv'
  OBVIOUS
<1>1. UNCHANGED <<maps, mmio>> => (Placed' <=> Placed) /\ (booted' <=> booted)
  BY DEF Placed, booted
<1>2. CASE InitDevice
  <2>1. PICK d : d = Boot[Len(maps) + 1]
    OBVIOUS
  <2>2. PICK k \in Nat : k = Len(maps)
    BY DEF MapInv, Registered
  <2>3. NewMap(d, mmio[d], LEN[d])
    BY <1>2, <2>1 DEF InitDevice
  <2>4. Placed'
    <3>1. PICK m : m = [name |-> d, low |-> mmio[d], high |-> mmio[d] + LEN[d] - 1,
                        space |-> p_space]
      OBVIOUS
    <3>2. maps' = Append(maps, m)
      BY <2>3, <3>1 DEF NewMap
    <3>3. Len(maps') = k + 1 /\ maps'[k + 1] = m /\ \A i \in 1..k : maps'[i] = maps[i]
      BY <3>2, <2>2 DEF MapInv, Registered
    <3>4. m.name = Boot[k + 1] /\ m.low = mmio[Boot[k + 1]]
      BY <2>1, <2>2, <3>1
    <3>5. UNCHANGED mmio
      BY <1>2 DEF InitDevice
    <3>6. \A i \in 1..k : maps[i].name = Boot[i] /\ maps[i].low = mmio[Boot[i]]
      BY <2>2 DEF TypeInv, Placed
    <3>7. ASSUME NEW i \in 1..k + 1
          PROVE  maps'[i].name = Boot[i] /\ maps'[i].low = mmio[Boot[i]]
      <4>1. i \in 1..k \/ i = k + 1
        OBVIOUS
      <4> QED
        BY <3>3, <3>4, <3>6, <4>1
    <3> QED
      BY <3>3, <3>5, <3>7 DEF Placed
  <2>5. io_space' \in [IOX -> Byte]
    <3>1. IOX \in SUBSET Int /\ p_space \in Int /\ SCREEN \in Nat
      BY BusAssumption, DevicesAssumption
      DEF BusAssumption, DevicesAssumption, IOX, MapInv, Stacked
    <3>2. init_vga \in [IOX -> Byte]
      BY <3>1, WriteIsBytes DEF init_vga, Lens, TypeInv
    <3> QED
      BY <1>2, <3>2 DEF InitDevice, TypeInv
  <2>6. ~ loaded
    BY <1>2 DEF InitDevice, TypeInv
  <2>7. UNCHANGED <<pmem, fate, mmio, loaded, dev, clock, n>>
    BY <1>2, <2>3 DEF InitDevice, NewMap
  <2> QED
    BY <2>4, <2>5, <2>6, <2>7 DEF TypeInv
<1>3. CASE InitDeviceFails
  BY <1>1, <1>3 DEF InitDeviceFails, TypeInv
<1>4. CASE LoadImage
  <2>1. pmem' \in [0..(MSIZE - 1) -> Byte]
    BY <1>4, Small DEF LoadImage, init_isa, TypeInv
  <2> QED
    BY <1>1, <1>4, <2>1 DEF LoadImage, TypeInv
<1>5. CASE Access
  BY <1>5, AccessTyped
<1>6. CASE VgaUpdate
  <2>1. io_space' \in [IOX -> Byte]
    BY <1>6, Small DEF VgaUpdate, TypeInv
  <2> QED
    BY <1>1, <1>6, <2>1 DEF VgaUpdate, TypeInv
<1>7. CASE SendKey
  <2>1. PICK k \in KeyCodes : dev' = [dev EXCEPT !.keys = Append(@, k)]
    BY <1>7 DEF SendKey
  <2>2. Append(dev.keys, k) \in Seq(KeyCodes) /\ dev \in Statics
    BY StaticsTypes DEF TypeInv
  <2>3. dev' \in Statics
    BY <2>1, <2>2, StaticsUpdated
  <2> QED
    BY <1>1, <1>7, <2>3 DEF SendKey, bus, TypeInv
<1>8. CASE Tick
  <2>1. clock' \in Nat
    <3>1. Ticks \subseteq Nat
      BY DevicesAssumption DEF DevicesAssumption
    <3> QED
      BY <1>8, <3>1 DEF Tick, TypeInv
  <2> QED
    BY <1>1, <1>8, <2>1 DEF Tick, bus, TypeInv
<1>9. CASE UNCHANGED vars
  BY <1>1, <1>9 DEF vars, bus, TypeInv
<1> QED
  BY <1>2, <1>3, <1>4, <1>5, <1>6, <1>7, <1>8, <1>9 DEF Next

\* A registered range, as TypeOK writes it.
LEMMA PlacedRecord ==
  ASSUME MapInv, Placed, NEW i \in DOMAIN maps
  PROVE  maps[i] = [name |-> Boot[i], low |-> mmio[Boot[i]],
                    high |-> mmio[Boot[i]] + LEN[Boot[i]] - 1, space |-> maps[i].space]
<1>1. i \in 1..Len(maps) /\ maps \in Seq(Maps)
  BY DEF MapInv, Registered
<1>2. maps[i] \in Maps
  BY <1>1, ElementOfSeq
<1>3. /\ maps[i].name = Boot[i] /\ maps[i].low = mmio[Boot[i]]
      /\ maps[i].high = mmio[Boot[i]] + LEN[Boot[i]] - 1
  BY <1>1 DEF MapInv, Registered, Placed
<1> QED
  BY <1>2, <1>3 DEF Maps

\* The two invariants are stronger than TypeOK.
LEMMA InvImpliesTypeOK == MapInv /\ TypeInv => TypeOK
<1> SUFFICES ASSUME MapInv, TypeInv PROVE TypeOK
  OBVIOUS
<1>1. p_space \in 0..(IO_SPACE_MAX - 1)
  <2>1. IO_SPACE_MAX \in Nat \ {0} /\ p_space \in Nat
    BY BusAssumption DEF BusAssumption, MapInv, Stacked
  <2> QED
    BY <2>1 DEF MapInv, Stacked, Registered
<1>2. Len(maps) <= Len(Boot)
  BY DEF MapInv, Registered
<1>3. /\ dev.rx_ready \in {0, 1} /\ dev.keys \in Seq(KeyCodes)
      /\ {dev.ctrl, dev.intr_nr, dev.timer_rtc} \subseteq Word
  BY StaticsTypes DEF TypeInv
<1>4. \A i \in DOMAIN maps : maps[i] = [name |-> Boot[i], low |-> mmio[Boot[i]],
         high |-> mmio[Boot[i]] + LEN[Boot[i]] - 1, space |-> maps[i].space]
  BY PlacedRecord DEF TypeInv
<1> QED
  BY <1>1, <1>2, <1>3, <1>4 DEF TypeOK, TypeInv, IOX

\* Each variable of Devices has its type: the spaces and pmem stay arrays of
\* bytes, the statics words, and the ranges stay in init_device's order.
THEOREM TypesCorrect == Spec => []TypeOK
<1>1. Spec => [](MapInv /\ TypeInv)
  BY InitMapInv, NextMapInv, InitTypeInv, NextTypeInv, PTL DEF Spec
<1> QED
  BY <1>1, InvImpliesTypeOK, PTL
=============================================================================
