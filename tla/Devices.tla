------------------------------ MODULE Devices ------------------------------
(***************************************************************************)
(* The devices behind the memory bus and the guest's accesses to them:     *)
(* init_device registers them, paddr_read and paddr_write dispatch on the  *)
(* address, map_read runs the handler BEFORE it reads the device's space,  *)
(* map_write AFTER it has written it, and device_update shows a frame.     *)
(* The keyboard's ring is the FIFO that module Keyboard shows it to be.    *)
(***************************************************************************)
EXTENDS Bus

CONSTANTS
  Boot,            \* the ranges in the order init_device registers them
  LEN,             \* each range's length
  Machines,        \* records: mmio, where a build places the ranges (config.h);
                   \* uart, the contents of uartdatain; image, its size
  None,            \* no such file: fopen returned NULL; no image is given
  BUILTIN,         \* size of the built-in image
  SECOND,          \* microseconds in a second
  SCREEN, Pixels,  \* the size register's word; pixels of a frame
  KeyCodes,        \* AM key codes
  Probes, Data,    \* the accesses made: addresses and values written
  Ticks,           \* how far the clock may step
  MaxAccess, MaxKeys, MaxClock   \* bounds

Names == {Boot[i] : i \in DOMAIN Boot}

ASSUME DevicesAssumption ==
  /\ Boot \in Seq(Names) /\ \A i, j \in DOMAIN Boot : Boot[i] = Boot[j] => i = j
  /\ Names = {"serial", "rtc", "vgactl", "vmem", "keyboard"}
  /\ LEN \in [Names -> Nat \ {0}]
  /\ LEN["serial"] = 20 /\ LEN["rtc"] = 12 /\ LEN["vgactl"] = 8
  /\ LEN["keyboard"] = 16
  /\ \A m \in Machines : /\ m.mmio \in [Names -> Address]
                         /\ \A d \in Names : m.mmio[d] + LEN[d] <= ADDR_SPACE
                         /\ m.uart = None \/ m.uart \in Seq(Byte)
  /\ Probes \subseteq Address /\ Data \subseteq Word
  /\ KeyCodes \cup Ticks \subseteq Nat
  /\ SECOND \in Nat \ {0} /\ {SCREEN, BUILTIN, Pixels, MaxAccess} \subseteq Nat
  /\ Pixels <= LEN["vmem"]   \* a pixel is one byte here
  /\ BYTE % 4 = 0   \* bit 1 of the status word is in its first byte

\* The pages of a range go at least 3 bytes beyond it, the most an access that
\* begins inside can need.
ASSUME SlackAssumption == \A d \in Names : LEN[d] + 3 <= page_round(LEN[d])

\* io_space and maps have room for every device, and no range is longer than
\* pmem, with which add_mmio_map compares a range's two ends only.
ASSUME RoomAssumption ==
  /\ Len(Boot) <= NR_MAP
  /\ page_round(LEN["serial"]) + page_round(LEN["rtc"]) + page_round(LEN["vgactl"])
     + page_round(LEN["vmem"]) + page_round(LEN["keyboard"]) < IO_SPACE_MAX
  /\ \A d \in Names : LEN[d] <= MSIZE

VARIABLES
  mmio, image,     \* the layout of this build; the image it is given
  loaded,          \* init_monitor is done
  dev,             \* the handlers' statics and the streams behind them
  clock,           \* get_time()
  screen,          \* the texture that update_screen last presented
  last,            \* history: the latest access and its result
  n                \* history: how many accesses were made

vars == <<bus, mmio, image, loaded, dev, clock, screen, last, n>>

NoDevice == [ctrl |-> 0, rx_ready |-> 0, timer_rtc |-> 0, intr_nr |-> 0,
             uart |-> <<>>, tx |-> <<>>, keys |-> <<>>]

NoAccess == [op |-> "none", addr |-> 0, len |-> 1, val |-> 0]

Init ==
  /\ BusInit /\ loaded = FALSE
  /\ \E m \in Machines : /\ mmio = m.mmio /\ image = m.image
                         /\ dev = [NoDevice EXCEPT !.uart = m.uart]
  /\ clock = 0 /\ screen = <<>> /\ last = NoAccess /\ n = 0

booted == Len(maps) = Len(Boot)
up == loaded /\ fate = "run"

\* The space of a registered range: serial_base, vgactl_port_base, vmem ...
base(d) == maps[CHOOSE i \in DOMAIN maps : maps[i].name = d].space

\* init_vga writes the size register, and clears a frame buffer that is still
\* zero; the other init functions write nothing.
init_vga == host_write(io_space, p_space, 4, SCREEN)

\* One device's init function: new_space, then add_mmio_map.
InitDevice ==
  /\ ~ booted /\ fate = "run"
  /\ LET d == Boot[Len(maps) + 1] IN
       /\ NewMap(d, mmio[d], LEN[d])
       /\ io_space' = IF d = "vgactl" THEN init_vga ELSE io_space
  /\ UNCHANGED <<mmio, image, loaded, dev, clock, screen, last, n>>

\* new_space or add_mmio_map asserts.
InitDeviceFails ==
  /\ ~ booted /\ fate = "run"
  /\ LET d == Boot[Len(maps) + 1] IN ~ CanAdd(mmio[d], LEN[d])
  /\ fate' = "died"
  /\ UNCHANGED <<maps, p_space, io_space, pmem, mmio, image, loaded, dev, clock,
                 screen, last, n>>

\* The built-in image in memory that is still zero.
init_isa == [x \in DOMAIN pmem |-> IF x < BUILTIN THEN 1 ELSE 0]

\* init_isa, then load_img over it.  fread of size 0 answers 0, which fails
\* the assert; nothing compares the size with what pmem holds.
LoadImage ==
  /\ booted /\ ~ loaded /\ fate = "run"
  /\ \/ /\ image \in {None} \cup 1..MSIZE
        /\ loaded' = TRUE /\ fate' = fate
        /\ pmem' = [x \in DOMAIN pmem |->
                      IF image # None /\ x < image THEN 2 ELSE init_isa[x]]
     \/ /\ image \notin {None} \cup 1..MSIZE
        /\ fate' = IF image = 0 THEN "died" ELSE "wild"
        /\ UNCHANGED <<loaded, pmem>>
  /\ UNCHANGED <<maps, p_space, io_space, mmio, image, dev, clock, screen, last, n>>

\* A handler, called while the spaces hold s, returns or aborts.
Return(s, d) == io_space' = s /\ dev' = d /\ fate' = fate
Abort(s) == io_space' = s /\ dev' = dev /\ fate' = "died"

TX_OFFSET == 12
RX_OFFSET == 16
STATUS_OFFSET == 4
INTR_OFFSET == 8
RTC_OFFSET == 0
UPTIME_OFFSET == 4
SYNC_OFFSET == 4

\* ch is an uint8_t: it never equals EOF (-1), and the end of input is 255.
getc_narrowed == IF dev.uart = <<>> THEN BYTE - 1 ELSE Head(dev.uart)
Rest(s) == IF s = <<>> THEN s ELSE Tail(s)

\* b is serial_base.  int2ctrl copies the whole word, padding bits included.
serial_io_handler(b, offset, is_write, s) ==
  \/ /\ offset = TX_OFFSET /\ is_write
     /\ Return(s, [dev EXCEPT !.tx = Append(@, s[b + TX_OFFSET])])
  \/ /\ offset = RX_OFFSET /\ ~ is_write /\ dev.uart # None
     /\ Return([s EXCEPT ![b + RX_OFFSET] = getc_narrowed],
               [dev EXCEPT !.uart = Rest(@)])
  \/ /\ offset = 0 /\ is_write
     /\ Return(s, [dev EXCEPT !.ctrl = host_read(s, b, 4)])
  \/ offset = 0 /\ ~ is_write /\ Return(host_write(s, b, 4, dev.ctrl), dev)
  \/ /\ offset = STATUS_OFFSET /\ is_write
     /\ Return(s, [dev EXCEPT !.rx_ready =
                     (host_read(s, b + STATUS_OFFSET, 4) \div 2) % 2])
  \/ /\ offset = STATUS_OFFSET /\ ~ is_write
     /\ Return(host_write(s, b + STATUS_OFFSET, 4, 2 * dev.rx_ready), dev)
  \/ /\ \/ offset \notin {0, STATUS_OFFSET, TX_OFFSET, RX_OFFSET}
        \/ offset = TX_OFFSET /\ ~ is_write
        \/ offset = RX_OFFSET /\ (is_write \/ dev.uart = None)
     /\ Abort(s)

rtc_io_handler(b, offset, is_write, s) ==
  \/ /\ offset = RTC_OFFSET /\ is_write
     /\ Return(s, [dev EXCEPT !.timer_rtc = host_read(s, b, 4)])
  \/ /\ offset = RTC_OFFSET /\ ~ is_write
     /\ LET now == (clock \div SECOND) % Weight(4)
        IN  Return(host_write(s, b, 4, now), [dev EXCEPT !.timer_rtc = now])
  \/ /\ offset = UPTIME_OFFSET /\ ~ is_write
     /\ Return(host_write(s, b + UPTIME_OFFSET, 4, clock % Weight(4)), dev)
  \/ /\ offset = INTR_OFFSET /\ is_write
     /\ Return(s, [dev EXCEPT !.intr_nr = host_read(s, b + INTR_OFFSET, 4)])
  \/ /\ offset = INTR_OFFSET /\ ~ is_write
     /\ Return(host_write(s, b + INTR_OFFSET, 4, dev.intr_nr), dev)
  \/ /\ \/ offset \notin {RTC_OFFSET, UPTIME_OFFSET, INTR_OFFSET}
        \/ offset = UPTIME_OFFSET /\ is_write
     /\ Abort(s)

i8042_data_io_handler(b, offset, is_write, s) ==
  \/ /\ ~ is_write /\ offset = 4
     /\ Return(host_write(s, b + 4, 4, IF dev.keys = <<>> THEN 0 ELSE Head(dev.keys)),
               [dev EXCEPT !.keys = Rest(@)])
  \/ (is_write \/ offset # 4) /\ Abort(s)

\* The two VGA ranges have no handler.
invoke_callback(map, offset, is_write, s) ==
  \/ map.name = "serial" /\ serial_io_handler(map.space, offset, is_write, s)
  \/ map.name = "rtc" /\ rtc_io_handler(map.space, offset, is_write, s)
  \/ map.name = "keyboard" /\ i8042_data_io_handler(map.space, offset, is_write, s)
  \/ map.name \in {"vgactl", "vmem"} /\ Return(s, dev)

Record(op, addr, len, val) ==
  last' = IF fate' = "run" THEN [op |-> op, addr |-> addr, len |-> len, val |-> val]
          ELSE [op |-> "fault", addr |-> addr, len |-> len, val |-> 0]

\* Mutant: the space is read before the handler has prepared it.
map_read_first(addr, len, map) ==
  /\ invoke_callback(map, addr - map.low, FALSE, io_space)
  /\ Record("read", addr, len, host_read(io_space, map.space + (addr - map.low), len))
  /\ UNCHANGED pmem

map_read(addr, len, map) ==
  /\ invoke_callback(map, addr - map.low, FALSE, io_space)
  /\ Record("read", addr, len, host_read(io_space', map.space + (addr - map.low), len))
  /\ UNCHANGED pmem

map_write(addr, len, data, map) ==
  /\ invoke_callback(map, addr - map.low, TRUE,
       host_write(io_space, map.space + (addr - map.low), len, data))
  /\ Record("write", addr, len, data)
  /\ UNCHANGED pmem

\* check_bound's Assert, when no map holds addr; and an access that begins in
\* pmem and leaves it, of which nobody checks the end.
Refused(addr, len) ==
  /\ fate' = "died" /\ ~ in_pmem(addr) /\ find_mapid_by_addr(addr) = 0
  /\ Record("fault", addr, len, 0)
  /\ UNCHANGED <<io_space, pmem, dev>>

Overrun(addr, len) ==
  /\ fate' = "wild" /\ in_pmem(addr) /\ ~ in_pmem(addr + len - 1)
  /\ Record("fault", addr, len, 0)
  /\ UNCHANGED <<io_space, pmem, dev>>

pmem_read(addr, len) ==
  /\ in_pmem(addr) /\ in_pmem(addr + len - 1)
  /\ UNCHANGED <<io_space, pmem, dev, fate>>
  /\ Record("read", addr, len, host_read(pmem, addr - MBASE, len))

pmem_write(addr, len, data) ==
  /\ in_pmem(addr) /\ in_pmem(addr + len - 1)
  /\ pmem' = host_write(pmem, addr - MBASE, len, data)
  /\ UNCHANGED <<io_space, dev, fate>>
  /\ Record("write", addr, len, data)

mmio_read(addr, len) ==
  /\ ~ in_pmem(addr) /\ find_mapid_by_addr(addr) # 0
  /\ map_read(addr, len, maps[find_mapid_by_addr(addr)])

mmio_write(addr, len, data) ==
  /\ ~ in_pmem(addr) /\ find_mapid_by_addr(addr) # 0
  /\ map_write(addr, len, data, maps[find_mapid_by_addr(addr)])

\* One access by an instruction, a fetch or the debugger.
Access ==
  /\ up /\ n < MaxAccess /\ n' = n + 1
  /\ \E addr \in Probes, len \in Lens :
       \/ Refused(addr, len) \/ Overrun(addr, len)
       \/ pmem_read(addr, len) \/ mmio_read(addr, len)
       \/ \E data \in Data : pmem_write(addr, len, data) \/ mmio_write(addr, len, data)
  /\ UNCHANGED <<maps, p_space, mmio, image, loaded, clock, screen>>

\* vga_update_screen, from device_update: between two instructions.
VgaUpdate ==
  /\ up
  /\ screen' = IF io_space[base("vgactl") + SYNC_OFFSET] # 0
               THEN [p \in 0..(Pixels - 1) |-> io_space[base("vmem") + p]] ELSE screen
  /\ io_space' = [io_space EXCEPT ![base("vgactl") + SYNC_OFFSET] = 0]
  /\ UNCHANGED <<maps, p_space, pmem, fate, mmio, image, loaded, dev, clock, last, n>>

\* send_key enqueues, from device_update.
SendKey ==
  /\ up /\ Len(dev.keys) < MaxKeys
  /\ \E k \in KeyCodes : dev' = [dev EXCEPT !.keys = Append(@, k)]
  /\ UNCHANGED <<bus, mmio, image, loaded, clock, screen, last, n>>

Tick ==
  /\ up
  /\ \E t \in Ticks : clock + t <= MaxClock /\ clock' = clock + t
  /\ UNCHANGED <<bus, mmio, image, loaded, dev, screen, last, n>>

Next == InitDevice \/ InitDeviceFails \/ LoadImage \/ Access \/ VgaUpdate \/ SendKey \/ Tick

Spec == Init /\ [][Next]_vars
-----------------------------------------------------------------------------
Spaces(i) == maps[i].space..(maps[i].space + page_round(LEN[maps[i].name]) - 1)

TypeOK ==
  /\ Len(maps) <= Len(Boot) /\ p_space \in 0..(IO_SPACE_MAX - 1)
  /\ \A i \in DOMAIN maps : maps[i] = [name |-> Boot[i], low |-> mmio[Boot[i]],
       high |-> mmio[Boot[i]] + LEN[Boot[i]] - 1, space |-> maps[i].space]
  /\ io_space \in [0..(IO_SPACE_MAX - 1) -> Byte]
  /\ pmem \in [0..(MSIZE - 1) -> Byte]
  /\ fate \in {"run", "died", "wild"} /\ mmio \in {m.mmio : m \in Machines}
  /\ loaded \in BOOLEAN /\ (loaded => booted)
  /\ dev.rx_ready \in {0, 1} /\ dev.keys \in Seq(KeyCodes)
  /\ {dev.ctrl, dev.intr_nr, dev.timer_rtc} \subseteq Word
  /\ clock \in Nat /\ n \in 0..MaxAccess

\* Any two registered maps share neither an address nor a page of io_space,
\* whatever layout was configured: mmio.c:17-24 and 75-93.
MapsDisjoint ==
  \A i, j \in DOMAIN maps : i # j =>
    /\ maps[i].low..maps[i].high \cap maps[j].low..maps[j].high = {}
    /\ Spaces(i) \cap Spaces(j) = {}

\* An access through one map changes no byte of another map's space, though
\* only its first byte is checked against the map's bounds: mmio.c:26-34.
Isolation ==
  [][n' # n => \A i \in DOMAIN maps :
       \/ map_inside(maps[i], last'.addr)
       \/ \A x \in Spaces(i) : io_space'[x] = io_space[x]]_vars

\* The registers and the memories that a guest sees.
Registers == [ctrl |-> dev.ctrl, rx_ready |-> dev.rx_ready, intr_nr |-> dev.intr_nr,
              uart |-> dev.uart, tx |-> dev.tx, keys |-> dev.keys]

Ram == [d \in {"pmem", "vgactl", "vmem"} |->
          IF d = "pmem" THEN pmem
          ELSE [o \in 0..(LEN[d] + 2) |-> IF loaded THEN io_space[base(d) + o] ELSE 0]]

Abstract == INSTANCE Peripherals WITH on <- loaded, dev <- Registers, ram <- Ram

\* Refinement: through maps, spaces, callbacks and latched copies the guest
\* sees the registers and memories of module Peripherals, and nothing else.
ImplementsPeripherals == Abstract!Spec

\* vga.c:55-56: the update leaves the sync register zero.
SyncZeroed ==
  [][VgaUpdate => host_read(io_space', base("vgactl") + SYNC_OFFSET, 4) = 0]_vars
=============================================================================
