-------------------------------- MODULE Bus --------------------------------
(***************************************************************************)
(* The memory bus: physical memory (mainmem.h, memory.c), the spaces that  *)
(* devices allocate and the maps that they register (mmio.c, map.h).       *)
(* Devices EXTENDS it with the device handlers and the accesses.           *)
(***************************************************************************)
EXTENDS HostMem, Sequences

CONSTANTS
  ADDR_SPACE,      \* addresses (2^32 in the code)
  MBASE, MSIZE,    \* CONFIG_MBASE, CONFIG_MSIZE
  PAGE_SIZE, IO_SPACE_MAX, NR_MAP

ASSUME BusAssumption ==
  /\ {ADDR_SPACE, MSIZE, PAGE_SIZE, IO_SPACE_MAX, NR_MAP} \subseteq Nat \ {0}
  /\ MBASE \in Nat /\ MBASE + MSIZE <= ADDR_SPACE

VARIABLES
  maps,            \* maps[0 .. nr_map-1]
  p_space,         \* how much of io_space new_space has given away
  io_space, pmem,  \* their bytes
  fate             \* "run"; "died": panic, Assert or signal; "wild": undefined

bus == <<maps, p_space, io_space, pmem, fate>>

Address == 0..(ADDR_SPACE - 1)

BusInit ==
  /\ maps = <<>> /\ p_space = 0 /\ fate = "run"
  /\ io_space = [x \in 0..(IO_SPACE_MAX - 1) |-> 0]  \* malloc'ed in fresh pages
  /\ pmem = [x \in 0..(MSIZE - 1) |-> 0]

in_pmem(addr) == addr \in MBASE..(MBASE + MSIZE - 1)

map_inside(map, addr) == addr \in map.low..map.high

\* The first registered map around addr: fetch_mmio_map.  0: none.
find_mapid_by_addr(addr) ==
  IF \E i \in DOMAIN maps : map_inside(maps[i], addr)
  THEN CHOOSE i \in DOMAIN maps :
         /\ map_inside(maps[i], addr)
         /\ \A j \in 1..(i - 1) : ~ map_inside(maps[j], addr)
  ELSE 0

page_round(size) == ((size + PAGE_SIZE - 1) \div PAGE_SIZE) * PAGE_SIZE

\* Mutant: only the left end is compared with the registered maps.
OverlapsLeft(left, right) ==
  \/ in_pmem(left) \/ in_pmem(right)
  \/ \E i \in DOMAIN maps : map_inside(maps[i], left)

Overlaps(left, right) ==
  \/ in_pmem(left) \/ in_pmem(right)
  \/ \E i \in DOMAIN maps : left <= maps[i].high /\ right >= maps[i].low

\* new_space(len), then add_mmio_map of the result: false if one asserts.
CanAdd(addr, len) ==
  /\ p_space + page_round(len) < IO_SPACE_MAX
  /\ Len(maps) < NR_MAP
  /\ ~ Overlaps(addr, addr + len - 1)

\* Mutant: a range ends one byte too late.
NewMapLong(name, addr, len) ==
  /\ CanAdd(addr, len)
  /\ p_space' = p_space + page_round(len)
  /\ maps' = Append(maps, [name |-> name, low |-> addr,
                           high |-> addr + len, space |-> p_space])
  /\ UNCHANGED <<pmem, fate>>

\* Mutant: new_space gives away the bytes asked for instead of whole pages.
NewMapShort(name, addr, len) ==
  /\ CanAdd(addr, len)
  /\ p_space' = p_space + len
  /\ maps' = Append(maps, [name |-> name, low |-> addr,
                           high |-> addr + len - 1, space |-> p_space])
  /\ UNCHANGED <<pmem, fate>>

NewMap(name, addr, len) ==
  /\ CanAdd(addr, len)
  /\ p_space' = p_space + page_round(len)
  /\ maps' = Append(maps, [name |-> name, low |-> addr,
                           high |-> addr + len - 1, space |-> p_space])
  /\ UNCHANGED <<pmem, fate>>
=============================================================================
