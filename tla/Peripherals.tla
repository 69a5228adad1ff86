---------------------------- MODULE Peripherals ----------------------------
(***************************************************************************)
(* What the bus promises to the guest: each address belongs to one device  *)
(* register or to one memory, a read answers with the register as it is at *)
(* that moment, a write reaches that register only.  There are no maps, no *)
(* spaces, no callbacks and no latched copies here.  Devices implements it.*)
(***************************************************************************)
EXTENDS HostMem, Sequences

CONSTANTS
  Names, LEN,      \* the device ranges, and each one's length in bytes
  MBASE, MSIZE, SECOND, KeyCodes, Machines, Pixels, SCREEN, BUILTIN,
  None,            \* no such file
  Probes, Data     \* the accesses made: addresses and values written

VARIABLES
  mmio, image,     \* where each range starts; the size of the image
  on, fate,        \* the machine has been started; how it fares
  dev,             \* ctrl, rx_ready, intr_nr; uart and tx; keys
  clock,           \* microseconds since the start
  ram,             \* bytes of "pmem", and of the ranges without a handler
  screen,          \* the frame on display
  last             \* the latest access and its result

vars == <<mmio, image, on, fate, dev, clock, ram, screen, last>>

Wrap(v) == v % Weight(4)
Bytes(d) == 0..(IF d = "pmem" THEN MSIZE - 1 ELSE LEN[d] + 2)
Ends(d) == {mmio[d], mmio[d] + LEN[d] - 1}
Range(d) == mmio[d]..(mmio[d] + LEN[d] - 1)

Bootable ==
  /\ \A d, e \in Names : d # e => Range(d) \cap Range(e) = {}
  /\ \A d \in Names : Range(d) \cap MBASE..(MBASE + MSIZE - 1) = {}
  /\ image \in {None} \cup 1..MSIZE

Init ==
  /\ on = FALSE /\ fate = "run"
  /\ \E m \in Machines :
       /\ mmio = m.mmio /\ image = m.image
       /\ dev = [ctrl |-> 0, rx_ready |-> 0, intr_nr |-> 0,
                 uart |-> m.uart, tx |-> <<>>, keys |-> <<>>]
  /\ clock = 0 /\ screen = <<>>
  /\ last = [op |-> "none", addr |-> 0, len |-> 1, val |-> 0]
  /\ ram = [d \in {"pmem", "vgactl", "vmem"} |-> [o \in Bytes(d) |-> 0]]

\* vgactl starts with the screen's size, pmem with the image over the built-in
\* one.
PowerOn ==
  /\ ~ on /\ Bootable /\ on' = TRUE
  /\ ram' = [ram EXCEPT
       !["vgactl"] = [o \in DOMAIN @ |-> IF o < 4 THEN (SCREEN \div Weight(o)) % BYTE ELSE 0],
       !["pmem"] = [o \in DOMAIN @ |-> IF image # None /\ o < image THEN 2
                                       ELSE IF o < BUILTIN THEN 1 ELSE 0]]
  /\ UNCHANGED <<mmio, image, fate, dev, clock, screen, last>>

BootFails ==
  /\ ~ on /\ ~ Bootable /\ fate = "run" /\ fate' \in {"died", "wild"}
  /\ fate' = "wild" => image \notin {None} \cup 0..MSIZE
  /\ UNCHANGED <<mmio, image, on, dev, clock, ram, screen, last>>

At(d, off, a) == on /\ fate = "run" /\ a = mmio[d] + off
Begin(d) == IF d = "pmem" THEN MBASE ELSE mmio[d]
Tail4(s) == IF s = <<>> THEN s ELSE Tail(s)

\* A register is read: v is its value, d2 the devices afterwards.
Answer(a, len, v, d2) ==
  /\ last' = [op |-> "read", addr |-> a, len |-> len, val |-> v % Weight(len)]
  /\ dev' = d2
  /\ UNCHANGED <<mmio, image, on, fate, clock, ram, screen>>

\* A register is written: the bytes beyond len keep their value.
Merge(old, len, data) == (old \div Weight(len)) * Weight(len) + (data % Weight(len))

Take(a, len, data, d2) ==
  /\ last' = [op |-> "write", addr |-> a, len |-> len, val |-> data]
  /\ dev' = d2
  /\ UNCHANGED <<mmio, image, on, fate, clock, ram, screen>>

ReadRegister(a, len) ==
  \/ At("serial", 0, a) /\ Answer(a, len, dev.ctrl, dev)
  \/ At("serial", 4, a) /\ Answer(a, len, 2 * dev.rx_ready, dev)
  \/ /\ At("serial", 16, a) /\ dev.uart # None
     /\ Answer(a, len, IF dev.uart = <<>> THEN BYTE - 1 ELSE Head(dev.uart),
               [dev EXCEPT !.uart = Tail4(@)])
  \/ At("rtc", 0, a) /\ Answer(a, len, Wrap(clock \div SECOND), dev)
  \/ At("rtc", 4, a) /\ Answer(a, len, Wrap(clock), dev)
  \/ At("rtc", 8, a) /\ Answer(a, len, dev.intr_nr, dev)
  \/ /\ At("keyboard", 4, a)
     /\ Answer(a, len, IF dev.keys = <<>> THEN 0 ELSE Head(dev.keys),
               [dev EXCEPT !.keys = Tail4(@)])

WriteRegister(a, len, w) ==
  \/ /\ At("serial", 0, a)
     /\ Take(a, len, w, [dev EXCEPT !.ctrl = Merge(@, len, w)])
  \/ /\ At("serial", 4, a)
     /\ Take(a, len, w, [dev EXCEPT !.rx_ready = (w \div 2) % 2])
  \/ At("serial", 12, a) /\ Take(a, len, w, [dev EXCEPT !.tx = Append(@, w % BYTE)])
  \/ At("rtc", 0, a) /\ Take(a, len, w, dev)      \* without any effect
  \/ At("rtc", 8, a) /\ Take(a, len, w, [dev EXCEPT !.intr_nr = Merge(@, len, w)])

\* An access to memory: its bytes, and no other byte of any memory.
Memory(d, a, len) == /\ on /\ fate = "run"
                     /\ a - Begin(d) \in Bytes(d) /\ a - Begin(d) + len - 1 \in Bytes(d)
                     /\ d # "pmem" => a \in Range(d)

ReadMemory(d, a, len) ==
  /\ Memory(d, a, len)
  /\ Answer(a, len, host_read(ram[d], a - Begin(d), len), dev)

WriteMemory(d, a, len, w) ==
  /\ Memory(d, a, len)
  /\ ram' = [ram EXCEPT ![d] = host_write(@, a - Begin(d), len, w)]
  /\ last' = [op |-> "write", addr |-> a, len |-> len, val |-> w]
  /\ UNCHANGED <<mmio, image, on, fate, dev, clock, screen>>

Readable == [serial |-> {0, 4, 16}, rtc |-> {0, 4, 8}, keyboard |-> {4}]
Writable == [serial |-> {0, 4, 12}, rtc |-> {0, 8}, keyboard |-> {}]

\* An access that no register and no memory can serve ends the machine; one
\* that leaves pmem at its end has no defined outcome.
Fault(a, len, served) ==
  /\ on /\ fate = "run"
  /\ \A d \in DOMAIN served : a \notin {mmio[d] + off : off \in served[d]}
                              \/ (a = mmio["serial"] + 16 /\ dev.uart = None)
  /\ \A d \in DOMAIN ram : ~ Memory(d, a, len)
  /\ fate' = IF a \in MBASE..(MBASE + MSIZE - 1) THEN "wild" ELSE "died"
  /\ last' = [op |-> "fault", addr |-> a, len |-> len, val |-> 0]
  /\ UNCHANGED <<mmio, image, on, dev, clock, ram, screen>>

Read(a, len) == \/ ReadRegister(a, len)
                \/ \E d \in DOMAIN ram : ReadMemory(d, a, len)
                \/ Fault(a, len, Readable)

Write(a, len, w) == \/ WriteRegister(a, len, w)
                    \/ \E d \in DOMAIN ram : WriteMemory(d, a, len, w)
                    \/ Fault(a, len, Writable)

\* device_update: a requested frame is shown, and the request withdrawn.
Refresh ==
  /\ on /\ fate = "run"
  /\ screen' = IF ram["vgactl"][4] # 0
               THEN [p \in 0..(Pixels - 1) |-> ram["vmem"][p]] ELSE screen
  /\ ram' = [ram EXCEPT !["vgactl"][4] = 0]
  /\ UNCHANGED <<mmio, image, on, fate, dev, clock, last>>

Key == /\ \E k \in KeyCodes : dev' = [dev EXCEPT !.keys = Append(@, k)]
       /\ UNCHANGED <<mmio, image, on, fate, clock, ram, screen, last>>

Tick == /\ clock' \in Nat /\ clock' > clock
        /\ UNCHANGED <<mmio, image, on, fate, dev, ram, screen, last>>

Next ==
  \/ PowerOn \/ BootFails \/ Refresh \/ Key \/ Tick
  \/ \E a \in Probes, len \in Lens :
       /\ last'.addr = a /\ last'.len = len
       /\ Read(a, len) \/ \E w \in Data : Write(a, len, w)

Spec == Init /\ [][Next]_vars
=============================================================================
