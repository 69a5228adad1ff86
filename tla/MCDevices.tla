----------------------------- MODULE MCDevices -----------------------------
(***************************************************************************)
(* Devices with pages of 32 bytes, bytes of 4 values and the code's ranges *)
(* on a small scale: config.h's layout, one with two adjacent ranges, and  *)
(* three that a build could get wrong.  Probes are all registers, the      *)
(* offsets no handler serves, and each range's last bytes.  Two machines   *)
(* start; one has no uartdatain, and two are given a wrong image.          *)
(***************************************************************************)
EXTENDS Devices

MCBoot == <<"serial", "rtc", "vgactl", "vmem", "keyboard">>
MCLEN == [serial |-> 20, rtc |-> 12, vgactl |-> 8, vmem |-> 6, keyboard |-> 16]

Layout == [keyboard |-> 0, serial |-> 20, rtc |-> 48, vgactl |-> 64, vmem |-> 104]
Adjacent == [Layout EXCEPT !.rtc = 40, !.vgactl = 52]
LastByteShared == [Layout EXCEPT !.rtc = 39]
AroundRtc == [Layout EXCEPT !.keyboard = 46]
IntoPmem == [Layout EXCEPT !.keyboard = 65, !.vgactl = 73]
MCProbes == {4, 5} \cup {20, 24, 28, 32, 36, 39} \cup {48, 52, 56, 58}
            \cup {64, 68, 70} \cup {80, 98} \cup {104, 109} \cup {118}

Machine(m, f, size) == [mmio |-> m, uart |-> f, image |-> size]
MCMachines == {Machine(Layout, <<2>>, 3), Machine(Adjacent, None, None),
               Machine(LastByteShared, <<2>>, None), Machine(AroundRtc, <<2>>, None),
               Machine(IntoPmem, <<2>>, None), Machine(Layout, <<2>>, 0),
               Machine(Layout, <<2>>, MSIZE + 1)}
=============================================================================
