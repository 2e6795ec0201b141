------------------------------ MODULE I2cScan ------------------------------
(***************************************************************************)
(* The address scan of src/app/main.c (UserMain).  The loop probes every   *)
(* addr from 0x08 while addr < 0xf0 with a u8 counter: it sends the byte   *)
(* addr << 1 (a u8 argument, so the shift wraps at 0x80), stops the bus,   *)
(* and reports addr when the controller saw no NAK.  Then it blinks PB5    *)
(* forever.                                                                *)
(*                                                                         *)
(* A device on the bus answers the address byte whose upper seven bits are *)
(* its address (the low bit 0 is a write).  Byte 0x00 is the general call, *)
(* which a device may or may not acknowledge.  Which devices are on the    *)
(* bus, and whether one acknowledges the general call, is chosen in the    *)
(* initial state.                                                          *)
(***************************************************************************)
EXTENDS Naturals

CONSTANTS Bus   \* candidate 7-bit device addresses

ASSUME BusAssumption == Bus \subseteq 0..127

VARIABLES
    devices, \* the devices present on the bus
    genCall, \* some device acknowledges the general call
    addr,    \* the u8 loop counter
    found,   \* the addresses printed as found
    done,    \* the scan loop has ended
    led      \* the level written to PB5

vars == <<devices, genCall, addr, found, done, led>>

(* Mutant: the address is sent unshifted.                                 *)
AddressByteUnshifted(a) == a % 256

(* tls_i2c_write_byte(addr << 1, 1) then the NAK bit of HR_I2C_CR_SR:     *)
(* the byte is the u8 argument; an ACK comes from the device it names or, *)
(* for the general call, from a device that answers it.                   *)
AddressByte(a) == (a * 2) % 256

Acked(b) ==
    \/ b \div 2 \in devices
    \/ b = 0 /\ genCall

(* Mutant: the loop bound can never be reached by a u8.                   *)
ProbeNoEnd ==
    /\ ~done
    /\ addr <= 255
    /\ \/ Acked(AddressByte(addr)) /\ found' = found \cup {addr}
       \/ ~Acked(AddressByte(addr)) /\ found' = found
    /\ addr' = (addr + 1) % 256
    /\ UNCHANGED <<devices, genCall, done, led>>

(* One iteration of the scan loop: probe, stop, report on an ACK, and     *)
(* increment the u8 counter.                                              *)
Probe ==
    /\ ~done
    /\ addr < 240
    /\ \/ Acked(AddressByte(addr)) /\ found' = found \cup {addr}
       \/ ~Acked(AddressByte(addr)) /\ found' = found
    /\ addr' = (addr + 1) % 256
    /\ UNCHANGED <<devices, genCall, done, led>>

(* The loop test fails: the scan is finished.                             *)
EndScan ==
    /\ ~done
    /\ ~(addr < 240)
    /\ done' = TRUE
    /\ UNCHANGED <<devices, genCall, addr, found, led>>

(* One write of the endless blink loop.                                   *)
Blink ==
    /\ done
    /\ led' = 1 - led
    /\ UNCHANGED <<devices, genCall, addr, found, done>>

Init ==
    /\ devices \in SUBSET Bus
    /\ genCall \in IF devices = {} THEN {FALSE} ELSE BOOLEAN
    /\ addr = 8
    /\ found = {}
    /\ done = FALSE
    /\ led = 0

Next == Probe \/ EndScan \/ Blink

Spec == Init /\ [][Next]_vars

(* UserMain runs alone on its task: every enabled step is taken.          *)
FairSpec == Spec /\ WF_vars(Next)

-----------------------------------------------------------------------------
(* The scan ends: the u8 counter reaches the loop bound.                  *)
ScanTerminates == <>done

(* When the scan ends, every device with a 7-bit address the loop covers  *)
(* has been reported.                                                     *)
AllDevicesFound == done => \A d \in devices : d >= 8 => d \in found

(* Every address reported has a device at it.                             *)
OnlyDevicesFound == found \subseteq devices
=============================================================================
