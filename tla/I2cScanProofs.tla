--------------------------- MODULE I2cScanProofs ---------------------------
(***************************************************************************)
(* Proof that the scan loop of UserMain reports every device at 0x08 or    *)
(* above, whatever devices are on the bus.                                 *)
(***************************************************************************)
EXTENDS I2cScan, TLAPS

USE BusAssumption

(* The counter stays within the loop's range, the addresses below it have *)
(* all been probed, and the loop only ends at its bound.                  *)
IInv ==
    /\ devices \subseteq Bus
    /\ addr \in 8..240
    /\ done \in BOOLEAN
    /\ done => addr = 240
    /\ \A d \in devices : 8 <= d /\ d < addr => d \in found

-----------------------------------------------------------------------------
LEMMA InitIInv ==
    ASSUME Init
    PROVE  IInv
<1>1. done \in BOOLEAN /\ ~done
  BY Zenon DEF Init
<1> QED  BY <1>1 DEF Init, IInv

(* A device answers the probe of its own address: the shifted byte does   *)
(* not wrap below 0x80.                                                   *)
LEMMA DeviceAcked ==
    ASSUME NEW a \in 0..127, devices \subseteq Bus, a \in devices
    PROVE  Acked(AddressByte(a))
<1>1. AddressByte(a) = a * 2
  BY DEF AddressByte
<1>2. (a * 2) \div 2 = a
  OBVIOUS
<1> QED  BY <1>1, <1>2 DEF Acked

LEMMA ProbeIInv ==
    ASSUME IInv, Probe
    PROVE  IInv'
<1>1. addr' = addr + 1 /\ addr' \in 8..240
  BY DEF IInv, Probe
<1>2. addr \in devices => addr \in found'
  <2>1. addr \in devices => addr \in 0..127
    BY DEF IInv
  <2> QED  BY <2>1, DeviceAcked DEF IInv, Probe
<1>3. \A d \in devices' : 8 <= d /\ d < addr' => d \in found'
  BY <1>1, <1>2 DEF IInv, Probe
<1>4. done' \in BOOLEAN /\ ~done'
  BY Zenon DEF IInv, Probe
<1> QED  BY <1>1, <1>3, <1>4 DEF IInv, Probe

LEMMA NextIInv ==
    ASSUME IInv, [Next]_vars
    PROVE  IInv'
<1>1. CASE Probe
  BY <1>1, ProbeIInv
<1>2. CASE EndScan
  <2>1. done' \in BOOLEAN /\ done'
    BY <1>2, Zenon DEF EndScan
  <2> QED  BY <1>2, <2>1 DEF IInv, EndScan
<1>3. CASE Blink
  BY <1>3 DEF IInv, Blink
<1>4. CASE UNCHANGED vars
  BY <1>4 DEF IInv, vars
<1> QED  BY <1>1, <1>2, <1>3, <1>4 DEF Next

-----------------------------------------------------------------------------
(* For every set of devices on the bus, when the scan loop of UserMain    *)
(* ends, every device at address 0x08 or above has been printed.          *)
THEOREM AllDevicesFoundHolds == Spec => []AllDevicesFound
<1>1. IInv => AllDevicesFound
  BY DEF IInv, AllDevicesFound
<1> QED  BY <1>1, InitIInv, NextIInv, PTL DEF Spec
=============================================================================
