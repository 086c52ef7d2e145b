--------------------------------- MODULE PCI ----------------------------------
(***************************************************************************)
(* The scan of the PCI bus, kernel/drivers/pci.c, one question per step.   *)
(* A function is known by the name that devfs gives it, which has its bus, *)
(* slot and function number; slots are numbered over all buses.            *)
(***************************************************************************)
EXTENDS Integers, FiniteSets, SequencesExt

CONSTANTS PciFunctions,    \* what answers on the bus: name |-> [slot, func, multi]
          Slots,           \* 256 buses of 32 slots
          MAX_PCI_DEVICES  \* 64

ASSUME PCIAssumption ==
  /\ Slots \in Nat \ {0} /\ MAX_PCI_DEVICES \in Nat
  /\ IsFiniteSet(DOMAIN PciFunctions)
  /\ \A n \in DOMAIN PciFunctions :
       PciFunctions[n].slot \in 0 .. Slots - 1 /\ PciFunctions[n].func \in 0 .. 7
  /\ \A m, n \in DOMAIN PciFunctions :
       PciFunctions[m].slot = PciFunctions[n].slot /\ PciFunctions[m].func = PciFunctions[n].func => m = n

VARIABLES pci_devices,          \* the names in the table, in its order
          pci_slot, pci_func    \* the function that is asked for next
pci == <<pci_devices, pci_slot, pci_func>>

PciInit == pci_devices = <<>> /\ pci_slot = 0 /\ pci_func = 0

\* A full table drops the function.
pci_check_function(devices, n) ==
  IF Len(devices) < MAX_PCI_DEVICES THEN Append(devices, n) ELSE devices

Answering(s, f) == {n \in DOMAIN PciFunctions : PciFunctions[n].slot = s /\ PciFunctions[n].func = f}

\* Without function 0 a slot has none, and those behind it are asked for only if
\* it says that there are several.
ScanFunction ==
  /\ pci_slot < Slots
  /\ \/ Answering(pci_slot, pci_func) = {} /\ UNCHANGED pci_devices
     \/ \E n \in Answering(pci_slot, pci_func) : pci_devices' = pci_check_function(pci_devices, n)
  /\ IF pci_func < 7 /\ \E n \in Answering(pci_slot, 0) : PciFunctions[n].multi
     THEN pci_func' = pci_func + 1 /\ UNCHANGED pci_slot
     ELSE pci_func' = 0 /\ pci_slot' = pci_slot + 1
==============================================================================
