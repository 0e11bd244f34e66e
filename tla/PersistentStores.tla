--------------------------- MODULE PersistentStores ---------------------------
(***************************************************************************)
(* What the device keeps without power: the firmware slots, the NVS memory *)
(* and the NDEF message of the NFC tag, put together for one run.          *)
(*                                                                         *)
(* The stores share nothing, and this module claims nothing about them     *)
(* together: Init chooses the one a behaviour works on, which keeps TLC    *)
(* from interleaving independent steps, and the others rest.               *)
(***************************************************************************)
EXTENDS OtaUpdate, NvsMemory, NdefTag

VARIABLE used   \* the store this behaviour works on

storeVars == <<otaVars, nvsVars, tagVars, used>>

StoresInit ==
  /\ OtaInit /\ NvsInit /\ TagInit
  /\ used \in {"ota", "nvs", "tag"}

Work ==
  \/ used = "ota" /\ (StartUpdate \/ OtaStep) /\ UNCHANGED <<nvsVars, tagVars>>
  \/ used = "nvs" /\ NvsWork /\ UNCHANGED <<otaVars, tagVars>>
  \/ used = "tag" /\ TagWork /\ UNCHANGED <<otaVars, nvsVars>>

\* One loss of power, or one panic, resets all drivers.
PowerLoss == OtaReset /\ NvsReset /\ TagReset

StoresNext == (Work \/ PowerLoss) /\ UNCHANGED used

StoresSpec == StoresInit /\ [][StoresNext]_storeVars
=============================================================================
