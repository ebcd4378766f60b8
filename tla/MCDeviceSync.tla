---------------------------- MODULE MCDeviceSync ----------------------------
(* Constants for model-checking DeviceSync. *)
EXTENDS DeviceSync

MCCategory == [d \in Devices |-> IF d = "lamp" THEN "light" ELSE "heater"]
MCFilters == {"all", "light", "heater"}
=============================================================================
