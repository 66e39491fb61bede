--------------------------- MODULE DeviceImagerMC ---------------------------
(* DeviceImager for TLC: a full update, of all four partitions. *)
EXTENDS DeviceImager

AllUpdaters == {"rootfs", "kernel", "stateful", "minios"}
=============================================================================
