-------------------------- MODULE DownloadCacheMC ---------------------------
(* DownloadCache for TLC: two or three processes and one or two files. *)
EXTENDS DownloadCache

CONSTANTS p1, p2, p3, u1, u2
=============================================================================
