---------------------------- MODULE AshmemSystem ----------------------------
(***************************************************************************)
(* What the driver (Ashmem) and its promise about pages (AshmemPages) are  *)
(* both about: areas, the threads that use them and the reclaim contexts   *)
(* that purge them.                                                        *)
(***************************************************************************)

CONSTANTS
  Areas,          \* struct ashmem_area objects, one for each open()
  Clients,        \* threads that call pin, unpin, get_pin_status, read
  Shrinkers,      \* contexts that run ashmem_shrink_scan()
  NoThread

VARIABLES
  inflight,       \* ashmem_shrink_inflight, purges begun and not completed
  spc,            \* per shrinker: its place in ashmem_shrink_scan()
  lost            \* per area, pages punched and not pinned since (history)
=============================================================================
