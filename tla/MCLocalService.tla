--------------------------- MODULE MCLocalService ---------------------------
(* Small instances of LocalService. *)
EXTENDS LocalService

==============================================================================
