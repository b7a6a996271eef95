---------------------------- MODULE MC_Bootloader ----------------------------
(***************************************************************************)
(* Bootloader for TLC: a file of five records, three of them data; three   *)
(* halves make a sector, so every second sector boundary cuts a record.    *)
(***************************************************************************)
EXTENDS Bootloader

CONSTANTS v1, v2

MC_Versions == {v1, v2}
AllTroubles == {"power", "hardware", "retry", "directory"}
DirectoryOnly == {"directory"}

=============================================================================
