------------------------------ MODULE Installer ------------------------------
(***************************************************************************)
(* What a bootloader promises the owner of the device, whatever the file   *)
(* format, the flash and the host do: no firmware is ever whole in the     *)
(* device but the one that was and the one the host is sending; it changes *)
(* only while the host is served, and never once it is installed; what has *)
(* been installed is started at the next reset, unless the owner holds the *)
(* button; and with the check nothing but a whole firmware is started.     *)
(***************************************************************************)
CONSTANTS
  Firmware,
  Nothing,  \* no firmware is whole
  Checked   \* is the firmware checked before it is started?

VARIABLES
  phase,  \* "deciding", "serving" the host or "running" the firmware
  image,  \* the firmware that is whole, or Nothing
  file,   \* the one the host is sending, or sent last
  due     \* the file has been installed and is to be started

vars == <<phase, image, file, due>>

Init ==
  /\ phase = "deciding"
  /\ image \in Firmware \cup {Nothing} /\ file \in Firmware
  /\ due = FALSE

Decide(button) ==
  /\ phase = "deciding" /\ phase' \in {"serving", "running"}
  /\ due' = (due /\ ~button)
  /\ due' => phase' = "running"
  /\ phase' = "running" /\ Checked => image # Nothing
  /\ UNCHANGED <<image, file>>

\* The host begins to send a file, or disturbs the one it is sending.
Send ==
  /\ phase = "serving"
  /\ file' \in Firmware /\ due' = FALSE
  /\ UNCHANGED <<phase, image>>

\* A part of the file is stored, or something is erased or damaged.
Store ==
  /\ phase = "serving" /\ ~due
  /\ image' \in {image, Nothing, file}
  /\ UNCHANGED <<phase, file, due>>

Finish ==
  /\ phase = "serving" /\ image = file
  /\ due' = TRUE
  /\ UNCHANGED <<phase, image, file>>

Restart ==
  /\ phase = "serving" /\ phase' = "deciding"
  /\ UNCHANGED <<image, file, due>>

\* The firmware asks for the bootloader.
Ask ==
  /\ phase = "running" /\ phase' = "deciding"
  /\ due' = FALSE
  /\ UNCHANGED <<image, file>>

PowerCut ==
  /\ phase' = "deciding" /\ due' = FALSE
  /\ image' = image \/ (phase = "serving" /\ image' = Nothing)
  /\ UNCHANGED file

Next ==
  \/ \E button \in BOOLEAN : Decide(button)
  \/ Send \/ Store \/ Finish \/ Restart \/ Ask \/ PowerCut

Spec == Init /\ [][Next]_vars

=============================================================================
