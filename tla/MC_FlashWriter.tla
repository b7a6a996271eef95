--------------------------- MODULE MC_FlashWriter ---------------------------
(***************************************************************************)
(* FlashWriter for TLC: a flash of three words, the first of them the      *)
(* bootloader, and records at every alignment, across both ends of the     *)
(* application and across the top of the address space.                    *)
(***************************************************************************)
EXTENDS FlashWriter

\* n bytes of the pattern 1, 2, 1, ... (or of zeros) at addr.
Pattern(addr, n) == <<addr, [i \in 1..n |-> 1 + (i % 2)]>>
Zeros(addr, n) == <<addr, [i \in 1..n |-> 0]>>

Image(boot, app) == [a \in Flash |-> IF a \in App THEN app ELSE boot]

MC_Images == {Image(1, 1), Image(1, ERASED), Image(ERASED, ERASED)}

MC_Records ==
  {Pattern(APP_ADDR, n) : n \in {4, 6}}
    \cup {Pattern(APP_ADDR + 2, 4), Pattern(APP_ADDR + 5, 2),
          Pattern(APP_ADDR + 6, 2), Pattern(APP_ADDR + 1, 7),
          Zeros(APP_ADDR + 4, 2), Pattern(APP_ADDR + 3, 0)}
    \cup {Pattern(APP_ADDR - 2, 4), Pattern(FLASH_END - 2, 4)}

\* A record that ends above the last address.
WrapRecords == MC_Records \cup {Pattern(ADDRESS_SPACE - 5, 6)}

=============================================================================
