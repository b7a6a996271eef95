------------------------------ MODULE MC_MscBot ------------------------------
(***************************************************************************)
(* MscBot for TLC: a disk of three blocks of four bytes, in a space of four*)
(* times as many bytes that wraps at 64.  The commands are those of a host *)
(* that uses the disk, those it may get wrong, and those the class refuses.*)
(***************************************************************************)
EXTENDS MscBot

Cmd(op, dir, len, alloc, lba, nbr) ==
  [op |-> op, dir |-> dir, len |-> len, alloc |-> alloc, lba |-> lba, nbr |-> nbr]

Plain ==
  {Cmd("ready", "in", 0, 0, 0, 0), Cmd("startstop", "in", 0, 0, 0, 0),
   Cmd("capacity", "in", Reply, 0, 0, 0), Cmd("sense", "in", Reply, Reply, 0, 0),
   Cmd("mode", "in", Reply + 2, 0, 0, 0), Cmd("mode", "in", Reply - 1, 0, 0, 0),
   Cmd("inquiry", "in", Reply - 1, Reply - 1, 0, 0)}

Ranges == {<<lba, n>> \in (0 .. Blocks) \X (1 .. 3) : lba + n <= Blocks + 1}
Transfers ==
  {Cmd("read", "in", r[2] * Size, 0, r[1], r[2]) : r \in Ranges}
  \cup {Cmd("write", "out", r[2] * Size, 0, r[1], r[2]) : r \in Ranges}

Refused ==
  {Cmd("unsupported", "in", 4, 0, 0, 0), Cmd("unsupported", "out", 8, 0, 0, 0),
   Cmd("unsupported", "in", 0, 0, 0, 0), Cmd("ready", "out", 4, 0, 0, 0),
   Cmd("read", "in", 4, 0, 0, 2), Cmd("write", "out", 8, 0, 0, 1),
   Cmd("read", "out", 4, 0, 0, 1), Cmd("write", "in", 4, 0, 0, 1)}

\* The host expects data that the device has not.
Bare ==
  {Cmd("startstop", "in", 4, 0, 0, 0), Cmd("inquiry", "in", Reply, 0, 0, 0),
   Cmd("sense", "in", Reply, 0, 0, 0)}

Empty == {Cmd("read", "in", 0, 0, 1, 0)}
Waiting == {Cmd("write", "out", 0, 0, 1, 0)}
Damaged == {Cmd("invalid", "in", 0, 0, 0, 0), Cmd("invalid", "in", 4, 0, 0, 0)}
Verify == {Cmd("verify", "in", 0, 0, 0, 1), Cmd("verify", "out", 4, 0, 0, 1)}

WorkCommands == Plain \cup Transfers \cup Refused \cup Empty \cup Verify
AllCommands  == WorkCommands \cup Bare \cup Waiting \cup Damaged
InCommands   == {c \in WorkCommands : c.dir = "in"}
VerifyCommands ==
  Plain \cup Verify \cup {c \in Transfers : c.lba + c.nbr <= Blocks}

NoTrouble == {}
ClassReset == {"reset"}
BothResets == {"reset", "reconfigure"}

=============================================================================
