----------------------------- MODULE BlockDevice -----------------------------
(***************************************************************************)
(* What a disk promises its host, whatever the transport under it: one     *)
(* command at a time, its blocks accessed in order and each once, one      *)
(* verdict at its end that is never taken back, and nothing accessed after *)
(* the verdict, during a recovery or between two commands.                 *)
(***************************************************************************)
EXTENDS Integers, Sequences

CONSTANTS Commands, Blocks

VARIABLES
  stage,    \* "idle", "busy" with a command, "decided", or "recovering"
  command,  \* the command under way or the last one
  touched,  \* the blocks accessed for it
  verdict   \* what the host is about to be told

vars == <<stage, command, touched, verdict>>

Init ==
  /\ stage = "idle" /\ command \in Commands
  /\ touched = <<>> /\ verdict = "none"

\* All the blocks of a read or write; refused is what no device can do.
Wanted(c)  == IF c.op \in {"read", "write"} THEN [i \in 1 .. c.nbr |-> c.lba + i - 1]
              ELSE <<>>
Refused(c) == c.op \in {"unsupported", "invalid"}

\* At most one more block of c is accessed: the next one, if c fits the disk.
Access(c, before) ==
  \/ touched' = before
  \/ /\ Len(before) < Len(Wanted(c)) /\ c.lba + c.nbr <= Blocks
     /\ touched' = Append(before, Wanted(c)[Len(before) + 1])

\* The command goes on, or is judged: it has passed only when all is done.
Outcome(c) ==
  \/ stage' = "busy" /\ verdict' = "none"
  \/ stage' = "decided" /\ verdict' = "FAILED"
  \/ stage' = "decided" /\ verdict' = "PASSED" /\ ~Refused(c) /\ touched' = Wanted(c)

Accept(c) ==
  /\ stage = "idle"
  /\ command' = c /\ Access(c, <<>>) /\ Outcome(c)

Work ==
  /\ stage = "busy"
  /\ Access(command, touched) /\ Outcome(command)
  /\ UNCHANGED command

Tell ==
  /\ stage = "decided"
  /\ stage' = "idle" /\ verdict' = "none"
  /\ UNCHANGED <<command, touched>>

\* The host gives the command up, told or not, and recovers.
GiveUp ==
  /\ stage \in {"busy", "decided"}
  /\ stage' = "recovering" /\ verdict' = "none"
  /\ UNCHANGED <<command, touched>>

\* The end of a recovery, or a new configuration at any time.
StartOver ==
  /\ stage' = "idle" /\ verdict' = "none"
  /\ UNCHANGED <<command, touched>>

Next == (\E c \in Commands : Accept(c)) \/ Work \/ Tell \/ GiveUp \/ StartOver

Spec == Init /\ [][Next]_vars

=============================================================================
