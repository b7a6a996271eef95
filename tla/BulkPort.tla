------------------------------ MODULE BulkPort ------------------------------
(***************************************************************************)
(* The bulk endpoint packet by packet: HAL_PCD_EP_Transmit and Receive cut *)
(* a buffer into packets, PCD_EP_ISR_Handler goes on with it when one has  *)
(* been moved, and the callbacks of the last packet run the mass storage   *)
(* class.  Host and peripheral move packets between any two steps of the   *)
(* handler, which looks at the endpoint once for both directions and       *)
(* serves OUT before IN.                                                   *)
(*                                                                         *)
(* MscBot takes a transmission as one step that ends when the host has all *)
(* of it; this module is about whether it does.                            *)
(***************************************************************************)
EXTENDS Naturals, SequencesExt

CONSTANTS
  MaxPacket,  \* of the endpoint; a CBW and a CSW fit
  Media,      \* MSC_MEDIA_PACKET, a number of whole packets
  Commands    \* what the host may ask: kind, and size of the data

Kinds == {"none", "reply", "read", "write", "refused"}

ASSUME SizeAssumption ==
  /\ MaxPacket \in Nat \ {0}
  /\ Media \in Nat \ {0} /\ Media % MaxPacket = 0
\* Replies fit a packet; reads and writes move whole media packets.
ASSUME CommandAssumption ==
  /\ Commands \subseteq [kind : Kinds, size : Nat]
  /\ \A c \in Commands :
       /\ c.kind = "reply" => c.size \in 1 .. MaxPacket
       /\ c.kind \in {"read", "write"} => c.size > 0 /\ c.size % Media = 0

CBW == [what |-> "cbw", at |-> 0, len |-> 1]
NoCommand == [kind |-> "none", size |-> 0]

VARIABLES
  bot_state, cbw,
  moved,      \* how much of the command's data the class has handed on
  in_ep,      \* IN_ep[1]: what the buffer holds, from where, xfer_len
  out_ep,     \* OUT_ep[1]: where the next packet goes, xfer_len
  tx, rx,     \* the endpoint's status in each direction
  tx_packet, rx_packet,  \* packet memory
  ctr,        \* completions to be served
  seen,       \* the completions the handler has seen and not yet served
  stage, asked, given, got, stored,  \* host; stored: what it finds written
  hasty       \* history: a command came before the last status was served

classVars == <<bot_state, cbw, moved, stored>>
inVars  == <<in_ep, tx, tx_packet>>
outVars == <<out_ep, rx>>
hostVars == <<stage, asked, given, got, hasty>>
vars == <<classVars, inVars, outVars, rx_packet, ctr, seen, hostVars>>

Init ==
  /\ bot_state = "IDLE" /\ cbw = NoCommand /\ moved = 0 /\ stored = <<>>
  /\ in_ep = [what |-> "csw", at |-> 0, xfer_len |-> 0]
  /\ out_ep = [at |-> 0, xfer_len |-> 0]
  /\ tx = "nak" /\ rx = "valid"
  /\ tx_packet = [what |-> "csw", at |-> 0, len |-> 0] /\ rx_packet = CBW
  /\ ctr = {} /\ seen = {}
  /\ stage = "idle" /\ asked = NoCommand /\ given = 0 /\ got = <<>>
  /\ hasty = FALSE

-----------------------------------------------------------------------------
\* Mutant: a transfer is not cut.
CutNot(n) == n

\* The length of the next packet of a transfer of n.
Cut(n) == IF n > MaxPacket THEN MaxPacket ELSE n

\* HAL_PCD_EP_Transmit and the IN half of USB_EPStartXfer.
Transmit(what, at, n) ==
  /\ in_ep' = [what |-> what, at |-> at, xfer_len |-> n - Cut(n)]
  /\ tx_packet' = [what |-> what, at |-> at, len |-> Cut(n)]
  /\ tx' = "valid"

\* HAL_PCD_EP_Receive and the OUT half.
Receive(at, n) ==
  /\ out_ep' = [at |-> at, xfer_len |-> n - Cut(n)]
  /\ rx' = "valid"

SendCSW ==
  /\ bot_state' = "IDLE"
  /\ Transmit("csw", 0, 1) /\ Receive(0, 1)

\* Mutant: the last packet of the data is not told from the others.
ProcessReadOn(done) ==
  /\ Transmit("data", done, Media)
  /\ moved' = done + Media /\ bot_state' = "DATA_IN"
  /\ UNCHANGED outVars

\* SCSI_ProcessRead, when so much has been read.
ProcessRead(done) ==
  /\ Transmit("data", done, Media)
  /\ moved' = done + Media
  /\ bot_state' = IF moved' = cbw'.size THEN "LAST_DATA_IN" ELSE "DATA_IN"
  /\ UNCHANGED outVars

\* Mutant: the endpoint is not armed for the next part.
ProcessWriteUnarmed ==
  /\ moved' = moved + Media
  /\ IF moved' = cbw.size THEN SendCSW
     ELSE UNCHANGED <<bot_state, inVars, outVars>>

\* SCSI_ProcessWrite, of the media packet that is complete.
ProcessWrite ==
  /\ moved' = moved + Media
  /\ IF moved' = cbw.size THEN SendCSW
     ELSE Receive(moved', Media) /\ UNCHANGED <<bot_state, inVars>>

\* MSC_BOT_CBW_Decode with the command's handler.
Decode ==
  /\ cbw' = asked
  /\ \/ asked.kind = "none" /\ SendCSW /\ moved' = 0
     \/ /\ asked.kind = "reply" /\ bot_state' = "SEND_DATA"
        /\ Transmit("data", 0, asked.size) /\ moved' = asked.size
        /\ UNCHANGED outVars
     \/ asked.kind = "read" /\ ProcessRead(0)
     \/ /\ asked.kind = "write" /\ bot_state' = "DATA_OUT" /\ moved' = 0
        /\ Receive(0, Media)
        /\ UNCHANGED inVars
     \/ /\ asked.kind = "refused" /\ tx' = "stall" /\ moved' = 0
        /\ UNCHANGED <<bot_state, in_ep, tx_packet, outVars>>

\* MSC_BOT_DataOut: the endpoint is armed in two of the states only.
DataOutStage ==
  \/ bot_state = "IDLE" /\ Decode
  \/ bot_state = "DATA_OUT" /\ ProcessWrite /\ UNCHANGED cbw

\* MSC_BOT_DataIn.
DataInStage ==
  /\ \/ bot_state = "DATA_IN" /\ cbw' = cbw /\ ProcessRead(moved)
     \/ bot_state \in {"SEND_DATA", "LAST_DATA_IN"} /\ SendCSW /\ UNCHANGED <<cbw, moved>>
     \/ /\ bot_state \in {"IDLE", "DATA_OUT"}
        /\ UNCHANGED <<bot_state, cbw, moved, inVars, outVars>>
  /\ UNCHANGED stored

-----------------------------------------------------------------------------
\* PCD_EP_ISR_Handler, for this endpoint.

\* Its register is read once.
Look ==
  /\ seen = {} /\ ctr # {}
  /\ seen' = ctr
  /\ UNCHANGED <<classVars, inVars, outVars, rx_packet, ctr, hostVars>>

\* OUT: a data packet goes to the buffer.  RX COMPLETE: the last one, or a short
\* one.
ServeOut ==
  /\ "rx" \in seen
  /\ seen' = seen \ {"rx"} /\ ctr' = ctr \ {"rx"}
  /\ stored' = IF rx_packet.what = "data"
               THEN Append(stored, [rx_packet EXCEPT !.at = out_ep.at]) ELSE stored
  /\ IF out_ep.xfer_len = 0 \/ rx_packet.len < MaxPacket
     THEN DataOutStage
     ELSE /\ Receive(out_ep.at + rx_packet.len, out_ep.xfer_len)
          /\ UNCHANGED <<bot_state, cbw, moved, inVars>>
  /\ UNCHANGED <<rx_packet, hostVars>>

\* Mutant: the flag stays.
ClearInForgets ==
  /\ seen = {"tx"} /\ seen' = {"sent"}
  /\ UNCHANGED <<classVars, inVars, outVars, rx_packet, ctr, hostVars>>

\* IN: the flag first ...
ClearIn ==
  /\ seen = {"tx"} /\ seen' = {"sent"}
  /\ ctr' = ctr \ {"tx"}
  /\ UNCHANGED <<classVars, inVars, outVars, rx_packet, hostVars>>

\* Mutant: the buffer is not moved on.
ServeInKeepsBuffer ==
  /\ seen = {"sent"} /\ seen' = {}
  /\ IF in_ep.xfer_len = 0 THEN DataInStage
     ELSE /\ Transmit(in_ep.what, in_ep.at, in_ep.xfer_len)
          /\ UNCHANGED <<classVars, outVars>>
  /\ UNCHANGED <<rx_packet, ctr, hostVars>>

\* ... then the rest of the buffer, by the length of the packet.  TX COMPLETE:
\* there is none.
ServeIn ==
  /\ seen = {"sent"} /\ seen' = {}
  /\ IF in_ep.xfer_len = 0 THEN DataInStage
     ELSE /\ Transmit(in_ep.what, in_ep.at + tx_packet.len, in_ep.xfer_len)
          /\ UNCHANGED <<classVars, outVars>>
  /\ UNCHANGED <<rx_packet, ctr, hostVars>>

Interrupt == Look \/ ServeOut \/ ClearIn \/ ServeIn

-----------------------------------------------------------------------------
\* The packets a buffer of n goes over the bus in.
Packets(n) ==
  [i \in 1 .. (n + MaxPacket - 1) \div MaxPacket |->
    LET at == (i - 1) * MaxPacket
    IN  [what |-> "data", at |-> at, len |-> IF n - at > MaxPacket THEN MaxPacket ELSE n - at]]

\* What the host has to get for a command, and what has to be stored.
Answer(c) ==
  LET csw == [what |-> "csw", at |-> 0, len |-> 1]
  IN  IF c.kind \in {"reply", "read"} THEN Append(Packets(c.size), csw) ELSE <<csw>>

Written(c) == IF c.kind = "write" THEN Packets(c.size) ELSE <<>>

deviceVars == <<bot_state, cbw, moved, in_ep, tx_packet, out_ep, seen>>

SendCBW(c) ==
  /\ stage = "idle" /\ rx = "valid"
  /\ rx' = "nak" /\ rx_packet' = CBW /\ ctr' = ctr \cup {"rx"}
  /\ asked' = c /\ given' = 0 /\ got' = <<>> /\ stored' = <<>>
  /\ stage' = IF c.kind = "write" THEN "out" ELSE "in"
  /\ hasty' = (hasty \/ "tx" \in ctr)
  /\ UNCHANGED <<deviceVars, tx>>

GiveData ==
  /\ stage = "out" /\ rx = "valid"
  /\ rx' = "nak" /\ ctr' = ctr \cup {"rx"}
  /\ rx_packet' = [what |-> "data", at |-> 0, len |-> MaxPacket]
  /\ given' = given + MaxPacket
  /\ stage' = IF given' = asked.size THEN "in" ELSE "out"
  /\ UNCHANGED <<deviceVars, stored, tx, asked, got, hasty>>

TakePacket ==
  /\ stage = "in" /\ tx = "valid" /\ Len(got) < Len(Answer(asked))
  /\ tx' = "nak" /\ ctr' = ctr \cup {"tx"}
  /\ got' = Append(got, tx_packet)
  /\ stage' = IF tx_packet.what = "csw" THEN "idle" ELSE "in"
  /\ UNCHANGED <<deviceVars, stored, rx, rx_packet, asked, given, hasty>>

\* CLEAR_FEATURE(ENDPOINT_HALT): the endpoint is closed and opened, and
\* MSC_BOT_CplClrFeature sends the status.
ClearHalt ==
  /\ stage = "in" /\ tx = "stall" /\ seen = {}
  /\ SendCSW
  /\ UNCHANGED <<cbw, moved, stored, rx_packet, ctr, seen, hostVars>>

\* The host's patience ends: it resets the port and configures the device anew.
ResetPort ==
  /\ stage # "idle" /\ seen = {}
  /\ bot_state' = "IDLE" /\ Receive(0, 1)
  /\ tx' = "nak" /\ ctr' = {}
  /\ stage' = "idle" /\ hasty' = FALSE
  /\ asked' = NoCommand /\ got' = <<>> /\ stored' = <<>>
  /\ UNCHANGED <<cbw, moved, in_ep, tx_packet, rx_packet, given, seen>>

Host ==
  \/ \E c \in Commands : SendCBW(c)
  \/ GiveData \/ TakePacket \/ ClearHalt \/ ResetPort

Next == Interrupt \/ Host

Spec == Init /\ [][Next]_vars

\* The interrupt is served, and the host goes on with a command it has begun.
FairSpec ==
  Spec /\ WF_vars(Interrupt) /\ WF_vars(GiveData \/ TakePacket \/ ClearHalt)

-----------------------------------------------------------------------------
\* The types of the variables.
TypeOK ==
  /\ bot_state \in {"IDLE", "DATA_IN", "DATA_OUT", "SEND_DATA", "LAST_DATA_IN"}
  /\ cbw \in Commands \cup {NoCommand} /\ asked \in Commands \cup {NoCommand}
  /\ moved \in Nat /\ given \in Nat
  /\ in_ep \in [what : {"data", "csw"}, at : Nat, xfer_len : 0 .. Media]
  /\ out_ep \in [at : Nat, xfer_len : 0 .. Media]
  /\ tx \in {"nak", "valid", "stall"} /\ rx \in {"nak", "valid"}
  /\ tx_packet \in [what : {"data", "csw"}, at : Nat, len : 0 .. MaxPacket]
  /\ rx_packet \in [what : {"data", "cbw"}, at : {0}, len : 1 .. MaxPacket]
  /\ ctr \subseteq {"rx", "tx"} /\ seen \subseteq {"rx", "tx", "sent"}
  /\ stage \in {"idle", "out", "in"}
  /\ hasty \in BOOLEAN

\* The host gets the packets of each answer in order, each once, and what it
\* writes lands where it belongs, as long as it sends no command before the last
\* status has been served: every packet so far, and all of them at the end.
Delivered ==
  ~hasty =>
    /\ IsPrefix(got, Answer(asked)) /\ IsPrefix(stored, Written(asked))
    /\ stage = "idle" /\ asked # NoCommand => got = Answer(asked) /\ stored = Written(asked)

\* TX COMPLETE means it: when the class is told, the host has the packet, with
\* the same exception.
TxComplete == ~hasty /\ seen = {"sent"} /\ bot_state # "IDLE" => tx = "nak"

\* A command that has been sent gets its status, with the same exception.
Answered == stage # "idle" ~> (stage = "idle" \/ hasty)

-----------------------------------------------------------------------------
\* For the proofs: where a command is, as long as none has come too early.

\* A whole packet of the data from at on, and a sequence of them up to end.
Packet(at) == [what |-> "data", at |-> at, len |-> MaxPacket]

InOrder(s, end) ==
  /\ Len(s) * MaxPacket = end
  /\ \A i \in 1 .. Len(s) : s[i] = Packet((i - 1) * MaxPacket)

Csw == [what |-> "csw", at |-> 0, len |-> 1]

\* Nothing has been moved that the handler has not served, or one IN packet.
Quiet == ctr = {} /\ seen = {}
Taken ==
  /\ tx = "nak"
  /\ (ctr = {"tx"} /\ seen \in {{}, {"tx"}}) \/ (ctr = {} /\ seen = {"sent"})

\* Between two commands.
Resting ==
  /\ stage = "idle" /\ bot_state = "IDLE"
  /\ rx = "valid" /\ tx = "nak" /\ out_ep.xfer_len = 0
  /\ Quiet \/ (Taken /\ in_ep.xfer_len = 0)
  /\ \/ asked = NoCommand /\ got = <<>> /\ stored = <<>>
     \/ got = Answer(asked) /\ stored = Written(asked)

\* The CBW is in the packet memory.
Commanded ==
  /\ stage = (IF asked.kind = "write" THEN "out" ELSE "in") /\ bot_state = "IDLE"
  /\ rx = "nak" /\ tx = "nak" /\ out_ep.xfer_len = 0
  /\ rx_packet = CBW /\ ctr = {"rx"}
  /\ seen \in {{}, {"rx"}} \/ (seen = {"sent"} /\ in_ep.xfer_len = 0)
  /\ got = <<>> /\ stored = <<>> /\ given = 0

\* A reply, of one packet, or a part of a read is on its way to the host.
Replying ==
  /\ asked.kind = "reply" /\ bot_state = "SEND_DATA"
  /\ in_ep.xfer_len = 0
  /\ tx_packet = [what |-> "data", at |-> 0, len |-> asked.size]
  /\ got = IF tx = "valid" THEN <<>> ELSE <<tx_packet>>

ReadingOn ==
  /\ asked.kind = "read"
  /\ bot_state = IF moved = asked.size THEN "LAST_DATA_IN" ELSE "DATA_IN"
  /\ in_ep.what = "data" /\ tx_packet = Packet(in_ep.at)
  /\ InOrder(got, IF tx = "valid" THEN in_ep.at ELSE in_ep.at + MaxPacket)
  /\ in_ep.xfer_len % MaxPacket = 0
  /\ moved = in_ep.at + MaxPacket + in_ep.xfer_len
  /\ moved % Media = 0 /\ moved <= asked.size

Sending ==
  /\ stage = "in" /\ cbw = asked /\ rx = "nak" /\ stored = <<>>
  /\ (tx = "valid" /\ Quiet) \/ Taken
  /\ Replying \/ ReadingOn

\* A part of a write is on its way to the device.
Writing ==
  /\ asked.kind = "write" /\ cbw = asked
  /\ bot_state = "DATA_OUT" /\ tx = "nak" /\ got = <<>>
  /\ \/ rx = "valid" /\ Quiet /\ given = out_ep.at /\ stage = "out"
     \/ /\ rx = "nak" /\ ctr = {"rx"} /\ seen \in {{}, {"rx"}}
        /\ rx_packet = Packet(0) /\ given = out_ep.at + MaxPacket
        /\ stage = IF given = asked.size THEN "in" ELSE "out"
  /\ InOrder(stored, out_ep.at)
  /\ out_ep.xfer_len % MaxPacket = 0
  /\ moved + Media = out_ep.at + MaxPacket + out_ep.xfer_len
  /\ moved % Media = 0 /\ moved + Media <= asked.size

\* The command is refused; the host has not yet cleared the endpoint.
Refused ==
  /\ asked.kind = "refused" /\ stage = "in" /\ bot_state = "IDLE"
  /\ tx = "stall" /\ Quiet
  /\ got = <<>> /\ stored = <<>>

\* The status is ready for the host.
Closing ==
  /\ stage = "in" /\ bot_state = "IDLE"
  /\ rx = "valid" /\ out_ep.xfer_len = 0
  /\ tx = "valid" /\ Quiet /\ in_ep.xfer_len = 0 /\ tx_packet = Csw
  /\ Append(got, Csw) = Answer(asked) /\ stored = Written(asked)

Stages == Resting \/ Commanded \/ Sending \/ Writing \/ Refused \/ Closing

DataPacket == [what : {"data", "csw", "cbw"}, at : Nat, len : Nat]
HistoryOK == got \in Seq(DataPacket) /\ stored \in Seq(DataPacket)

IInv == TypeOK /\ HistoryOK /\ (~hasty => Stages)


=============================================================================
