------------------------------- MODULE UsbCore -------------------------------
(***************************************************************************)
(* The USB device core: the interrupt handler of stm32f1xx_hal_pcd.c step  *)
(* by step, endpoint 0, the standard requests of usbd_ctlreq.c, and the    *)
(* device state under bus reset, suspend and resume (usbd_core.c), against *)
(* a host that enumerates the device and starts over when that fails.      *)
(*                                                                         *)
(* The peripheral raises its flags at any moment, also between two steps   *)
(* of the handler.  All data of endpoint 0 fit one packet.                 *)
(***************************************************************************)
EXTENDS Integers

CONSTANTS
  Addresses,  \* what the host may assign
  Requests,   \* the requests it may make
  Upsets      \* how often it suspends the bus, resets it out of turn or makes
              \*   the request after which the device no longer listens

Names ==
  {"GET_DESCRIPTOR", "NO_DESCRIPTOR", "SET_ADDRESS", "SET_CONFIGURATION",
   "GET_CONFIGURATION", "GET_STATUS", "SET_REMOTE_WAKEUP",
   "CLEAR_REMOTE_WAKEUP", "OTHER_FEATURE", "GET_MAX_LUN", "SET_INTERFACE",
   "BOT_RESET", "OTHER_CLASS", "SET_HALT", "CLEAR_HALT", "GET_EP_STATUS"}

ASSUME AddressAssumption == Addresses \subseteq Nat \ {0}
ASSUME RequestAssumption ==
  /\ Requests \subseteq [name : Names, value : Nat]
  /\ \A r \in Requests : r.name = "SET_ADDRESS" => r.value \in Addresses
ASSUME UpsetAssumption == Upsets \in Nat

NoRequest == [name |-> "none", value |-> 0]
Off == -1

VARIABLES
  dev_state, dev_old_state, dev_config,
  open,          \* pClassData is not NULL: the class has its endpoints
  ep0_state,
  USB_Address,   \* of the PCD handle: the address to take on, or 0
  Setup,         \* of the PCD handle: the request received last
  daddr,         \* DADDR, or Off while the function is disabled
  ctr,           \* completions of endpoint 0 to be served
  tx, rx,        \* what endpoint 0 is armed for
  RESET, WKUP, SUSP,  \* flags of ISTR
  FSUSP,         \* of CNTR
  pc,            \* what HAL_PCD_IRQHandler looks at next
  bus, view, addr, stage, req,  \* host
  left,          \* host: Upsets still to come
  raced          \* history: a resume has restored a state that was not the
                 \*   one suspended

stateVars == <<dev_state, dev_old_state, dev_config, open>>
ep0Vars   == <<ep0_state, USB_Address, Setup>>
portVars  == <<tx, rx>>
flagVars  == <<RESET, WKUP, SUSP, FSUSP>>
hostVars  == <<bus, view, addr, stage, req, left>>
vars == <<stateVars, ep0Vars, daddr, ctr, portVars, flagVars, pc, hostVars,
          raced>>

Init ==
  /\ dev_state = "DEFAULT" /\ dev_old_state = "none" /\ dev_config = 0
  /\ open = FALSE
  /\ ep0_state = "IDLE" /\ USB_Address = 0 /\ Setup = NoRequest
  /\ daddr = Off /\ ctr = {} /\ tx = "off" /\ rx = "off"
  /\ RESET = FALSE /\ WKUP = FALSE /\ SUSP = FALSE /\ FSUSP = FALSE
  /\ pc = "idle"
  /\ bus = "active" /\ view = "failed" /\ addr = 0
  /\ stage = "none" /\ req = NoRequest /\ left = Upsets
  /\ raced = FALSE

-----------------------------------------------------------------------------
\* The answers a request handler may give.

\* USBD_CtlSendData.
CtlSendData ==
  /\ ep0_state' = "DATA_IN" /\ tx' = "data"
  /\ UNCHANGED rx

\* USBD_CtlSendStatus.
CtlSendStatus ==
  /\ ep0_state' = "STATUS_IN" /\ tx' = "status"
  /\ UNCHANGED rx

\* USBD_CtlError: both directions of endpoint 0 are halted.
CtlError == ep0_state' = "SETUP" /\ tx' = "stall" /\ rx' = "stall"

\* The handler returns without an answer.
NoAnswer == ep0_state' = "SETUP" /\ UNCHANGED portVars

\* The class's Init and DeInit; Init cannot fail.
SetClassConfig == open' = TRUE
ClrClassConfig == open' = FALSE

\* Requests that are answered in the states ADDRESSED and CONFIGURED only.
Assigned == dev_state \in {"ADDRESSED", "CONFIGURED"}

GetDescriptor ==
  /\ \/ Setup.name = "GET_DESCRIPTOR" /\ CtlSendData
     \/ Setup.name = "NO_DESCRIPTOR" /\ CtlError
  /\ UNCHANGED <<stateVars, USB_Address>>

\* Mutant: the state is left alone.
SetAddressStays ==
  /\ Setup.name = "SET_ADDRESS"
  /\ \/ dev_state = "CONFIGURED" /\ CtlError /\ UNCHANGED USB_Address
     \/ /\ dev_state # "CONFIGURED" /\ CtlSendStatus
        /\ USB_Address' = Setup.value
  /\ UNCHANGED stateVars

\* USBD_SetAddress, with an address that is not 0.
SetAddress ==
  /\ Setup.name = "SET_ADDRESS"
  /\ \/ /\ dev_state = "CONFIGURED" /\ CtlError
        /\ UNCHANGED <<dev_state, USB_Address>>
     \/ /\ dev_state # "CONFIGURED" /\ CtlSendStatus
        /\ USB_Address' = Setup.value /\ dev_state' = "ADDRESSED"
  /\ UNCHANGED <<dev_old_state, dev_config, open>>

\* USBD_SetConfig, with the class's Init and DeInit.
SetConfig ==
  /\ Setup.name = "SET_CONFIGURATION"
  /\ \/ /\ Setup.value > 1 \/ ~Assigned
        /\ CtlError /\ UNCHANGED <<dev_state, dev_config, open>>
     \/ /\ Setup.value = 1 /\ dev_state = "ADDRESSED"
        /\ dev_state' = "CONFIGURED" /\ dev_config' = 1 /\ SetClassConfig
        /\ CtlSendStatus
     \/ /\ Setup.value = 0 /\ dev_state = "CONFIGURED"
        /\ dev_state' = "ADDRESSED" /\ dev_config' = 0 /\ ClrClassConfig
        /\ CtlSendStatus
     \/ /\ Setup.value = 1 /\ dev_state = "CONFIGURED"
        /\ dev_config' = 1
        /\ IF dev_config = 1 THEN UNCHANGED open ELSE SetClassConfig
        /\ CtlSendStatus /\ UNCHANGED dev_state
     \/ /\ Setup.value = 0 /\ dev_state = "ADDRESSED"
        /\ CtlSendStatus /\ UNCHANGED <<dev_state, dev_config, open>>
  /\ UNCHANGED <<dev_old_state, USB_Address>>

\* USBD_GetConfig and USBD_GetStatus.
GetState ==
  /\ Setup.name \in {"GET_CONFIGURATION", "GET_STATUS"}
  /\ IF Assigned THEN CtlSendData ELSE CtlError
  /\ UNCHANGED <<stateVars, USB_Address>>

\* USBD_SetFeature and USBD_ClrFeature.  The class takes the second for a
\* CLEAR_FEATURE on endpoint 0, which it closes and does not open again.
Feature ==
  /\ \/ Setup.name = "SET_REMOTE_WAKEUP" /\ CtlSendStatus
     \/ /\ Setup.name = "CLEAR_REMOTE_WAKEUP" /\ Assigned
        /\ ep0_state' = "STATUS_IN" /\ tx' = "status" /\ rx' = "off"
     \/ Setup.name = "CLEAR_REMOTE_WAKEUP" /\ ~Assigned /\ CtlError
     \/ Setup.name = "OTHER_FEATURE" /\ NoAnswer
  /\ UNCHANGED <<stateVars, USB_Address>>

\* USBD_StdItfReq and USBD_MSC_Setup.  A request the class refuses gets the
\* status all the same: the result of Setup is dropped.
StdItfReq ==
  /\ Setup.name \in {"GET_MAX_LUN", "SET_INTERFACE", "BOT_RESET", "OTHER_CLASS"}
  /\ \/ dev_state # "CONFIGURED" /\ CtlError
     \/ /\ dev_state = "CONFIGURED" /\ open
        /\ Setup.name = "GET_MAX_LUN" /\ CtlSendData
     \/ /\ dev_state = "CONFIGURED" /\ open
        /\ Setup.name \in {"SET_INTERFACE", "BOT_RESET"} /\ CtlSendStatus
     \/ /\ dev_state = "CONFIGURED" /\ Setup.name = "OTHER_CLASS"
        /\ ep0_state' = "STATUS_IN" /\ tx' = "status" /\ rx' = "stall"
  /\ UNCHANGED <<stateVars, USB_Address>>

\* USBD_StdEPReq, for an endpoint of the class.
StdEPReq ==
  /\ Setup.name \in {"SET_HALT", "CLEAR_HALT", "GET_EP_STATUS"}
  /\ \/ ~Assigned /\ CtlError
     \/ dev_state = "ADDRESSED" /\ NoAnswer
     \/ /\ dev_state = "CONFIGURED"
        /\ IF Setup.name = "GET_EP_STATUS" THEN CtlSendData ELSE CtlSendStatus
  /\ UNCHANGED <<stateVars, USB_Address>>

\* The class writes through pClassData, or reads it and may write.  NULL is the
\* flash, which answers with a fault; CLEAR_HALT of the OUT endpoint only reads.
NullClass ==
  /\ dev_state = "CONFIGURED" /\ ~open
  /\ Setup.name \in {"GET_MAX_LUN", "SET_INTERFACE", "BOT_RESET", "CLEAR_HALT"}
  /\ NoAnswer
  /\ UNCHANGED <<stateVars, USB_Address>>

SetupStage ==
  \/ GetDescriptor \/ SetAddress \/ SetConfig \/ GetState \/ Feature
  \/ StdItfReq \/ StdEPReq

-----------------------------------------------------------------------------
\* HAL_PCD_IRQHandler, up to the order in which it looks at the flags.
interruptVars == <<daddr, ctr, flagVars, hostVars, raced>>

Enter ==
  /\ pc = "idle"
  /\ ctr # {} \/ RESET \/ WKUP \/ SUSP
  /\ pc' = "ctr"
  /\ UNCHANGED <<stateVars, ep0Vars, portVars, interruptVars>>

\* PCD_EP_ISR_Handler: a SETUP or OUT packet goes before an IN packet.
ServeSetup ==
  /\ pc = "ctr" /\ "setup" \in ctr
  /\ ctr' = ctr \ {"setup"}
  /\ \/ SetupStage /\ UNCHANGED pc
     \/ NullClass /\ pc' = "fault"
  /\ UNCHANGED <<Setup, daddr, flagVars, hostVars, raced>>

ServeOut ==
  /\ pc = "ctr" /\ "setup" \notin ctr /\ "out" \in ctr
  /\ ctr' = ctr \ {"out"}
  /\ rx' = "valid"
  /\ UNCHANGED <<stateVars, ep0Vars, daddr, tx, flagVars, pc, hostVars, raced>>

\* Mutant: the status of the data is not asked for.
DataInStageSilent == UNCHANGED <<ep0_state, rx>>

\* USBD_LL_DataInStage and USBD_CtlReceiveStatus.
DataInStage ==
  IF ep0_state = "DATA_IN" THEN ep0_state' = "STATUS_OUT" /\ rx' = "valid"
  ELSE UNCHANGED <<ep0_state, rx>>

\* Mutant: the new address is never taken on.
TakeAddressNever == UNCHANGED <<daddr, USB_Address>>

\* The address of a SET_ADDRESS takes effect when the status has been sent.
TakeAddress ==
  IF USB_Address > 0 THEN daddr' = USB_Address /\ USB_Address' = 0
  ELSE UNCHANGED <<daddr, USB_Address>>

ServeIn ==
  /\ pc = "ctr" /\ ctr = {"in"}
  /\ ctr' = {}
  /\ DataInStage /\ TakeAddress
  /\ UNCHANGED <<stateVars, Setup, tx, flagVars, pc, hostVars, raced>>

ServedAll ==
  /\ pc = "ctr" /\ ctr = {}
  /\ pc' = "reset"
  /\ UNCHANGED <<stateVars, ep0Vars, portVars, interruptVars>>

\* Mutant: the class is not closed.
LL_ResetKeepsClass ==
  /\ dev_state' = "DEFAULT" /\ UNCHANGED <<open, dev_old_state, dev_config>>
  /\ rx' = "valid" /\ tx' = "nak"

\* USBD_LL_Reset.
LL_Reset ==
  /\ dev_state' = "DEFAULT" /\ ClrClassConfig
  /\ UNCHANGED <<dev_old_state, dev_config>>
  /\ rx' = "valid" /\ tx' = "nak"

\* HAL_PCD_SetAddress(0).
SetDevAddress == USB_Address' = 0 /\ daddr' = 0

\* The reset callback.
ServeReset ==
  /\ pc = "reset" /\ pc' = "wkup"
  /\ \/ ~RESET /\ UNCHANGED <<stateVars, USB_Address, daddr, portVars, RESET, raced>>
     \/ /\ RESET /\ RESET' = FALSE
        /\ LL_Reset /\ SetDevAddress
        /\ raced' = FALSE
  /\ UNCHANGED <<ep0_state, Setup, ctr, WKUP, SUSP, FSUSP, hostVars>>

\* Mutant: the state is not restored.
ServeWakeupKeepsState ==
  /\ pc = "wkup" /\ pc' = "susp"
  /\ \/ ~WKUP /\ UNCHANGED <<WKUP, FSUSP>>
     \/ WKUP /\ WKUP' = FALSE /\ FSUSP' = FALSE
  /\ UNCHANGED <<stateVars, ep0Vars, daddr, ctr, portVars, RESET, SUSP, hostVars,
                 raced>>

\* USBD_LL_Resume, whatever the state is now.
LL_Resume == dev_state' = dev_old_state

\* The resume callback.
ServeWakeup ==
  /\ pc = "wkup" /\ pc' = "susp"
  /\ \/ ~WKUP /\ UNCHANGED <<dev_state, WKUP, FSUSP, raced>>
     \/ /\ WKUP /\ WKUP' = FALSE /\ FSUSP' = FALSE
        /\ LL_Resume
        /\ raced' = (raced \/ dev_state # "SUSPENDED")
  /\ UNCHANGED <<dev_old_state, dev_config, open, ep0Vars, daddr, ctr, portVars,
                 RESET, SUSP, hostVars>>

ServeSuspend ==
  /\ pc = "susp"
  /\ IF SUSP THEN FSUSP' = TRUE /\ SUSP' = FALSE /\ pc' = "check"
     ELSE pc' = "idle" /\ UNCHANGED <<FSUSP, SUSP>>
  /\ UNCHANGED <<stateVars, ep0Vars, daddr, ctr, portVars, RESET, WKUP, hostVars,
                 raced>>

\* Mutant: the state is not saved.
LL_SuspendForgets == dev_state' = "SUSPENDED" /\ UNCHANGED dev_old_state

\* USBD_LL_Suspend.
LL_Suspend == dev_state' = "SUSPENDED" /\ dev_old_state' = dev_state

\* The suspend callback, unless the bus has woken up meanwhile.
CheckWakeup ==
  /\ pc = "check" /\ pc' = "idle"
  /\ IF WKUP THEN UNCHANGED <<dev_state, dev_old_state>> ELSE LL_Suspend
  /\ UNCHANGED <<dev_config, open, ep0Vars, daddr, ctr, portVars, flagVars,
                 hostVars, raced>>

Interrupt ==
  \/ Enter \/ ServeSetup \/ ServeOut \/ ServeIn \/ ServedAll
  \/ ServeReset \/ ServeWakeup \/ ServeSuspend \/ CheckWakeup

-----------------------------------------------------------------------------
\* The peripheral.  SUSP: the bus has been idle for 3 ms; WKUP: it is not idle
\* while the peripheral is suspended.
RaiseSuspend ==
  /\ bus = "suspended" /\ ~FSUSP /\ ~SUSP
  /\ SUSP' = TRUE
  /\ UNCHANGED <<stateVars, ep0Vars, daddr, ctr, portVars, RESET, WKUP, FSUSP, pc,
                 hostVars, raced>>

RaiseWakeup ==
  /\ bus = "active" /\ FSUSP /\ ~WKUP
  /\ WKUP' = TRUE
  /\ UNCHANGED <<stateVars, ep0Vars, daddr, ctr, portVars, RESET, SUSP, FSUSP, pc,
                 hostVars, raced>>

Peripheral == RaiseSuspend \/ RaiseWakeup

deviceVars == <<stateVars, ep0Vars, WKUP, SUSP, FSUSP, pc, raced>>

\* The device hears the host, which after a resume has waited until it does.
Heard ==
  /\ bus = "active" /\ daddr = addr
  /\ ~SUSP /\ ~FSUSP /\ pc # "check"

HasData(r) ==
  r.name \in {"GET_DESCRIPTOR", "NO_DESCRIPTOR", "GET_CONFIGURATION",
              "GET_STATUS", "GET_MAX_LUN", "GET_EP_STATUS"}

\* What a host that follows the protocol asks, as it sees the device.
Proper(r) ==
  \/ r.name \in {"GET_DESCRIPTOR", "NO_DESCRIPTOR"} /\ view # "failed"
  \/ r.name = "SET_ADDRESS" /\ view = "default"
  \/ r.name \in {"SET_CONFIGURATION", "GET_CONFIGURATION", "GET_STATUS",
                 "SET_REMOTE_WAKEUP", "CLEAR_REMOTE_WAKEUP", "OTHER_FEATURE"}
     /\ view \in {"addressed", "configured"}
  \/ r.name \in {"GET_MAX_LUN", "SET_INTERFACE", "BOT_RESET", "OTHER_CLASS",
                 "SET_HALT", "CLEAR_HALT", "GET_EP_STATUS"}
     /\ view = "configured"

Ask(r) ==
  /\ stage = "none" /\ bus = "active"
  /\ Proper(r)
  /\ req' = r /\ stage' = "setup"
  /\ IF r.name = "CLEAR_REMOTE_WAKEUP" THEN left > 0 /\ left' = left - 1
     ELSE UNCHANGED left
  /\ UNCHANGED <<deviceVars, daddr, ctr, portVars, RESET, bus, view, addr>>

\* Without these the device is of no use: the host starts over.
Vital == {"GET_DESCRIPTOR", "SET_ADDRESS", "SET_CONFIGURATION", "GET_MAX_LUN"}

\* The host's transfer is over.
Succeed ==
  /\ stage' = "none"
  /\ addr' = IF req.name = "SET_ADDRESS" THEN req.value ELSE addr
  /\ view' = IF req.name = "SET_ADDRESS" THEN "addressed"
             ELSE IF req.name # "SET_CONFIGURATION" THEN view
             ELSE IF req.value = 1 THEN "configured" ELSE "addressed"
  /\ UNCHANGED <<bus, req, left>>

Fail ==
  /\ stage' = "none"
  /\ view' = IF req.name \in Vital /\ (req.name = "SET_CONFIGURATION" => req.value <= 1)
             THEN "failed" ELSE view
  /\ UNCHANGED <<bus, addr, req, left>>

\* A SETUP packet is taken in every state but a closed endpoint's.
SendSetup ==
  /\ stage = "setup" /\ Heard
  /\ rx # "off" /\ ctr \cap {"setup", "out"} = {}
  /\ ctr' = ctr \cup {"setup"} /\ tx' = "nak" /\ rx' = "nak"
  /\ Setup' = req
  /\ stage' = IF HasData(req) THEN "data" ELSE "status"
  /\ UNCHANGED <<stateVars, ep0_state, USB_Address, daddr, flagVars, pc, bus, view,
                 addr, req, left, raced>>

portOnly == <<deviceVars, daddr, RESET>>

TakeData ==
  /\ stage = "data" /\ Heard /\ tx = "data"
  /\ ctr' = ctr \cup {"in"} /\ tx' = "nak"
  /\ stage' = "status"
  /\ UNCHANGED <<portOnly, rx, bus, view, addr, req, left>>

TakeStatus ==
  /\ stage = "status" /\ ~HasData(req) /\ Heard /\ tx = "status"
  /\ ctr' = ctr \cup {"in"} /\ tx' = "nak"
  /\ Succeed
  /\ UNCHANGED <<portOnly, rx>>

GiveStatus ==
  /\ stage = "status" /\ HasData(req) /\ Heard /\ rx = "valid"
  /\ ctr' = ctr \cup {"out"} /\ rx' = "nak"
  /\ Succeed
  /\ UNCHANGED <<portOnly, tx>>

SeeStall ==
  /\ stage \in {"data", "status"} /\ Heard /\ tx = "stall"
  /\ Fail
  /\ UNCHANGED <<portOnly, ctr, portVars>>

\* The device has nothing more to do and does not answer.
Quiet == pc = "idle" /\ ctr = {} /\ ~RESET /\ ~WKUP /\ ~SUSP /\ ~FSUSP

Unanswered ==
  \/ stage = "setup" /\ (daddr # addr \/ rx = "off")
  \/ stage = "data" /\ tx \notin {"data", "stall"}
  \/ stage = "status" /\ ~HasData(req) /\ tx \notin {"status", "stall"}
  \/ stage = "status" /\ HasData(req) /\ rx # "valid" /\ tx # "stall"

GiveUp ==
  /\ \/ Quiet /\ Unanswered
     \/ pc = "fault" /\ stage # "none"
  /\ Fail
  /\ UNCHANGED <<portOnly, ctr, portVars>>

\* The disk's commands get no answer: the class has no endpoints.
NoDisk ==
  /\ view = "configured" /\ stage = "none" /\ Heard /\ Quiet /\ ~open
  /\ view' = "failed"
  /\ UNCHANGED <<portOnly, ctr, portVars, bus, addr, stage, req, left>>

\* A bus reset disables the function.  The handler takes no time, on the bus's
\* scale, from the last completion to the flag of the reset.
ResetBus ==
  /\ pc = "reset" => ctr = {}
  /\ RESET' = TRUE /\ daddr' = Off /\ tx' = "off" /\ rx' = "off"
  /\ bus' = "active" /\ view' = "default" /\ addr' = 0 /\ stage' = "none"
  /\ UNCHANGED <<deviceVars, ctr, req>>

StartOver == view = "failed" /\ bus = "active" /\ ResetBus /\ UNCHANGED left

ResetOutOfTurn == left > 0 /\ left' = left - 1 /\ ResetBus

\* The host has no transfer under way when it suspends the bus, and has seen
\* the device come out of a reset.
SuspendBus ==
  /\ left > 0 /\ left' = left - 1
  /\ bus = "active" /\ stage = "none" /\ ~RESET
  /\ bus' = "suspended"
  /\ UNCHANGED <<deviceVars, daddr, ctr, portVars, RESET, view, addr, stage, req>>

ResumeBus ==
  /\ bus = "suspended" /\ bus' = "active"
  /\ UNCHANGED <<deviceVars, daddr, ctr, portVars, RESET, view, addr, stage, req,
                 left>>

Transfer == SendSetup \/ TakeData \/ TakeStatus \/ GiveStatus \/ SeeStall \/ GiveUp
            \/ NoDisk

\* The requests that lead to a configured device, or to finding out that it is
\* not.
AskAddress == \E r \in Requests : r.name = "SET_ADDRESS" /\ Ask(r)

AskConfiguration ==
  \E r \in Requests :
    r.name = "SET_CONFIGURATION" /\ r.value = 1 /\ view = "addressed" /\ Ask(r)

AskMaxLun == \E r \in Requests : r.name = "GET_MAX_LUN" /\ Ask(r)

Host ==
  \/ \E r \in Requests : Ask(r)
  \/ Transfer \/ StartOver \/ ResetOutOfTurn \/ SuspendBus \/ ResumeBus

Next == Interrupt \/ Peripheral \/ Host

Spec == Init /\ [][Next]_vars

\* The processor serves the interrupt and the peripheral raises its flags; the
\* host goes on with a transfer, resumes, starts over after a failure, and
\* comes to the requests of the enumeration, however many others it makes.
FairSpec ==
  /\ Spec
  /\ WF_vars(Interrupt) /\ WF_vars(Peripheral)
  /\ WF_vars(Transfer) /\ WF_vars(StartOver) /\ WF_vars(ResumeBus)
  /\ SF_vars(AskAddress) /\ SF_vars(AskConfiguration) /\ SF_vars(AskMaxLun)

-----------------------------------------------------------------------------
States == {"DEFAULT", "ADDRESSED", "CONFIGURED", "SUSPENDED"}

FlagsOK ==
  /\ open \in BOOLEAN /\ raced \in BOOLEAN
  /\ RESET \in BOOLEAN /\ WKUP \in BOOLEAN /\ SUSP \in BOOLEAN /\ FSUSP \in BOOLEAN

\* The types of the variables.
TypeOK ==
  /\ FlagsOK
  /\ dev_state \in States \cup {"none"}
  /\ dev_old_state \in (States \ {"SUSPENDED"}) \cup {"none"}
  /\ dev_config \in 0 .. 1
  /\ ep0_state \in {"IDLE", "SETUP", "DATA_IN", "STATUS_IN", "STATUS_OUT"}
  /\ USB_Address \in Addresses \cup {0}
  /\ Setup \in Requests \cup {NoRequest} /\ req \in Requests \cup {NoRequest}
  /\ daddr \in Addresses \cup {0, Off} /\ addr \in Addresses \cup {0}
  /\ ctr \subseteq {"setup", "in", "out"}
  /\ tx \in {"off", "nak", "data", "status", "stall"}
  /\ rx \in {"off", "nak", "valid", "stall"}
  /\ pc \in {"idle", "ctr", "reset", "wkup", "susp", "check", "fault"}
  /\ bus \in {"active", "suspended"}
  /\ view \in {"failed", "default", "addressed", "configured"}
  /\ stage \in {"none", "setup", "data", "status"}
  /\ left \in 0 .. Upsets

\* The state the device is in, or goes back to when the bus resumes.
Effective == IF dev_state = "SUSPENDED" THEN dev_old_state ELSE dev_state

\* The class has its endpoints in the state CONFIGURED and in no other, also
\* over a suspension, unless a resume has been served for another state than
\* the one suspended.
ConfiguredIsOpen == ~raced => (open <=> Effective = "CONFIGURED")

\* Whenever the device has nothing left to serve, it is in the state the host
\* takes it to be in, with the same exception.
Agrees ==
  Quiet /\ stage = "none" /\ ~raced =>
    /\ view = "default" => dev_state = "DEFAULT" /\ daddr = 0
    /\ view = "addressed" => dev_state = "ADDRESSED" /\ daddr = addr
    /\ view = "configured" => dev_state = "CONFIGURED" /\ daddr = addr

\* The requests every device has to answer, in the states they are made in.
Ordinary(r) == r.name \notin {"OTHER_FEATURE", "CLEAR_REMOTE_WAKEUP"}

\* With the same exception, the device does not use a class it has not opened,
\* and answers each of them with data, a status or a stall.
AnswersAll ==
  ~raced =>
    /\ pc # "fault"
    /\ Quiet /\ Ordinary(req) /\ Ordinary(Setup) => ~Unanswered

\* The device is usable, and the host knows.
Usable == view = "configured" /\ dev_state = "CONFIGURED" /\ open

\* Whatever suspensions and resets came in between, and whatever state a resume
\* has restored, the host gets to a usable device again and again, unless the
\* stale state has led to the fault.
Recovers == []<>(Usable \/ pc = "fault")

=============================================================================
