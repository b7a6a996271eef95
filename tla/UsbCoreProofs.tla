---------------------------- MODULE UsbCoreProofs ----------------------------
(***************************************************************************)
(* Proofs about UsbCore, for every set of addresses and requests and for   *)
(* any number of suspensions, resets and resumes: its types; and, unless a *)
(* resume was served for another state than the one suspended, that the    *)
(* class is open in the state CONFIGURED and in no other, that host and    *)
(* device agree on the device's state, and that every request is answered. *)
(*                                                                         *)
(* Two facts carry the first part.  The peripheral is suspended as long as *)
(* the device state is, so a suspension never saves SUSPENDED.  And a      *)
(* SETUP packet that waits to be served was sent on a bus that has not     *)
(* been suspended since, so no request is answered in the state SUSPENDED. *)
(*                                                                         *)
(* The second part follows the talk on endpoint 0: between two requests,   *)
(* or in one of the five phases of a request, of which each fixes what the *)
(* endpoint is armed for and which state the device is in.                 *)
(***************************************************************************)
EXTENDS UsbCore, TLAPS

\* Who is suspended, and when.
Suspended ==
  /\ dev_state = "SUSPENDED" => FSUSP
  /\ SUSP => ~FSUSP
  /\ pc = "check" => FSUSP /\ dev_state # "SUSPENDED"

\* After a bus reset the device does not hear the host until it is served.
Deafened ==
  /\ RESET => addr = 0 /\ daddr # 0
  /\ RESET /\ pc = "reset" => "setup" \notin ctr

\* A request that waits to be served.
Pending ==
  "setup" \in ctr /\ pc # "fault" =>
    /\ bus = "active" /\ ~SUSP /\ ~FSUSP
    /\ RESET \/ stage \in {"data", "status"}
    /\ tx \in {"nak", "off"} /\ rx \in {"nak", "off"}

Sound == ~raced => pc # "fault"

Kept == Suspended /\ Deafened /\ Pending /\ ConfiguredIsOpen /\ Sound

\* TypeOK without the flags.
Ranges ==
  /\ dev_state \in States \cup {"none"}
  /\ dev_old_state \in (States \ {"SUSPENDED"}) \cup {"none"}
  /\ dev_config \in 0 .. 1
  /\ ep0_state \in {"IDLE", "SETUP", "DATA_IN", "STATUS_IN", "STATUS_OUT"}
  /\ USB_Address \in Addresses \cup {0}
  /\ Setup \in Requests \cup {NoRequest} /\ req \in Requests \cup {NoRequest}
  /\ daddr \in Addresses \cup {0, Off} /\ addr \in Addresses \cup {0}
  /\ ctr \subseteq {"setup", "in", "out"}
  /\ tx \in {"off", "nak", "data", "status", "stall"}
  /\ rx \in {"off", "nak", "valid", "stall"}
  /\ pc \in {"idle", "ctr", "reset", "wkup", "susp", "check", "fault"}
  /\ bus \in {"active", "suspended"}
  /\ view \in {"failed", "default", "addressed", "configured"}
  /\ stage \in {"none", "setup", "data", "status"}
  /\ left \in 0 .. Upsets

IInv == FlagsOK /\ Ranges /\ Kept

-----------------------------------------------------------------------------
\* The parts of the invariant are TypeOK and Kept.
LEMMA Parts == IInv <=> TypeOK /\ Kept
  BY DEF IInv, Ranges, TypeOK

\* The device before the first bus reset.
LEMMA InitHolds == Init => IInv
<1> SUFFICES ASSUME Init PROVE IInv
  OBVIOUS
<1>1. FlagsOK
  BY Zenon DEF Init, FlagsOK
<1>2. Ranges
  BY UpsetAssumption DEF Init, Ranges, States, Off
<1>3. Kept
  BY DEF Init, Kept, Suspended, Deafened, Pending, Sound, ConfiguredIsOpen,
     Effective
<1> QED BY <1>1, <1>2, <1>3 DEF IInv

\* What a handler of a request is given and leaves alone.
Serving ==
  /\ pc = "ctr" /\ "setup" \in ctr
  /\ ctr' = ctr \ {"setup"}
  /\ UNCHANGED <<Setup, daddr, flagVars, hostVars, raced>>

\* A descriptor, or a stall.
LEMMA GetDescriptorKeeps ==
  ASSUME IInv, Serving, GetDescriptor, UNCHANGED pc
  PROVE IInv'
<1>1. FlagsOK'
  BY Zenon DEF IInv, FlagsOK, Serving, GetDescriptor, CtlSendData,
       CtlError, stateVars, portVars, flagVars, hostVars
<1>2. Ranges'
  BY AddressAssumption, RequestAssumption, UpsetAssumption DEF IInv, Kept,
       Suspended, Ranges, States, Off, Serving, GetDescriptor, CtlSendData,
       CtlError, stateVars, portVars, flagVars, hostVars
<1>3. Kept'
  BY DEF IInv, FlagsOK, Ranges, Kept, Suspended, Deafened, Pending,
       Sound, ConfiguredIsOpen, Effective, Off, Serving, GetDescriptor,
       CtlSendData, CtlError, stateVars, portVars, flagVars, hostVars
<1> QED BY <1>1, <1>2, <1>3 DEF IInv

\* The device is not suspended, and has no class where the address is accepted.
LEMMA SetAddressKeeps ==
  ASSUME IInv, Serving, SetAddress, UNCHANGED pc
  PROVE IInv'
<1>1. FlagsOK'
  BY Zenon DEF IInv, FlagsOK, Serving, SetAddress, CtlSendStatus,
       CtlError, stateVars, portVars, flagVars, hostVars
<1>2. Ranges'
  BY AddressAssumption, RequestAssumption, UpsetAssumption DEF IInv, Kept,
       Suspended, Ranges, States, Off, NoRequest, Serving, SetAddress,
       CtlSendStatus, CtlError, stateVars, portVars, flagVars, hostVars
<1>3. Kept'
  BY DEF IInv, FlagsOK, Ranges, Kept, Suspended, Deafened, Pending,
       Sound, ConfiguredIsOpen, Effective, Off, Serving, SetAddress,
       CtlSendStatus, CtlError, stateVars, portVars, flagVars, hostVars
<1> QED BY <1>1, <1>2, <1>3 DEF IInv

\* The class is opened and closed with the configuration.
LEMMA SetConfigKeeps ==
  ASSUME IInv, Serving, SetConfig, UNCHANGED pc
  PROVE IInv'
<1>1. FlagsOK'
  BY Zenon DEF IInv, FlagsOK, Serving, SetConfig, CtlSendStatus, CtlError,
       Assigned, SetClassConfig, ClrClassConfig, stateVars, portVars,
       flagVars, hostVars
<1>2. Ranges'
  BY AddressAssumption, RequestAssumption, UpsetAssumption DEF IInv, Kept,
       Suspended, Ranges, States, Off, Serving, SetConfig, CtlSendStatus,
       CtlError, Assigned, SetClassConfig, ClrClassConfig, stateVars,
       portVars, flagVars, hostVars
<1>3. Kept'
  BY DEF IInv, FlagsOK, Ranges, Kept, Suspended, Deafened, Pending,
       Sound, ConfiguredIsOpen, Effective, Off, Serving, SetConfig,
       CtlSendStatus, CtlError, Assigned, SetClassConfig, ClrClassConfig,
       stateVars, portVars, flagVars, hostVars
<1> QED BY <1>1, <1>2, <1>3 DEF IInv

\* The configuration or the status.
LEMMA GetStateKeeps ==
  ASSUME IInv, Serving, GetState, UNCHANGED pc
  PROVE IInv'
<1>1. FlagsOK'
  BY Zenon DEF IInv, FlagsOK, Serving, GetState, Assigned, CtlSendData,
       CtlError, stateVars, portVars, flagVars, hostVars
<1>2. Ranges'
  BY AddressAssumption, RequestAssumption, UpsetAssumption DEF IInv, Kept,
       Suspended, Ranges, States, Off, Serving, GetState, Assigned,
       CtlSendData, CtlError, stateVars, portVars, flagVars, hostVars
<1>3. Kept'
  BY DEF IInv, FlagsOK, Ranges, Kept, Suspended, Deafened, Pending,
       Sound, ConfiguredIsOpen, Effective, Off, Serving, GetState, Assigned,
       CtlSendData, CtlError, stateVars, portVars, flagVars, hostVars
<1> QED BY <1>1, <1>2, <1>3 DEF IInv

\* A feature set or cleared, also with endpoint 0 closed.
LEMMA FeatureKeeps ==
  ASSUME IInv, Serving, Feature, UNCHANGED pc
  PROVE IInv'
<1>1. FlagsOK'
  BY Zenon DEF IInv, FlagsOK, Serving, Feature, Assigned, CtlSendStatus,
       CtlError, NoAnswer, stateVars, portVars, flagVars, hostVars
<1>2. Ranges'
  BY AddressAssumption, RequestAssumption, UpsetAssumption DEF IInv, Kept,
       Suspended, Ranges, States, Off, Serving, Feature, Assigned,
       CtlSendStatus, CtlError, NoAnswer, stateVars, portVars, flagVars,
       hostVars
<1>3. Kept'
  BY DEF IInv, FlagsOK, Ranges, Kept, Suspended, Deafened, Pending,
       Sound, ConfiguredIsOpen, Effective, Off, Serving, Feature, Assigned,
       CtlSendStatus, CtlError, NoAnswer, stateVars, portVars, flagVars,
       hostVars
<1> QED BY <1>1, <1>2, <1>3 DEF IInv

\* The class's own requests.
LEMMA StdItfReqKeeps ==
  ASSUME IInv, Serving, StdItfReq, UNCHANGED pc
  PROVE IInv'
<1>1. FlagsOK'
  BY Zenon DEF IInv, FlagsOK, Serving, StdItfReq, CtlSendData,
       CtlSendStatus, CtlError, stateVars, portVars, flagVars, hostVars
<1>2. Ranges'
  BY AddressAssumption, RequestAssumption, UpsetAssumption DEF IInv, Kept,
       Suspended, Ranges, States, Off, Serving, StdItfReq, CtlSendData,
       CtlSendStatus, CtlError, stateVars, portVars, flagVars, hostVars
<1>3. Kept'
  BY DEF IInv, FlagsOK, Ranges, Kept, Suspended, Deafened, Pending,
       Sound, ConfiguredIsOpen, Effective, Off, Serving, StdItfReq,
       CtlSendData, CtlSendStatus, CtlError, stateVars, portVars, flagVars,
       hostVars
<1> QED BY <1>1, <1>2, <1>3 DEF IInv

\* The requests for an endpoint.
LEMMA StdEPReqKeeps ==
  ASSUME IInv, Serving, StdEPReq, UNCHANGED pc
  PROVE IInv'
<1>1. FlagsOK'
  BY Zenon DEF IInv, FlagsOK, Serving, StdEPReq, Assigned, CtlSendData,
       CtlSendStatus, CtlError, NoAnswer, stateVars, portVars, flagVars,
       hostVars
<1>2. Ranges'
  BY AddressAssumption, RequestAssumption, UpsetAssumption DEF IInv, Kept,
       Suspended, Ranges, States, Off, Serving, StdEPReq, Assigned,
       CtlSendData, CtlSendStatus, CtlError, NoAnswer, stateVars, portVars,
       flagVars, hostVars
<1>3. Kept'
  BY DEF IInv, FlagsOK, Ranges, Kept, Suspended, Deafened, Pending,
       Sound, ConfiguredIsOpen, Effective, Off, Serving, StdEPReq, Assigned,
       CtlSendData, CtlSendStatus, CtlError, NoAnswer, stateVars, portVars,
       flagVars, hostVars
<1> QED BY <1>1, <1>2, <1>3 DEF IInv

\* The fault comes with a class that is not open, which takes a stale state.
LEMMA NullClassKeeps ==
  ASSUME IInv, Serving, NullClass, pc' = "fault"
  PROVE IInv'
<1>1. FlagsOK'
  BY Zenon DEF IInv, FlagsOK, Serving, NullClass, NoAnswer, stateVars,
       portVars, flagVars, hostVars
<1>2. Ranges'
  BY AddressAssumption, RequestAssumption, UpsetAssumption DEF IInv, Kept,
       Suspended, Ranges, States, Off, Serving, NullClass, NoAnswer,
       stateVars, portVars, flagVars, hostVars
<1>3. Kept'
  BY DEF IInv, FlagsOK, Ranges, Kept, Suspended, Deafened, Pending,
       Sound, ConfiguredIsOpen, Effective, Off, Serving, NullClass,
       NoAnswer, stateVars, portVars, flagVars, hostVars
<1> QED BY <1>1, <1>2, <1>3 DEF IInv

\* A request is served by one of the handlers.
LEMMA SetupKeeps == IInv /\ ServeSetup => IInv'
<1> SUFFICES ASSUME IInv, ServeSetup PROVE IInv'
  OBVIOUS
<1>1. Serving
  BY DEF ServeSetup, Serving
<1>2. CASE SetupStage /\ UNCHANGED pc
  BY <1>1, <1>2, GetDescriptorKeeps, SetAddressKeeps, SetConfigKeeps,
     GetStateKeeps, FeatureKeeps, StdItfReqKeeps, StdEPReqKeeps DEF SetupStage
<1>3. CASE NullClass /\ pc' = "fault"
  BY <1>1, <1>3, NullClassKeeps
<1> QED BY <1>2, <1>3 DEF ServeSetup

\* The steps of the interrupt handler: CheckWakeup saves a state that is not SUSPENDED,
\* and ServeWakeup restores another state than the one suspended with raced only.
LEMMA InterruptKeeps == IInv /\ Interrupt => IInv'
<1> SUFFICES ASSUME IInv, Interrupt PROVE IInv'
  OBVIOUS
<1>1. CASE Enter
  <2>1. FlagsOK'
  BY <1>1, Zenon DEF IInv, FlagsOK, Enter, stateVars, ep0Vars, portVars,
       interruptVars, flagVars, hostVars
  <2>2. Ranges'
  BY <1>1, AddressAssumption, RequestAssumption, UpsetAssumption DEF IInv, Kept,
       Suspended, Ranges, States, Off, Enter, stateVars, ep0Vars,
       portVars, interruptVars, flagVars, hostVars
  <2>3. Kept'
  BY <1>1 DEF IInv, FlagsOK, Ranges, Kept, Suspended, Deafened, Pending,
       Sound, ConfiguredIsOpen, Effective, Off, Enter, stateVars, ep0Vars,
       portVars, interruptVars, flagVars, hostVars
  <2> QED BY <2>1, <2>2, <2>3 DEF IInv
<1>2. CASE ServeSetup
  BY <1>2, SetupKeeps
<1>3. CASE ServeOut
  <2>1. FlagsOK'
  BY <1>3, Zenon DEF IInv, FlagsOK, ServeOut, stateVars, ep0Vars, flagVars,
       hostVars
  <2>2. Ranges'
  BY <1>3, AddressAssumption, RequestAssumption, UpsetAssumption DEF IInv, Kept,
       Suspended, Ranges, States, Off, ServeOut, stateVars, ep0Vars,
       flagVars, hostVars
  <2>3. Kept'
  BY <1>3 DEF IInv, FlagsOK, Ranges, Kept, Suspended, Deafened, Pending,
       Sound, ConfiguredIsOpen, Effective, Off, ServeOut, stateVars,
       ep0Vars, flagVars, hostVars
  <2> QED BY <2>1, <2>2, <2>3 DEF IInv
<1>4. CASE ServeIn
  <2>1. FlagsOK'
  BY <1>4, Zenon DEF IInv, FlagsOK, ServeIn, DataInStage, TakeAddress,
       stateVars, flagVars, hostVars
  <2>2. Ranges'
  BY <1>4, AddressAssumption, RequestAssumption, UpsetAssumption DEF IInv, Kept,
       Suspended, Ranges, States, Off, ServeIn, DataInStage, TakeAddress,
       stateVars, flagVars, hostVars
  <2>3. Kept'
  BY <1>4 DEF IInv, FlagsOK, Ranges, Kept, Suspended, Deafened, Pending,
       Sound, ConfiguredIsOpen, Effective, Off, ServeIn, DataInStage,
       TakeAddress, stateVars, flagVars, hostVars
  <2> QED BY <2>1, <2>2, <2>3 DEF IInv
<1>5. CASE ServedAll
  <2>1. FlagsOK'
  BY <1>5, Zenon DEF IInv, FlagsOK, ServedAll, stateVars, ep0Vars, portVars,
       interruptVars, flagVars, hostVars
  <2>2. Ranges'
  BY <1>5, AddressAssumption, RequestAssumption, UpsetAssumption DEF IInv, Kept,
       Suspended, Ranges, States, Off, ServedAll, stateVars, ep0Vars,
       portVars, interruptVars, flagVars, hostVars
  <2>3. Kept'
  BY <1>5 DEF IInv, FlagsOK, Ranges, Kept, Suspended, Deafened, Pending,
       Sound, ConfiguredIsOpen, Effective, Off, ServedAll, stateVars,
       ep0Vars, portVars, interruptVars, flagVars, hostVars
  <2> QED BY <2>1, <2>2, <2>3 DEF IInv
<1>6. CASE ServeReset
  <2>1. FlagsOK'
  BY <1>6, Zenon DEF IInv, FlagsOK, ServeReset, LL_Reset, SetDevAddress,
       ClrClassConfig, stateVars, portVars, hostVars
  <2>2. Ranges'
  BY <1>6, AddressAssumption, RequestAssumption, UpsetAssumption DEF IInv, Kept,
       Suspended, Ranges, States, Off, ServeReset, LL_Reset,
       SetDevAddress, ClrClassConfig, stateVars, portVars, hostVars
  <2>3. Kept'
  BY <1>6 DEF IInv, FlagsOK, Ranges, Kept, Suspended, Deafened, Pending,
       Sound, ConfiguredIsOpen, Effective, Off, ServeReset, LL_Reset,
       SetDevAddress, ClrClassConfig, stateVars, portVars, hostVars
  <2> QED BY <2>1, <2>2, <2>3 DEF IInv
<1>7. CASE ServeWakeup
  <2>1. FlagsOK'
  BY <1>7, Zenon DEF IInv, FlagsOK, ServeWakeup, LL_Resume, ep0Vars, portVars,
       hostVars
  <2>2. Ranges'
  BY <1>7, AddressAssumption, RequestAssumption, UpsetAssumption DEF IInv, Kept,
       Suspended, Ranges, States, Off, ServeWakeup, LL_Resume, ep0Vars,
       portVars, hostVars
  <2>3. Kept'
  BY <1>7 DEF IInv, FlagsOK, Ranges, Kept, Suspended, Deafened, Pending,
       Sound, ConfiguredIsOpen, Effective, Off, ServeWakeup, LL_Resume,
       ep0Vars, portVars, hostVars
  <2> QED BY <2>1, <2>2, <2>3 DEF IInv
<1>8. CASE ServeSuspend
  <2>1. FlagsOK'
  BY <1>8, Zenon DEF IInv, FlagsOK, ServeSuspend, stateVars, ep0Vars,
       portVars, hostVars
  <2>2. Ranges'
  BY <1>8, AddressAssumption, RequestAssumption, UpsetAssumption DEF IInv, Kept,
       Suspended, Ranges, States, Off, ServeSuspend, stateVars, ep0Vars,
       portVars, hostVars
  <2>3. Kept'
  BY <1>8 DEF IInv, FlagsOK, Ranges, Kept, Suspended, Deafened, Pending,
       Sound, ConfiguredIsOpen, Effective, Off, ServeSuspend, stateVars,
       ep0Vars, portVars, hostVars
  <2> QED BY <2>1, <2>2, <2>3 DEF IInv
<1>9. CASE CheckWakeup
  <2>1. FlagsOK'
  BY <1>9, Zenon DEF IInv, FlagsOK, CheckWakeup, LL_Suspend, ep0Vars,
       portVars, flagVars, hostVars
  <2>2. Ranges'
  BY <1>9, AddressAssumption, RequestAssumption, UpsetAssumption DEF IInv, Kept,
       Suspended, Ranges, States, Off, CheckWakeup, LL_Suspend, ep0Vars,
       portVars, flagVars, hostVars
  <2>3. Kept'
  BY <1>9 DEF IInv, FlagsOK, Ranges, Kept, Suspended, Deafened, Pending,
       Sound, ConfiguredIsOpen, Effective, Off, CheckWakeup, LL_Suspend,
       ep0Vars, portVars, flagVars, hostVars
  <2> QED BY <2>1, <2>2, <2>3 DEF IInv
<1> QED BY <1>1, <1>2, <1>3, <1>4, <1>5, <1>6, <1>7, <1>8, <1>9 DEF
       Interrupt

\* The flags the peripheral raises.
LEMMA PeripheralKeeps == IInv /\ Peripheral => IInv'
<1> SUFFICES ASSUME IInv, Peripheral PROVE IInv'
  OBVIOUS
<1>1. CASE RaiseSuspend
  <2>1. FlagsOK'
  BY <1>1, Zenon DEF IInv, FlagsOK, RaiseSuspend, stateVars, ep0Vars,
       portVars, hostVars
  <2>2. Ranges'
  BY <1>1, AddressAssumption, RequestAssumption, UpsetAssumption DEF IInv, Kept,
       Suspended, Ranges, States, Off, RaiseSuspend, stateVars, ep0Vars,
       portVars, hostVars
  <2>3. Kept'
  BY <1>1 DEF IInv, FlagsOK, Ranges, Kept, Suspended, Deafened, Pending,
       Sound, ConfiguredIsOpen, Effective, Off, RaiseSuspend, stateVars,
       ep0Vars, portVars, hostVars
  <2> QED BY <2>1, <2>2, <2>3 DEF IInv
<1>2. CASE RaiseWakeup
  <2>1. FlagsOK'
  BY <1>2, Zenon DEF IInv, FlagsOK, RaiseWakeup, stateVars, ep0Vars, portVars,
       hostVars
  <2>2. Ranges'
  BY <1>2, AddressAssumption, RequestAssumption, UpsetAssumption DEF IInv, Kept,
       Suspended, Ranges, States, Off, RaiseWakeup, stateVars, ep0Vars,
       portVars, hostVars
  <2>3. Kept'
  BY <1>2 DEF IInv, FlagsOK, Ranges, Kept, Suspended, Deafened, Pending,
       Sound, ConfiguredIsOpen, Effective, Off, RaiseWakeup, stateVars,
       ep0Vars, portVars, hostVars
  <2> QED BY <2>1, <2>2, <2>3 DEF IInv
<1> QED BY <1>1, <1>2 DEF Peripheral

\* The host's transfers: a SETUP packet reaches a device that hears.
LEMMA TransferKeeps == IInv /\ Transfer => IInv'
<1> SUFFICES ASSUME IInv, Transfer PROVE IInv'
  OBVIOUS
<1>1. CASE SendSetup
  <2>1. FlagsOK'
  BY <1>1, Zenon DEF IInv, FlagsOK, SendSetup, Heard, HasData, stateVars,
       flagVars
  <2>2. Ranges'
  BY <1>1, AddressAssumption, RequestAssumption, UpsetAssumption DEF IInv, Kept,
       Suspended, Ranges, States, Off, SendSetup, Heard, HasData,
       stateVars, flagVars
  <2>3. Kept'
  BY <1>1 DEF IInv, FlagsOK, Ranges, Kept, Suspended, Deafened, Pending,
       Sound, ConfiguredIsOpen, Effective, Off, SendSetup, Heard, HasData,
       stateVars, flagVars
  <2> QED BY <2>1, <2>2, <2>3 DEF IInv
<1>2. CASE TakeData
  <2>1. FlagsOK'
  BY <1>2, Zenon DEF IInv, FlagsOK, TakeData, Heard, HasData, portOnly,
       deviceVars, stateVars, ep0Vars
  <2>2. Ranges'
  BY <1>2, AddressAssumption, RequestAssumption, UpsetAssumption DEF IInv, Kept,
       Suspended, Ranges, States, Off, TakeData, Heard, HasData, portOnly,
       deviceVars, stateVars, ep0Vars
  <2>3. Kept'
  BY <1>2 DEF IInv, FlagsOK, Ranges, Kept, Suspended, Deafened, Pending,
       Sound, ConfiguredIsOpen, Effective, Off, TakeData, Heard, HasData,
       portOnly, deviceVars, stateVars, ep0Vars
  <2> QED BY <2>1, <2>2, <2>3 DEF IInv
<1>3. CASE TakeStatus
  <2>1. FlagsOK'
  BY <1>3, Zenon DEF IInv, FlagsOK, TakeStatus, Heard, HasData, Succeed,
       portOnly, deviceVars, stateVars, ep0Vars
  <2>2. Ranges'
  BY <1>3, AddressAssumption, RequestAssumption, UpsetAssumption DEF IInv, Kept,
       Suspended, Ranges, States, Off, NoRequest, TakeStatus, Heard,
       HasData, Succeed, portOnly, deviceVars, stateVars, ep0Vars
  <2>3. Kept'
  BY <1>3 DEF IInv, FlagsOK, Ranges, Kept, Suspended, Deafened, Pending,
       Sound, ConfiguredIsOpen, Effective, Off, TakeStatus, Heard,
       HasData, Succeed, portOnly, deviceVars, stateVars, ep0Vars
  <2> QED BY <2>1, <2>2, <2>3 DEF IInv
<1>4. CASE GiveStatus
  <2>1. FlagsOK'
  BY <1>4, Zenon DEF IInv, FlagsOK, GiveStatus, Heard, HasData, Succeed,
       portOnly, deviceVars, stateVars, ep0Vars
  <2>2. Ranges'
  BY <1>4, AddressAssumption, RequestAssumption, UpsetAssumption DEF IInv, Kept,
       Suspended, Ranges, States, Off, NoRequest, GiveStatus, Heard,
       HasData, Succeed, portOnly, deviceVars, stateVars, ep0Vars
  <2>3. Kept'
  BY <1>4 DEF IInv, FlagsOK, Ranges, Kept, Suspended, Deafened, Pending,
       Sound, ConfiguredIsOpen, Effective, Off, GiveStatus, Heard,
       HasData, Succeed, portOnly, deviceVars, stateVars, ep0Vars
  <2> QED BY <2>1, <2>2, <2>3 DEF IInv
<1>5. CASE SeeStall
  <2>1. FlagsOK'
  BY <1>5, Zenon DEF IInv, FlagsOK, SeeStall, Heard, Fail, Vital, portVars,
       portOnly, deviceVars, stateVars, ep0Vars
  <2>2. Ranges'
  BY <1>5, AddressAssumption, RequestAssumption, UpsetAssumption DEF IInv, Kept,
       Suspended, Ranges, States, Off, SeeStall, Heard, Fail, Vital,
       portVars, portOnly, deviceVars, stateVars, ep0Vars
  <2>3. Kept'
  BY <1>5 DEF IInv, FlagsOK, Ranges, Kept, Suspended, Deafened, Pending,
       Sound, ConfiguredIsOpen, Effective, Off, SeeStall, Heard, Fail,
       Vital, portVars, portOnly, deviceVars, stateVars, ep0Vars
  <2> QED BY <2>1, <2>2, <2>3 DEF IInv
<1>6. CASE GiveUp
  <2>1. FlagsOK'
  BY <1>6, Zenon DEF IInv, FlagsOK, GiveUp, Quiet, Unanswered, Fail, Vital,
       portVars, portOnly, deviceVars, stateVars, ep0Vars
  <2>2. Ranges'
  BY <1>6, AddressAssumption, RequestAssumption, UpsetAssumption DEF IInv, Kept,
       Suspended, Ranges, States, Off, GiveUp, Quiet, Unanswered, Fail,
       Vital, portVars, portOnly, deviceVars, stateVars, ep0Vars
  <2>3. Kept'
  BY <1>6 DEF IInv, FlagsOK, Ranges, Kept, Suspended, Deafened, Pending,
       Sound, ConfiguredIsOpen, Effective, Off, GiveUp, Quiet, Unanswered,
       Fail, Vital, portVars, portOnly, deviceVars, stateVars, ep0Vars
  <2> QED BY <2>1, <2>2, <2>3 DEF IInv
<1>7. CASE NoDisk
  <2>1. FlagsOK'
  BY <1>7, Zenon DEF IInv, FlagsOK, NoDisk, Heard, Quiet, portVars, portOnly,
       deviceVars, stateVars, ep0Vars
  <2>2. Ranges'
  BY <1>7, AddressAssumption, RequestAssumption, UpsetAssumption DEF IInv, Kept,
       Suspended, Ranges, States, Off, NoDisk, Heard, Quiet, portVars,
       portOnly, deviceVars, stateVars, ep0Vars
  <2>3. Kept'
  BY <1>7 DEF IInv, FlagsOK, Ranges, Kept, Suspended, Deafened, Pending,
       Sound, ConfiguredIsOpen, Effective, Off, NoDisk, Heard, Quiet,
       portVars, portOnly, deviceVars, stateVars, ep0Vars
  <2> QED BY <2>1, <2>2, <2>3 DEF IInv
<1> QED BY <1>1, <1>2, <1>3, <1>4, <1>5, <1>6, <1>7 DEF Transfer

\* The host turns to its next request.
LEMMA AskKeeps ==
  ASSUME IInv, NEW r \in Requests, Ask(r)
  PROVE IInv'
<1>1. FlagsOK'
  BY Zenon DEF IInv, FlagsOK, Ask, deviceVars, stateVars, ep0Vars,
       portVars
<1>2. Ranges'
  BY AddressAssumption, RequestAssumption, UpsetAssumption DEF IInv, Kept,
       Suspended, Ranges, States, Off, Ask, deviceVars, stateVars, ep0Vars,
       portVars
<1>3. Kept'
  BY DEF IInv, FlagsOK, Ranges, Kept, Suspended, Deafened, Pending,
       Sound, ConfiguredIsOpen, Effective, Off, Ask, deviceVars, stateVars,
       ep0Vars, portVars
<1> QED BY <1>1, <1>2, <1>3 DEF IInv

\* The host: a bus reset leaves no class request to be answered.
LEMMA HostKeeps == IInv /\ Host => IInv'
<1> SUFFICES ASSUME IInv, Host PROVE IInv'
  OBVIOUS
<1>1. CASE StartOver
  <2>1. FlagsOK'
  BY <1>1, Zenon DEF IInv, FlagsOK, StartOver, ResetBus, deviceVars,
       stateVars, ep0Vars
  <2>2. Ranges'
  BY <1>1, AddressAssumption, RequestAssumption, UpsetAssumption DEF IInv, Kept,
       Suspended, Ranges, States, Off, StartOver, ResetBus, deviceVars,
       stateVars, ep0Vars
  <2>3. Kept'
  BY <1>1 DEF IInv, FlagsOK, Ranges, Kept, Suspended, Deafened, Pending,
       Sound, ConfiguredIsOpen, Effective, Off, StartOver, ResetBus,
       deviceVars, stateVars, ep0Vars
  <2> QED BY <2>1, <2>2, <2>3 DEF IInv
<1>2. CASE ResetOutOfTurn
  <2>1. FlagsOK'
  BY <1>2, Zenon DEF IInv, FlagsOK, ResetOutOfTurn, ResetBus, deviceVars,
       stateVars, ep0Vars
  <2>2. Ranges'
  BY <1>2, AddressAssumption, RequestAssumption, UpsetAssumption DEF IInv, Kept,
       Suspended, Ranges, States, Off, ResetOutOfTurn, ResetBus,
       deviceVars, stateVars, ep0Vars
  <2>3. Kept'
  BY <1>2 DEF IInv, FlagsOK, Ranges, Kept, Suspended, Deafened, Pending,
       Sound, ConfiguredIsOpen, Effective, Off, ResetOutOfTurn, ResetBus,
       deviceVars, stateVars, ep0Vars
  <2> QED BY <2>1, <2>2, <2>3 DEF IInv
<1>3. CASE SuspendBus
  <2>1. FlagsOK'
  BY <1>3, Zenon DEF IInv, FlagsOK, SuspendBus, portVars, deviceVars,
       stateVars, ep0Vars
  <2>2. Ranges'
  BY <1>3, AddressAssumption, RequestAssumption, UpsetAssumption DEF IInv, Kept,
       Suspended, Ranges, States, Off, SuspendBus, portVars, deviceVars,
       stateVars, ep0Vars
  <2>3. Kept'
  BY <1>3 DEF IInv, FlagsOK, Ranges, Kept, Suspended, Deafened, Pending,
       Sound, ConfiguredIsOpen, Effective, Off, SuspendBus, portVars,
       deviceVars, stateVars, ep0Vars
  <2> QED BY <2>1, <2>2, <2>3 DEF IInv
<1>4. CASE ResumeBus
  <2>1. FlagsOK'
  BY <1>4, Zenon DEF IInv, FlagsOK, ResumeBus, portVars, deviceVars,
       stateVars, ep0Vars
  <2>2. Ranges'
  BY <1>4, AddressAssumption, RequestAssumption, UpsetAssumption DEF IInv, Kept,
       Suspended, Ranges, States, Off, ResumeBus, portVars, deviceVars,
       stateVars, ep0Vars
  <2>3. Kept'
  BY <1>4 DEF IInv, FlagsOK, Ranges, Kept, Suspended, Deafened, Pending,
       Sound, ConfiguredIsOpen, Effective, Off, ResumeBus, portVars,
       deviceVars, stateVars, ep0Vars
  <2> QED BY <2>1, <2>2, <2>3 DEF IInv
<1>5. CASE \E r \in Requests : Ask(r)
  BY <1>5, AskKeeps
<1>6. CASE Transfer
  BY <1>6, TransferKeeps
<1> QED BY <1>5, <1>6, <1>1, <1>2, <1>3, <1>4 DEF Host

\* A step that changes nothing.
LEMMA StutterKeeps == IInv /\ UNCHANGED vars => IInv'
<1> SUFFICES ASSUME IInv, UNCHANGED vars PROVE IInv'
  OBVIOUS
<1>1. FlagsOK'
  BY Zenon DEF IInv, FlagsOK, vars, stateVars, flagVars
<1>2. Ranges'
  BY DEF IInv, Ranges, vars, stateVars, ep0Vars, portVars, hostVars
<1>3. Kept'
  BY DEF IInv, Kept, Suspended, Deafened, Pending, Sound, ConfiguredIsOpen,
     Effective, vars, stateVars, ep0Vars, portVars, flagVars, hostVars
<1> QED BY <1>1, <1>2, <1>3 DEF IInv

\* Every step of the device and of the host keeps the invariant.
THEOREM Invariance == Spec => []IInv
<1>1. Init => IInv
  BY InitHolds
<1>2. IInv /\ [Next]_vars => IInv'
  BY InterruptKeeps, PeripheralKeeps, HostKeeps, StutterKeeps DEF Next
<1> QED BY <1>1, <1>2, PTL DEF Spec

\* The variables keep their types; in particular the state a suspension saves
\* (USBD_LL_Suspend) is never SUSPENDED.
THEOREM TypeCorrect == Spec => []TypeOK
<1>1. IInv => TypeOK
  BY Parts
<1> QED BY <1>1, Invariance, PTL

\* The class has its endpoints in the state CONFIGURED and in no other, also
\* over suspensions and bus resets in any order, unless USBD_LL_Resume has
\* restored a state other than the one suspended.
THEOREM ClassIsOpen == Spec => []ConfiguredIsOpen
<1>1. IInv => ConfiguredIsOpen
  BY DEF IInv, Kept
<1> QED BY <1>1, Invariance, PTL

\* With the same exception no request writes through a class that is not open:
\* the handler does not end in the fault.
NoFault == ~raced => pc # "fault"

THEOREM NoFaultEver == Spec => []NoFault
<1>1. IInv => NoFault
  BY DEF IInv, Kept, Sound, NoFault
<1> QED BY <1>1, Invariance, PTL

-----------------------------------------------------------------------------
\* The talk on endpoint 0, between host and device.

\* While the device is deaf after a bus reset, the host is at most about to ask,
\* and nothing it sent before is left when the handler gets to the reset.
AfterReset ==
  /\ RESET /\ pc # "fault" =>
       /\ view = "default"
       /\ stage = "none" \/ (stage = "setup" /\ Proper(req))
  /\ RESET /\ pc = "reset" => ctr = {}

\* The state the host takes the device to be in.
StateOf(v) ==
  IF v = "default" THEN "DEFAULT"
  ELSE IF v = "addressed" THEN "ADDRESSED" ELSE "CONFIGURED"

Matches == view # "failed" => Effective = StateOf(view)

\* No address waits to be taken on.
Settled == daddr = addr /\ USB_Address = 0

\* Between two requests: the status of a SET_ADDRESS may still be served.
Between ==
  /\ stage = "none" \/ (stage = "setup" /\ Proper(req))
  /\ "setup" \notin ctr
  /\ Matches
  /\ view # "failed" =>
       \/ Settled
       \/ "in" \in ctr /\ USB_Address = addr /\ addr # 0 /\ daddr # addr
  /\ view = "default" => "in" \notin ctr

\* A request is under way, and the device listens.
Awake == bus = "active" /\ ~SUSP /\ ~FSUSP /\ pc # "check"

UnderWay == Setup = req /\ Proper(req) /\ Awake /\ daddr = addr

\* The stage of the transfer a request goes on with.
Second == IF HasData(req) THEN "data" ELSE "status"

\* The request waits to be served.
Asked ==
  /\ "setup" \in ctr /\ "out" \notin ctr /\ stage = Second
  /\ tx = "nak" /\ rx = "nak" /\ USB_Address = 0
  /\ Matches /\ (view = "default" => "in" \notin ctr)

\* It has been refused, or got no answer.
Unmoved ==
  /\ "setup" \notin ctr /\ stage = Second
  /\ tx = "stall" \/ (tx = "nak" /\ req.name = "OTHER_FEATURE")
  /\ USB_Address = 0
  /\ Matches /\ (view = "default" => "in" \notin ctr)

\* The data wait for the host.  The completion of an earlier status may be served
\* only now, and be taken for theirs.
Answering ==
  /\ "setup" \notin ctr /\ "out" \notin ctr /\ stage = "data" /\ HasData(req)
  /\ tx = "data" /\ USB_Address = 0
  /\ \/ ep0_state = "DATA_IN" /\ rx = "nak"
     \/ ep0_state = "STATUS_OUT" /\ rx = "valid" /\ view # "default"
  /\ Matches /\ (view = "default" => "in" \notin ctr)

\* The host has the data.
Confirming ==
  /\ "setup" \notin ctr /\ "out" \notin ctr /\ stage = "status" /\ HasData(req)
  /\ tx = "nak" /\ USB_Address = 0
  /\ \/ "in" \in ctr /\ ep0_state = "DATA_IN" /\ rx = "nak"
     \/ rx = "valid" /\ (view = "default" => "in" \notin ctr)
  /\ Matches

\* The request has been carried out and its status waits for the host.
Accepted ==
  /\ "setup" \notin ctr /\ stage = "status" /\ ~HasData(req)
  /\ tx = "status" /\ (view = "default" => "in" \notin ctr)
  /\ USB_Address = IF req.name = "SET_ADDRESS" THEN req.value ELSE 0
  /\ Effective = IF req.name = "SET_ADDRESS" THEN "ADDRESSED"
                 ELSE IF req.name # "SET_CONFIGURATION" THEN StateOf(view)
                 ELSE IF req.value = 1 THEN "CONFIGURED" ELSE "ADDRESSED"

\* Where the host and endpoint 0 are, as long as no stale state was restored.
Listening == rx = "off" => view = "failed" \/ Setup.name = "CLEAR_REMOTE_WAKEUP"

Phases == Asked \/ Unmoved \/ Answering \/ Confirming \/ Accepted

Talk ==
  /\ view = "default" => addr = 0
  /\ Listening
  /\ Between \/ (UnderWay /\ Phases)

Talking == ~raced /\ ~RESET => Talk

-----------------------------------------------------------------------------
\* What the talk is about.
talkVars ==
  <<stage, req, Setup, view, addr, daddr, USB_Address, ep0_state, ctr, tx, rx>>

\* A host that has asked takes the device for one it can use.
LEMMA ProperIsSeen ==
  ASSUME NEW r, Proper(r)
  PROVE  view # "failed"
BY DEF Proper

LEMMA PhaseStages ==
  /\ Between => stage \in {"none", "setup"} /\ "setup" \notin ctr
  /\ Phases => stage \in {"data", "status"}
BY DEF Between, Phases, Asked, Unmoved, Answering, Confirming, Accepted, Second

\* Steps that leave the talk alone, and wake or suspend the device only between
\* two requests.
LEMMA TalkStays ==
  ASSUME Talk, UNCHANGED talkVars, Effective' = Effective,
         stage \in {"data", "status"} /\ Awake => Awake'
  PROVE  Talk'
<1>1. /\ stage' = stage /\ req' = req /\ Setup' = Setup /\ view' = view
      /\ addr' = addr /\ daddr' = daddr /\ USB_Address' = USB_Address
      /\ ep0_state' = ep0_state /\ ctr' = ctr /\ tx' = tx /\ rx' = rx
  BY DEF talkVars
<1>2. Proper(req) => Proper(req)'
  BY <1>1 DEF Proper
<1>3. HasData(req)' = HasData(req)
  BY <1>1 DEF HasData
<1>4. Matches => Matches'
  BY <1>1 DEF Matches, StateOf
<1>5. Between => Between'
  BY <1>1, <1>2, <1>4 DEF Between, Settled
<1>6. Listening'
  BY <1>1 DEF Talk, Listening
<1>7. ASSUME UnderWay, Phases PROVE UnderWay' /\ Phases'
  <2>1. UnderWay'
    BY <1>1, <1>2, <1>7, PhaseStages DEF UnderWay
  <2>2. Second' = Second
    BY <1>1 DEF Second, HasData
  <2>3. ASSUME Asked PROVE Asked'
    BY <1>1, <1>4, <2>2, <2>3 DEF Asked
  <2>4. ASSUME Unmoved PROVE Unmoved'
    BY <1>1, <1>4, <2>2, <2>4 DEF Unmoved
  <2>5. ASSUME Answering PROVE Answering'
    BY <1>1, <1>4, <2>5 DEF Answering, HasData
  <2>6. ASSUME Confirming PROVE Confirming'
    BY <1>1, <1>4, <2>6 DEF Confirming, HasData
  <2>7. ASSUME Accepted PROVE Accepted'
    BY <1>1, <2>7 DEF Accepted, HasData, StateOf
  <2> QED BY <1>7, <2>1, <2>3, <2>4, <2>5, <2>6, <2>7 DEF Phases
<1> QED BY <1>1, <1>5, <1>6, <1>7 DEF Talk

\* The handler's own steps, the flags, and the bus.
LEMMA QuietSteps ==
  ASSUME IInv, Talk, ~raced', ~RESET,
         \/ Enter \/ ServedAll \/ ServeWakeup \/ ServeSuspend \/ CheckWakeup
         \/ RaiseSuspend \/ RaiseWakeup \/ SuspendBus \/ ResumeBus
         \/ ServeReset \/ UNCHANGED vars
  PROVE  Talk'
<1>1. /\ dev_state = "SUSPENDED" => FSUSP
      /\ pc = "check" => dev_state # "SUSPENDED"
  BY DEF IInv, Kept, Suspended
<1>2. CASE Enter \/ ServedAll
  <2>1. UNCHANGED talkVars /\ UNCHANGED <<dev_state, dev_old_state, bus, SUSP, FSUSP>>
    BY <1>2 DEF Enter, ServedAll, talkVars, stateVars, ep0Vars, portVars,
       interruptVars, flagVars, hostVars
  <2>2. pc' # "check"
    BY <1>2 DEF Enter, ServedAll
  <2> QED BY <2>1, <2>2, TalkStays DEF Effective, Awake
<1>3. CASE ServeWakeup
  <2>1. UNCHANGED talkVars /\ UNCHANGED <<dev_old_state, bus, SUSP>> /\ pc' = "susp"
    BY <1>3 DEF ServeWakeup, talkVars, stateVars, ep0Vars, portVars, hostVars
  <2>2. dev_state' = dev_state \/ (dev_state = "SUSPENDED" /\ dev_state' = dev_old_state)
    BY <1>3 DEF ServeWakeup, LL_Resume
  <2>3. dev_old_state # "SUSPENDED"
    BY DEF IInv, Ranges, States
  <2>4. Effective' = Effective
    BY <2>1, <2>2, <2>3 DEF Effective
  <2>5. ~FSUSP => ~FSUSP'
    BY <1>3 DEF ServeWakeup
  <2> QED BY <2>1, <2>4, <2>5, TalkStays DEF Awake
<1>4. CASE ServeSuspend
  <2>1. UNCHANGED talkVars /\ UNCHANGED <<dev_state, dev_old_state, bus>>
    BY <1>4 DEF ServeSuspend, talkVars, stateVars, ep0Vars, portVars, hostVars
  <2>2. ~SUSP => pc' = "idle" /\ UNCHANGED <<FSUSP, SUSP>>
    BY <1>4 DEF ServeSuspend
  <2> QED BY <2>1, <2>2, TalkStays DEF Effective, Awake
<1>5. CASE CheckWakeup
  <2>1. UNCHANGED talkVars /\ UNCHANGED <<bus, SUSP, FSUSP>> /\ pc' = "idle"
    BY <1>5 DEF CheckWakeup, talkVars, ep0Vars, portVars, flagVars, hostVars
  <2>2. \/ UNCHANGED <<dev_state, dev_old_state>>
        \/ dev_state' = "SUSPENDED" /\ dev_old_state' = dev_state
    BY <1>5 DEF CheckWakeup, LL_Suspend
  <2>3. dev_state # "SUSPENDED"
    BY <1>1, <1>5 DEF CheckWakeup
  <2>4. Effective' = Effective
    BY <2>2, <2>3 DEF Effective
  <2> QED BY <2>1, <2>4, TalkStays DEF Awake
<1>6. CASE RaiseSuspend \/ RaiseWakeup
  <2>1. UNCHANGED talkVars /\ UNCHANGED <<dev_state, dev_old_state, bus, pc, FSUSP>>
    BY <1>6 DEF RaiseSuspend, RaiseWakeup, talkVars, stateVars, ep0Vars, portVars, hostVars
  <2>2. bus = "active" => SUSP' = SUSP
    BY <1>6 DEF RaiseSuspend, RaiseWakeup
  <2> QED BY <2>1, <2>2, TalkStays DEF Effective, Awake
<1>7. CASE SuspendBus \/ ResumeBus
  <2>1. UNCHANGED talkVars /\ UNCHANGED <<dev_state, dev_old_state, pc, SUSP, FSUSP>>
    BY <1>7 DEF SuspendBus, ResumeBus, talkVars, portVars, deviceVars, stateVars, ep0Vars
  <2>2. stage = "none" \/ bus' = "active"
    BY <1>7 DEF SuspendBus, ResumeBus
  <2> QED BY <2>1, <2>2, TalkStays DEF Effective, Awake
<1>8. CASE ServeReset
  <2>1. UNCHANGED talkVars /\ UNCHANGED <<dev_state, dev_old_state, bus, SUSP, FSUSP>>
    BY <1>8 DEF ServeReset, talkVars, stateVars, portVars, hostVars
  <2>2. pc' = "wkup"
    BY <1>8 DEF ServeReset
  <2> QED BY <2>1, <2>2, TalkStays DEF Effective, Awake
<1>9. CASE UNCHANGED vars
  <2>1. UNCHANGED talkVars /\ UNCHANGED <<dev_state, dev_old_state, bus, pc, SUSP, FSUSP>>
    BY <1>9 DEF vars, talkVars, stateVars, ep0Vars, portVars, flagVars, hostVars
  <2> QED BY <2>1, TalkStays DEF Effective, Awake
<1> QED BY <1>2, <1>3, <1>4, <1>5, <1>6, <1>7, <1>8, <1>9

\* A bus reset that is served makes host and device agree.
LEMMA ResetSettles ==
  ASSUME IInv, AfterReset, ServeReset, RESET
  PROVE  Talk'
<1>1. /\ pc = "reset" /\ dev_state' = "DEFAULT" /\ rx' = "valid"
      /\ USB_Address' = 0 /\ daddr' = 0
      /\ UNCHANGED <<ctr, view, addr, stage, req>>
  BY DEF ServeReset, LL_Reset, SetDevAddress, hostVars
<1>2. addr = 0
  BY DEF IInv, Kept, Deafened
<1>3. view = "default" /\ (stage = "none" \/ (stage = "setup" /\ Proper(req))) /\ ctr = {}
  BY <1>1 DEF AfterReset
<1>4. Proper(req) => Proper(req)'
  BY <1>1 DEF Proper
<1>5. Matches' /\ Settled' /\ Listening'
  BY <1>1, <1>2, <1>3 DEF Matches, Effective, StateOf, Settled, Listening
<1>6. Between'
  BY <1>1, <1>3, <1>4, <1>5 DEF Between
<1> QED BY <1>1, <1>2, <1>5, <1>6 DEF Talk

-----------------------------------------------------------------------------
\* A completion of endpoint 0 is served.
LEMMA ServeOutTalk ==
  ASSUME Talk, ServeOut
  PROVE  Talk'
<1>1. /\ "setup" \notin ctr /\ "out" \in ctr /\ ctr' = ctr \ {"out"} /\ rx' = "valid"
      /\ UNCHANGED <<dev_state, dev_old_state, ep0_state, USB_Address, Setup, daddr, tx>>
      /\ UNCHANGED <<SUSP, FSUSP, pc, bus, view, addr, stage, req>>
  BY DEF ServeOut, stateVars, ep0Vars, flagVars, hostVars
<1>2. Listening' /\ (view = "default" => addr = 0)'
  BY <1>1 DEF Listening, Talk
<1>3. Effective' = Effective /\ (Matches => Matches')
  BY <1>1 DEF Matches, Effective, StateOf
<1>4. Proper(req) => Proper(req)'
  BY <1>1 DEF Proper
<1>5. CASE Between
  BY <1>1, <1>2, <1>3, <1>4, <1>5 DEF Between, Settled, Talk
<1>6. CASE UnderWay /\ Phases
  <2>1. UnderWay'
    BY <1>1, <1>4, <1>6 DEF UnderWay, Awake
  <2>2. Unmoved \/ Accepted
    BY <1>1, <1>6 DEF Phases, Asked, Answering, Confirming
  <2>3. ASSUME Unmoved PROVE Unmoved'
    BY <1>1, <1>3, <2>3 DEF Unmoved, Second, HasData
  <2>4. ASSUME Accepted PROVE Accepted'
    BY <1>1, <1>3, <2>4 DEF Accepted, HasData, StateOf
  <2> QED BY <1>2, <2>1, <2>2, <2>3, <2>4 DEF Talk, Phases
<1> QED BY <1>5, <1>6 DEF Talk

LEMMA ServeInTalk ==
  ASSUME IInv, Talk, ServeIn
  PROVE  Talk'
<1>1. /\ ctr = {"in"} /\ ctr' = {}
      /\ UNCHANGED <<dev_state, dev_old_state, Setup, tx>>
      /\ UNCHANGED <<SUSP, FSUSP, pc, bus, view, addr, stage, req>>
  BY DEF ServeIn, stateVars, flagVars, hostVars
<1>2. /\ ep0_state = "DATA_IN" => ep0_state' = "STATUS_OUT" /\ rx' = "valid"
      /\ ep0_state # "DATA_IN" => UNCHANGED <<ep0_state, rx>>
  BY DEF ServeIn, DataInStage
<1>3. /\ USB_Address = 0 => UNCHANGED <<daddr, USB_Address>>
      /\ USB_Address # 0 => daddr' = USB_Address /\ USB_Address' = 0
  <2>1. USB_Address = 0 \/ USB_Address > 0
    BY AddressAssumption DEF IInv, Ranges
  <2> QED BY <2>1 DEF ServeIn, TakeAddress
<1>4. Listening' /\ (view = "default" => addr = 0)'
  BY <1>1, <1>2 DEF Listening, Talk
<1>5. Effective' = Effective /\ (Matches => Matches')
  BY <1>1 DEF Matches, Effective, StateOf
<1>6. Proper(req) => Proper(req)'
  BY <1>1 DEF Proper
<1>7. CASE Between
  <2>1. view # "failed" => Settled'
    BY <1>1, <1>3, <1>7 DEF Between, Settled
  <2> QED BY <1>1, <1>4, <1>5, <1>6, <1>7, <2>1 DEF Between, Talk
<1>8. CASE UnderWay /\ Phases
  <2>1. USB_Address = 0
    <3>1. CASE Accepted
      <4>1. view # "default" /\ Proper(req)
        BY <1>1, <1>8, <3>1 DEF Accepted, UnderWay
      <4>2. req.name # "SET_ADDRESS"
        BY <4>1 DEF Proper
      <4> QED BY <3>1, <4>2 DEF Accepted
    <3> QED BY <1>8, <3>1 DEF Phases, Asked, Unmoved, Answering, Confirming
  <2>2. UnderWay' /\ USB_Address' = 0
    BY <1>1, <1>3, <1>6, <1>8, <2>1 DEF UnderWay, Awake
  <2>3. ~Asked
    BY <1>1 DEF Asked
  <2>4. ASSUME Unmoved PROVE Unmoved'
    BY <1>1, <1>5, <2>2, <2>4 DEF Unmoved, Second, HasData
  <2>5. ASSUME Answering PROVE Answering'
    BY <1>1, <1>2, <1>5, <2>2, <2>5 DEF Answering, HasData
  <2>6. ASSUME Confirming PROVE Confirming'
    BY <1>1, <1>2, <1>5, <2>2, <2>6 DEF Confirming, HasData
  <2>7. ASSUME Accepted PROVE Accepted'
    BY <1>1, <1>3, <1>5, <2>1, <2>7 DEF Accepted, HasData, StateOf
  <2> QED BY <1>4, <1>8, <2>2, <2>3, <2>4, <2>5, <2>6, <2>7 DEF Talk, Phases
<1> QED BY <1>7, <1>8 DEF Talk

\* A request is served: the device answers it in the state the host expects.
LEMMA ServeSetupTalk ==
  ASSUME IInv, IInv', Talk, ServeSetup, ~raced, ~raced'
  PROVE  Talk'
<1>1. /\ "setup" \in ctr /\ ctr' = ctr \ {"setup"}
      /\ UNCHANGED <<Setup, daddr, SUSP, FSUSP, bus, view, addr, stage, req>>
  BY DEF ServeSetup, flagVars, hostVars
<1>2. UnderWay /\ Asked
  BY <1>1, PhaseStages DEF Talk, Phases, Unmoved, Answering, Confirming, Accepted
<1>3. pc = "ctr" /\ SetupStage /\ pc' = pc
  <2>1. pc' # "fault"
    BY Zenon DEF IInv, Kept, Sound
  <2> QED BY <2>1 DEF ServeSetup
<1>4. Proper(req) /\ view # "failed" /\ Setup = req
  BY <1>2, ProperIsSeen DEF UnderWay
<1>5. dev_state # "SUSPENDED" /\ Effective = dev_state /\ dev_state = StateOf(view)
  <2>1. ~FSUSP
    BY <1>2 DEF UnderWay, Awake
  <2>2. dev_state # "SUSPENDED"
    BY <2>1 DEF IInv, Kept, Suspended
  <2> QED BY <1>2, <1>4, <2>2 DEF Effective, Asked, Matches
<1>6. /\ "setup" \notin ctr' /\ "out" \notin ctr' /\ (view' = "default" => "in" \notin ctr')
      /\ tx = "nak" /\ rx = "nak" /\ USB_Address = 0 /\ stage = Second
  BY <1>1, <1>2 DEF Asked
<1>7. UnderWay' /\ Second' = Second
  BY <1>1, <1>2, <1>3 DEF UnderWay, Awake, Proper, Second, HasData
<1>8. (view = "default" => addr = 0)'
  BY <1>1 DEF Talk
<1>9. Setup' = req /\ req' = req /\ view' = view /\ stage' = stage
  BY <1>1, <1>4
<1>10. ASSUME UNCHANGED stateVars PROVE Matches'
  BY <1>2, <1>9, <1>10 DEF Asked, Matches, Effective, StateOf, stateVars
\* The three outcomes.
<1>11. ASSUME UNCHANGED <<stateVars, USB_Address>>,
              \/ CtlError
              \/ NoAnswer /\ req.name = "OTHER_FEATURE"
       PROVE  Talk'
  <2>1. tx' = "stall" \/ (tx' = "nak" /\ req'.name = "OTHER_FEATURE")
    BY <1>6, <1>9, <1>11 DEF CtlError, NoAnswer, portVars
  <2>2. rx' # "off"
    BY <1>6, <1>11 DEF CtlError, NoAnswer, portVars
  <2>3. Unmoved'
    BY <1>6, <1>7, <1>9, <1>10, <1>11, <2>1 DEF Unmoved
  <2> QED BY <1>7, <1>8, <2>2, <2>3 DEF Talk, Phases, Listening
<1>12. ASSUME UNCHANGED <<stateVars, USB_Address>>, CtlSendData, HasData(req)
       PROVE  Talk'
  <2>1. tx' = "data" /\ ep0_state' = "DATA_IN" /\ rx' = "nak"
    BY <1>6, <1>12 DEF CtlSendData
  <2>2. stage' = "data" /\ HasData(req)'
    BY <1>6, <1>9, <1>12 DEF Second, HasData
  <2>3. Answering'
    BY <1>6, <1>10, <1>12, <2>1, <2>2 DEF Answering
  <2> QED BY <1>7, <1>8, <2>1, <2>3 DEF Talk, Phases, Listening
<1>13. ASSUME tx' = "status", ~HasData(req),
              rx' # "off" \/ req.name = "CLEAR_REMOTE_WAKEUP",
              USB_Address' = IF req.name = "SET_ADDRESS" THEN req.value ELSE 0,
              dev_state' = IF req.name = "SET_ADDRESS" THEN "ADDRESSED"
                           ELSE IF req.name # "SET_CONFIGURATION" THEN StateOf(view)
                           ELSE IF req.value = 1 THEN "CONFIGURED" ELSE "ADDRESSED"
       PROVE  Talk'
  <2>1. stage' = "status" /\ ~HasData(req)'
    BY <1>6, <1>9, <1>13 DEF Second, HasData
  <2>2. dev_state' # "SUSPENDED"
    BY <1>13 DEF StateOf
  <2>3. Effective' = dev_state' /\ StateOf(view)' = StateOf(view)
    BY <1>9, <2>2 DEF Effective, StateOf
  <2>4. Accepted'
    BY <1>6, <1>9, <1>13, <2>1, <2>3 DEF Accepted
  <2>5. Listening'
    BY <1>9, <1>13 DEF Listening
  <2> QED BY <1>7, <1>8, <2>4, <2>5 DEF Talk, Phases
<1>14. CASE GetDescriptor
  BY <1>4, <1>11, <1>12, <1>14 DEF GetDescriptor, HasData
<1>15. CASE SetAddress
  <2>1. req.name = "SET_ADDRESS" /\ view = "default" /\ ~HasData(req)
    BY <1>4, <1>15 DEF SetAddress, Proper, HasData
  <2>2. dev_state = "DEFAULT"
    BY <1>5, <2>1 DEF StateOf
  <2>3. /\ CtlSendStatus /\ USB_Address' = req.value /\ dev_state' = "ADDRESSED"
    BY <1>4, <1>15, <2>2 DEF SetAddress
  <2> QED BY <1>6, <1>13, <2>1, <2>3 DEF CtlSendStatus
<1>16. CASE SetConfig
  <2>1. req.name = "SET_CONFIGURATION" /\ ~HasData(req) /\ USB_Address' = USB_Address
    BY <1>4, <1>16 DEF SetConfig, HasData
  <2>2. \/ CtlError /\ UNCHANGED stateVars
        \/ CtlSendStatus /\ dev_state' = IF req.value = 1 THEN "CONFIGURED" ELSE "ADDRESSED"
    BY <1>4, <1>16 DEF SetConfig, stateVars
  <2> QED BY <1>6, <1>11, <1>13, <2>1, <2>2 DEF CtlSendStatus
<1>17. CASE GetState
  BY <1>4, <1>11, <1>12, <1>17 DEF GetState, HasData
<1>18. CASE Feature
  <2>1. /\ req.name \in {"SET_REMOTE_WAKEUP", "CLEAR_REMOTE_WAKEUP", "OTHER_FEATURE"}
        /\ UNCHANGED <<stateVars, USB_Address>>
    BY <1>4, <1>18 DEF Feature
  <2>2. ~HasData(req) /\ dev_state' = StateOf(view)
    BY <1>5, <2>1 DEF HasData, stateVars
  <2>3. \/ CtlError
        \/ NoAnswer /\ req.name = "OTHER_FEATURE"
        \/ tx' = "status" /\ (rx' # "off" \/ req.name = "CLEAR_REMOTE_WAKEUP")
    BY <1>4, <1>6, <1>18 DEF Feature, CtlSendStatus
  <2> QED BY <1>6, <1>11, <1>13, <2>1, <2>2, <2>3
<1>19. CASE StdItfReq
  <2>1. /\ req.name \in {"GET_MAX_LUN", "SET_INTERFACE", "BOT_RESET", "OTHER_CLASS"}
        /\ UNCHANGED <<stateVars, USB_Address>>
    BY <1>4, <1>19 DEF StdItfReq
  <2>2. dev_state' = StateOf(view)
    BY <1>5, <2>1 DEF stateVars
  <2>3. \/ CtlError
        \/ CtlSendData /\ HasData(req)
        \/ tx' = "status" /\ rx' # "off" /\ ~HasData(req)
    BY <1>4, <1>6, <1>19 DEF StdItfReq, CtlSendStatus, HasData
  <2> QED BY <1>6, <1>11, <1>12, <1>13, <2>1, <2>2, <2>3
<1>20. CASE StdEPReq
  <2>1. /\ req.name \in {"SET_HALT", "CLEAR_HALT", "GET_EP_STATUS"}
        /\ UNCHANGED <<stateVars, USB_Address>>
    BY <1>4, <1>20 DEF StdEPReq
  <2>2. dev_state' = StateOf(view) /\ dev_state = "CONFIGURED"
    BY <1>4, <1>5, <2>1 DEF stateVars, Proper, StateOf
  <2>3. \/ CtlError
        \/ CtlSendData /\ HasData(req)
        \/ tx' = "status" /\ rx' # "off" /\ ~HasData(req)
    BY <1>4, <1>6, <1>20, <2>2 DEF StdEPReq, CtlSendStatus, HasData
  <2> QED BY <1>6, <1>11, <1>12, <1>13, <2>1, <2>2, <2>3
<1> QED BY <1>3, <1>14, <1>15, <1>16, <1>17, <1>18, <1>19, <1>20 DEF SetupStage

-----------------------------------------------------------------------------
\* The host's half of the talk.
LEMMA AskTalk ==
  ASSUME Talk, NEW r \in Requests, Ask(r)
  PROVE  Talk'
<1>1. /\ stage = "none" /\ Proper(r) /\ req' = r /\ stage' = "setup"
      /\ UNCHANGED <<dev_state, dev_old_state, USB_Address, Setup, daddr, ctr, rx,
                     view, addr>>
  BY DEF Ask, deviceVars, stateVars, ep0Vars, portVars
<1>2. Between
  BY <1>1, PhaseStages DEF Talk
<1>3. Proper(req)'
  BY <1>1 DEF Proper
<1>4. Matches'
  BY <1>1, <1>2 DEF Between, Matches, Effective, StateOf
<1>5. Between'
  BY <1>1, <1>2, <1>3, <1>4 DEF Between, Settled
<1> QED BY <1>1, <1>5 DEF Talk, Listening

LEMMA SendSetupTalk ==
  ASSUME Talk, SendSetup
  PROVE  Talk'
<1>1. /\ stage = "setup" /\ Heard /\ "out" \notin ctr
      /\ ctr' = ctr \cup {"setup"} /\ tx' = "nak" /\ rx' = "nak" /\ Setup' = req
      /\ stage' = Second
      /\ UNCHANGED <<dev_state, dev_old_state, USB_Address, daddr, SUSP, FSUSP, pc, bus,
                     view, addr, req>>
  BY DEF SendSetup, stateVars, flagVars, Second
<1>2. Between /\ Proper(req) /\ view # "failed"
  BY <1>1, PhaseStages, ProperIsSeen DEF Talk, Between
<1>3. Settled
  BY <1>1, <1>2 DEF Between, Heard
<1>4. Second' = Second /\ Proper(req)'
  BY <1>1, <1>2 DEF Second, HasData, Proper
<1>5. Matches'
  BY <1>1, <1>2 DEF Between, Matches, Effective, StateOf
<1>6. UnderWay'
  BY <1>1, <1>3, <1>4 DEF UnderWay, Awake, Heard, Settled
<1>7. Asked'
  BY <1>1, <1>2, <1>3, <1>4, <1>5 DEF Asked, Between, Settled
<1> QED BY <1>1, <1>6, <1>7 DEF Talk, Phases, Listening

LEMMA TakeDataTalk ==
  ASSUME Talk, TakeData
  PROVE  Talk'
<1>1. /\ stage = "data" /\ tx = "data" /\ ctr' = ctr \cup {"in"} /\ tx' = "nak"
      /\ stage' = "status"
      /\ UNCHANGED <<dev_state, dev_old_state, ep0_state, USB_Address, Setup, daddr>>
      /\ UNCHANGED <<rx, SUSP, FSUSP, pc, bus, view, addr, req>>
  BY DEF TakeData, portOnly, deviceVars, stateVars, ep0Vars
<1>2. UnderWay /\ Answering
  BY <1>1, PhaseStages DEF Talk, Phases, Asked, Unmoved, Confirming, Accepted
<1>3. UnderWay'
  BY <1>1, <1>2 DEF UnderWay, Awake, Proper
<1>4. Matches'
  BY <1>1, <1>2 DEF Answering, Matches, Effective, StateOf
<1>5. Confirming'
  BY <1>1, <1>2, <1>4 DEF Answering, Confirming, HasData
<1> QED BY <1>1, <1>3, <1>5 DEF Talk, Phases, Listening

LEMMA GiveStatusTalk ==
  ASSUME Talk, GiveStatus
  PROVE  Talk'
<1>1. /\ stage = "status" /\ HasData(req) /\ rx = "valid"
      /\ ctr' = ctr \cup {"out"} /\ rx' = "nak" /\ stage' = "none"
      /\ UNCHANGED <<dev_state, dev_old_state, USB_Address, daddr, req>>
  BY DEF GiveStatus, Succeed, portOnly, deviceVars, stateVars, ep0Vars
<1>2. UNCHANGED <<view, addr>>
  BY <1>1 DEF GiveStatus, Succeed, HasData
<1>3. UnderWay /\ (Asked \/ Unmoved \/ Confirming)
  BY <1>1, PhaseStages DEF Talk, Phases, Answering, Accepted
<1>4. Confirming
  BY <1>1, <1>3 DEF Asked, Unmoved, Second
<1>5. Matches' /\ Settled' /\ "setup" \notin ctr' /\ (view' = "default" => "in" \notin ctr')
  BY <1>1, <1>2, <1>3, <1>4
     DEF Confirming, Matches, Effective, StateOf, UnderWay, Settled
<1>6. Between'
  BY <1>1, <1>5 DEF Between
<1> QED BY <1>1, <1>2, <1>6 DEF Talk, Listening

LEMMA TakeStatusTalk ==
  ASSUME IInv, Talk, TakeStatus
  PROVE  Talk'
<1>1. /\ stage = "status" /\ ~HasData(req) /\ tx = "status"
      /\ ctr' = ctr \cup {"in"} /\ stage' = "none"
      /\ addr' = IF req.name = "SET_ADDRESS" THEN req.value ELSE addr
      /\ view' = IF req.name = "SET_ADDRESS" THEN "addressed"
                 ELSE IF req.name # "SET_CONFIGURATION" THEN view
                 ELSE IF req.value = 1 THEN "configured" ELSE "addressed"
      /\ UNCHANGED <<dev_state, dev_old_state, USB_Address, Setup, daddr, rx, req>>
  BY DEF TakeStatus, Succeed, portOnly, deviceVars, stateVars, ep0Vars
<1>2. UnderWay /\ Accepted
  BY <1>1, PhaseStages DEF Talk, Phases, Asked, Unmoved, Answering, Confirming
<1>3. Proper(req) /\ view # "failed" /\ daddr = addr
  BY <1>2, ProperIsSeen DEF UnderWay
<1>4. Effective' = Effective
  BY <1>1 DEF Effective
<1>5. view' # "default"
  BY <1>1, <1>3 DEF Proper, HasData
<1>6. Matches'
  BY <1>1, <1>2, <1>4 DEF Matches, Accepted, StateOf
<1>7. Settled' \/ ("in" \in ctr' /\ USB_Address' = addr' /\ addr' # 0 /\ daddr' # addr')
  <2>1. CASE req.name = "SET_ADDRESS"
    <3>1. USB_Address = req.value /\ view = "default"
      BY <1>2, <1>3, <2>1 DEF Accepted, Proper
    <3>2. addr = 0
      BY <3>1 DEF Talk
    <3>3. req.value # 0
      BY <2>1, AddressAssumption, RequestAssumption DEF IInv, Ranges, NoRequest
    <3> QED BY <1>1, <1>3, <2>1, <3>1, <3>2, <3>3
  <2>2. CASE req.name # "SET_ADDRESS"
    BY <1>1, <1>2, <1>3, <2>2 DEF Accepted, Settled
  <2> QED BY <2>1, <2>2
<1>8. "setup" \notin ctr'
  BY <1>1, <1>2 DEF Accepted
<1>9. Between'
  BY <1>1, <1>5, <1>6, <1>7, <1>8 DEF Between
<1>10. Listening'
  BY <1>1, <1>3 DEF Listening, Talk
<1> QED BY <1>5, <1>9, <1>10 DEF Talk

\* A transfer that fails leaves the device in the state it was in.
LEMMA FailTalk ==
  ASSUME Talk, SeeStall \/ (GiveUp /\ pc # "fault")
  PROVE  Talk'
<1>1. /\ stage' = "none" /\ (view' = view \/ view' = "failed")
      /\ UNCHANGED <<dev_state, dev_old_state, USB_Address, Setup, daddr>>
      /\ UNCHANGED <<ctr, tx, rx, addr, req>>
  BY DEF SeeStall, GiveUp, Fail, portOnly, deviceVars, stateVars, ep0Vars, portVars
<1>2. Listening' /\ (view = "default" => addr = 0)'
  BY <1>1 DEF Listening, Talk
<1>3. Matches => Matches'
  BY <1>1 DEF Matches, Effective, StateOf
<1>4. \/ stage \in {"data", "status"} /\ tx = "stall"
      \/ ctr = {} /\ Unanswered
  BY DEF SeeStall, GiveUp, Quiet
<1>5. CASE Between
  BY <1>1, <1>2, <1>3, <1>5 DEF Between, Settled, Talk
<1>6. CASE UnderWay /\ Phases
  <2>1. ~Asked /\ ~Answering /\ ~Accepted
    BY <1>4 DEF Asked, Answering, Accepted, Unanswered
  <2>2. ~Confirming
    BY <1>4 DEF Confirming, Unanswered
  <2>3. Unmoved /\ daddr = addr
    BY <1>6, <2>1, <2>2 DEF Phases, UnderWay
  <2> QED BY <1>1, <1>2, <1>3, <2>3 DEF Talk, Between, Unmoved, Settled
<1> QED BY <1>5, <1>6 DEF Talk

LEMMA NoDiskTalk ==
  ASSUME Talk, NoDisk
  PROVE  Talk'
<1>1. /\ stage = "none" /\ view' = "failed"
      /\ UNCHANGED <<ctr, stage>>
  BY DEF NoDisk
<1>2. Between
  BY <1>1, PhaseStages DEF Talk
<1>3. Between'
  BY <1>1, <1>2 DEF Between, Matches
<1> QED BY <1>1, <1>3 DEF Talk, Listening

-----------------------------------------------------------------------------
\* What holds while a bus reset waits to be served.
LEMMA ResetStays ==
  ASSUME IInv, AfterReset, [Next]_vars
  PROVE  AfterReset'
<1>1. CASE Enter \/ ServeOut \/ ServeIn \/ ServedAll \/ ServeSuspend \/ CheckWakeup \/ ServeWakeup
  <2>1. RESET' = RESET /\ UNCHANGED <<view, stage, req>> /\ pc # "fault"
    BY <1>1 DEF Enter, ServeOut, ServeIn, ServedAll, ServeSuspend, CheckWakeup, ServeWakeup,
       interruptVars, flagVars, hostVars
  <2>2. pc' = "reset" => ctr' = {}
    BY <1>1 DEF Enter, ServeOut, ServeIn, ServedAll, ServeSuspend, CheckWakeup, ServeWakeup,
       interruptVars
  <2> QED BY <2>1, <2>2 DEF AfterReset, Proper
<1>2. CASE ServeSetup
  <2>1. RESET' = RESET /\ UNCHANGED <<view, stage, req>> /\ pc = "ctr" /\ pc' \in {"ctr", "fault"}
    BY <1>2 DEF ServeSetup, flagVars, hostVars
  <2> QED BY <2>1 DEF AfterReset, Proper
<1>3. CASE ServeReset
  <2>1. ~RESET' /\ pc' = "wkup"
    BY <1>3 DEF ServeReset
  <2> QED BY <2>1 DEF AfterReset
<1>4. CASE Peripheral \/ SuspendBus \/ ResumeBus \/ UNCHANGED vars
  <2>1. RESET' = RESET /\ UNCHANGED <<view, stage, req, pc, ctr>>
    BY <1>4 DEF Peripheral, RaiseSuspend, RaiseWakeup, SuspendBus, ResumeBus, vars,
       hostVars, deviceVars, flagVars
  <2> QED BY <2>1 DEF AfterReset, Proper
<1>5. CASE SendSetup \/ TakeData \/ TakeStatus \/ GiveStatus \/ SeeStall \/ NoDisk
  <2>1. Heard /\ RESET' = RESET
    BY <1>5 DEF SendSetup, TakeData, TakeStatus, GiveStatus, SeeStall, NoDisk, portOnly,
       flagVars
  <2>2. ~RESET
    BY <2>1 DEF Heard, IInv, Kept, Deafened
  <2> QED BY <2>1, <2>2 DEF AfterReset
<1>6. CASE GiveUp
  <2>1. RESET' = RESET /\ pc' = pc
    BY <1>6 DEF GiveUp, portOnly, deviceVars
  <2>2. ~RESET \/ pc = "fault"
    BY <1>6 DEF GiveUp, Quiet
  <2> QED BY <2>1, <2>2 DEF AfterReset
<1>7. ASSUME NEW r \in Requests, Ask(r) PROVE AfterReset'
  <2>1. /\ RESET' = RESET /\ UNCHANGED <<view, pc, ctr>>
        /\ stage' = "setup" /\ req' = r /\ Proper(r)
    BY <1>7 DEF Ask, deviceVars
  <2> QED BY <2>1 DEF AfterReset, Proper
<1>8. CASE StartOver \/ ResetOutOfTurn
  <2>1. view' = "default" /\ stage' = "none" /\ UNCHANGED <<pc, ctr>>
        /\ (pc = "reset" => ctr = {})
    BY <1>8 DEF StartOver, ResetOutOfTurn, ResetBus, deviceVars
  <2> QED BY <2>1 DEF AfterReset
<1> QED BY <1>1, <1>2, <1>3, <1>4, <1>5, <1>6, <1>7, <1>8 DEF Next, Interrupt, Host, Transfer

\* Every step goes on with the talk, unless a stale state is restored or a bus
\* reset waits.
LEMMA TalkGoesOn ==
  ASSUME IInv, IInv', AfterReset, Talking, [Next]_vars
  PROVE  Talking'
<1> SUFFICES ASSUME ~raced', ~RESET' PROVE Talk'
  BY DEF Talking
<1>1. CASE ServeReset
  <2>1. CASE RESET
    BY <1>1, <2>1, ResetSettles
  <2>2. CASE ~RESET
    <3>1. raced' = raced
      BY <1>1, <2>2 DEF ServeReset
    <3>2. ~raced
      BY <3>1, Zenon
    <3> QED BY <1>1, <2>2, <3>2, QuietSteps DEF Talking
  <2> QED BY <2>1, <2>2
<1>2. CASE StartOver \/ ResetOutOfTurn
  <2>1. RESET'
    BY <1>2 DEF StartOver, ResetOutOfTurn, ResetBus
  <2> QED BY <2>1
<1>3. ASSUME ~ServeReset, ~StartOver, ~ResetOutOfTurn
      PROVE  ~raced /\ ~RESET
  <2>1. RESET' = RESET
    BY <1>3 DEF Next, Interrupt, Enter, ServeSetup, ServeOut, ServeIn, ServedAll, ServeWakeup,
       ServeSuspend, CheckWakeup, interruptVars, Peripheral, RaiseSuspend, RaiseWakeup, Host,
       Ask, Transfer, SendSetup, TakeData, TakeStatus, GiveStatus, SeeStall, GiveUp, NoDisk,
       SuspendBus, ResumeBus, portOnly, deviceVars, flagVars, vars
  <2>2. raced' = raced \/ (ServeWakeup /\ raced' = (raced \/ dev_state # "SUSPENDED"))
    BY <1>3 DEF Next, Interrupt, Enter, ServeSetup, ServeOut, ServeIn, ServedAll, ServeWakeup,
       ServeSuspend, CheckWakeup, interruptVars, Peripheral, RaiseSuspend, RaiseWakeup, Host,
       Ask, Transfer, SendSetup, TakeData, TakeStatus, GiveStatus, SeeStall, GiveUp, NoDisk,
       SuspendBus, ResumeBus, portOnly, deviceVars, vars
  <2>3. ~RESET
    BY <2>1, Zenon
  <2>4. ~raced
    BY <2>2, Zenon
  <2> QED BY <2>3, <2>4
<1>4. ASSUME ~ServeReset, ~StartOver, ~ResetOutOfTurn PROVE Talk'
  <2>1. ~raced /\ ~RESET /\ Talk /\ pc # "fault"
    BY <1>3, <1>4 DEF Talking, IInv, Kept, Sound
  <2>2. CASE Enter \/ ServedAll \/ ServeWakeup \/ ServeSuspend \/ CheckWakeup
             \/ Peripheral \/ SuspendBus \/ ResumeBus \/ UNCHANGED vars
    BY <2>1, <2>2, QuietSteps DEF Peripheral
  <2>3. CASE ServeSetup \/ ServeOut \/ ServeIn
    BY <2>1, <2>3, ServeSetupTalk, ServeOutTalk, ServeInTalk
  <2>4. CASE Transfer
    BY <2>1, <2>4, SendSetupTalk, TakeDataTalk, TakeStatusTalk, GiveStatusTalk, FailTalk,
       NoDiskTalk DEF Transfer
  <2>5. CASE \E r \in Requests : Ask(r)
    BY <2>1, <2>5, AskTalk
  <2> QED BY <1>4, <2>2, <2>3, <2>4, <2>5 DEF Next, Interrupt, Host
<1> QED BY <1>1, <1>2, <1>4

LEMMA InitTalks == Init => AfterReset /\ Talking
<1> SUFFICES ASSUME Init PROVE AfterReset /\ Talking
  OBVIOUS
<1>1. AfterReset
  BY DEF Init, AfterReset
<1>2. Between
  BY DEF Init, Between, Matches
<1>3. Talk
  BY <1>2 DEF Init, Talk, Listening
<1> QED BY <1>1, <1>3 DEF Talking

\* Host and device keep to the talk, from any bus reset on.
THEOREM TalkInvariance == Spec => [](IInv /\ AfterReset /\ Talking)
<1>1. Init => IInv /\ AfterReset /\ Talking
  BY InitHolds, InitTalks
<1>2. (IInv /\ AfterReset /\ Talking) /\ [Next]_vars => (IInv /\ AfterReset /\ Talking)'
  <2> SUFFICES ASSUME IInv, AfterReset, Talking, [Next]_vars
               PROVE  IInv' /\ AfterReset' /\ Talking'
    OBVIOUS
  <2>1. IInv'
    BY InterruptKeeps, PeripheralKeeps, HostKeeps, StutterKeeps DEF Next
  <2> QED BY <2>1, ResetStays, TalkGoesOn
<1> QED BY <1>1, <1>2, PTL DEF Spec

\* A device with nothing left to serve is not suspended.
LEMMA QuietIsAwake ==
  ASSUME IInv, Quiet
  PROVE  ~RESET /\ ctr = {} /\ Effective = dev_state
<1>1. ~RESET /\ ~FSUSP /\ ctr = {}
  BY DEF Quiet
<1>2. dev_state # "SUSPENDED"
  BY <1>1 DEF IInv, Kept, Suspended
<1> QED BY <1>1, <1>2 DEF Effective

\* When nothing is left to serve and no request is under way, the device is in the
\* state and at the address the host takes it to be, whatever resets, suspensions,
\* stalls and late completions came before (USBD_SetAddress, USBD_SetConfig).
THEOREM HostAndDeviceAgree == Spec => []Agrees
<1>1. IInv /\ Talking => Agrees
  <2> SUFFICES ASSUME IInv, Talking, Quiet, stage = "none", ~raced
               PROVE  /\ view = "default" => dev_state = "DEFAULT" /\ daddr = 0
                      /\ view = "addressed" => dev_state = "ADDRESSED" /\ daddr = addr
                      /\ view = "configured" => dev_state = "CONFIGURED" /\ daddr = addr
    BY DEF Agrees
  <2>1. ctr = {} /\ Effective = dev_state /\ Talk
    BY QuietIsAwake DEF Talking
  <2>2. Between
    BY <2>1, PhaseStages DEF Talk
  <2> QED BY <2>1, <2>2 DEF Between, Settled, Matches, StateOf, Talk
<1> QED BY <1>1, TalkInvariance, PTL

\* Every ordinary request is answered with data, a status or a stall, and no
\* request ends in the fault, unless a stale state has been restored
\* (USBD_LL_SetupStage with its handlers, USBD_LL_DataInStage).
THEOREM RequestsAreAnswered == Spec => []AnswersAll
<1>1. IInv /\ Talking => AnswersAll
  <2> SUFFICES ASSUME IInv, Talking, ~raced
               PROVE  /\ pc # "fault"
                      /\ Quiet /\ Ordinary(req) /\ Ordinary(Setup) => ~Unanswered
    BY DEF AnswersAll
  <2>1. pc # "fault"
    BY DEF IInv, Kept, Sound
  <2>2. ASSUME Quiet, Ordinary(req), Ordinary(Setup) PROVE ~Unanswered
    <3>1. ctr = {} /\ Talk
      BY <2>2, QuietIsAwake DEF Talking
    <3>2. CASE Between
      <4>1. stage = "setup" => view # "failed"
        BY <3>2, ProperIsSeen DEF Between
      <4>2. stage = "setup" => daddr = addr /\ rx # "off"
        BY <2>2, <3>1, <3>2, <4>1 DEF Between, Settled, Talk, Listening, Ordinary
      <4> QED BY <3>2, <4>2 DEF Between, Unanswered
    <3>3. CASE UnderWay /\ Phases
      <4>1. ~Asked
        BY <3>1 DEF Asked
      <4>2. ASSUME Unmoved PROVE ~Unanswered
        BY <2>2, <4>2 DEF Unmoved, Ordinary, Unanswered, Second
      <4>3. ASSUME Answering \/ Confirming \/ Accepted PROVE ~Unanswered
        BY <3>1, <4>3 DEF Answering, Confirming, Accepted, Unanswered
      <4> QED BY <3>3, <4>1, <4>2, <4>3 DEF Phases
    <3> QED BY <3>1, <3>2, <3>3 DEF Talk
  <2> QED BY <2>1, <2>2
<1> QED BY <1>1, TalkInvariance, PTL

=============================================================================
