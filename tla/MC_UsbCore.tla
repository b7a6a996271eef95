------------------------------ MODULE MC_UsbCore ------------------------------
\* TLC instance of UsbCore: one address and one request of each kind of
\* handling, with a configuration there is not.
EXTENDS UsbCore

\* Handled as GET_STATUS, BOT_RESET and CLEAR_HALT.
Alike == {"GET_CONFIGURATION", "SET_INTERFACE", "SET_HALT"}

Plain == Names \ (Alike \cup {"SET_ADDRESS", "SET_CONFIGURATION"})

EveryKind ==
  [name : Plain, value : {0}]
    \cup [name : {"SET_ADDRESS"}, value : Addresses]
    \cup [name : {"SET_CONFIGURATION"}, value : {0, 1, 2}]

=============================================================================
