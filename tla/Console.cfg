\* The instances are described in the module.  Each of them is bounded.
SPECIFICATION AllSpec
 
PROPERTIES TerminalExact KeysExact
CHECK_DEADLOCK FALSE
