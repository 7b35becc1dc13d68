SPECIFICATION Spec
\* After shutdownThermalProxy nothing runs any more.
CHECK_DEADLOCK FALSE
CONSTANTS
    c1 = c1
    c2 = c2
    c3 = c3
    Clients <- MCClients
PROPERTIES
    ClientServed
