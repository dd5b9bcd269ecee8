SPECIFICATION Spec
CONSTANTS
    cable = cable
    cafe = cafe
    usb0 = usb0
    wlan0 = wlan0
    Link = {cable, cafe}
    Iface = {usb0, wlan0}
    Radio = wlan0
    IfaceOf <- Interfaces
    Rate <- Rates
    Skews <- ClockErrors
    None = None
    MaxTime = 3
    MaxCrashes = 1
    MaxMoves = 3
INVARIANTS
    ConfidenceIsHonest
    EstimateIsAFloor
CHECK_DEADLOCK FALSE
