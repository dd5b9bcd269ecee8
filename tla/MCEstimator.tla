---------------------------- MODULE MCEstimator ----------------------------
(* A cable with an interface of its own, and a Wi-Fi network on the radio.  *)
EXTENDS Estimator
CONSTANTS cable, cafe, usb0, wlan0
Interfaces == [l \in Link |-> IF l = cable THEN usb0 ELSE wlan0]
Rates == [l \in Link |-> IF l = cable THEN 2 ELSE 1]
ClockErrors == {-1, 0}
=============================================================================
