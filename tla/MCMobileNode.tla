----------------------------- MODULE MCMobileNode -----------------------------
(* The constants of the runs of MobileNode. *)
EXTENDS MobileNode, TLC

CONSTANTS a2, c1

\* WLAN (1) is the home link at times and a foreign one at others; GPRS (2)
\* gets an IPv4 address.
HomeAndAway == {<<1, HoaV6>>, <<1, c1>>, <<2, a2>>}

\* WLAN is always a foreign link.
Away == {<<1, c1>>, <<2, a2>>}
===============================================================================
