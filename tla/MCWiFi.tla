------------------------------- MODULE MCWiFi -------------------------------
\* Two access points of the network home, the stronger of which refuses us; the other may come to
\* refuse, and not to.
EXTENDS WiFi

CONSTANTS near, far

Home == [NoNet EXCEPT !.ssid = "home", !.password = TRUE]
Pinned == [Home EXCEPT !.bssid = far]
MCAp == [b \in Bssid |-> [ssid |-> "home", hidden |-> FALSE, auth |-> TRUE,
                          channel |-> 1, rssi |-> IF b = near THEN 2 ELSE 1]]
MCAirs == {[b \in Bssid |-> IF b = near THEN "refuses" ELSE "accepts"],
           [b \in Bssid |-> "refuses"]}
Conf(ap, fast, net) == [ap |-> ap, fast |-> fast, reboot |-> ~ap, sta |-> net]
MCSetups == {Conf(TRUE, FALSE, <<>>), Conf(FALSE, FALSE, <<Home>>),
             Conf(TRUE, TRUE, <<Pinned>>)}
MCSavable == {Home}
=============================================================================
