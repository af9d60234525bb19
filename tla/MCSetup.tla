-------------------------------- MODULE MCSetup --------------------------------
EXTENDS Setup

\* Three modules of two groups; one of an unknown type in between and a gap in the
\* addresses; an SMR that is older than the inventory.
MCLayouts ==
    {[addrs |-> <<1, 2, 3>>, unknown |-> {},  grp |-> <<1, 2, 1>>,    flags |-> <<1, 2>>],
     [addrs |-> <<1, 2, 4>>, unknown |-> {2}, grp |-> <<1, 2, 2, 2>>, flags |-> <<3>>],
     [addrs |-> <<2, 1, 3>>, unknown |-> {},  grp |-> <<1, 2>>,       flags |-> <<>>]}

\* A hub with an address, one that reports a placeholder, one without a platform.
Info(lan, wlan, mac, platform, slug) ==
    [lan |-> lan, wlan |-> wlan, mac |-> mac, platform |-> platform, slug |-> slug]
MCInfos == {Info("lan", "wlan", "lan", "pi", "addon"),
            Info("placeholder", "wlan", "mac", "pi", "none"),
            Info("null", "null", "null", "other", "absent")}

MCHostTable == <<"CPU load", "Logging level console", "Logging level file">>
===============================================================================
