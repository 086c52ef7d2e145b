--------------------------------- MODULE MCWifi --------------------------------
(* Scans of up to four cells with two access points of one name in every order,   *)
(* an open one, one whose name ends an entry, one whose name is taken for a  *)
(* security line, and one that iw splits; iw may hear something else.        *)
EXTENDS Wifi

Cell(s, p, k, i) == [ssid |-> s, pct |-> p, key |-> k, ies |-> i]
Weak == Cell("home", 40, "on", <<"WPA">>)
Strong == Cell("home", 80, "on", <<>>)
Cafe == Cell("cafe", 60, "off", <<>>)
Split == Cell("Cell 9", 70, "on", <<"BSS", "WPA2">>)
Named == Cell("WPA3 lab", 30, "off", <<>>)
MCAirs == {<<>>, <<Weak, Strong, Cafe>>, <<Strong, Weak, Cafe>>, <<Cafe, Weak, Strong>>,
           <<Weak, Strong, Weak>>, <<Split, Named, Strong>>, <<Cafe, Strong, Named, Split>>, <<Split>>}
MCInName == [s \in {"", "home", "cafe", "Cell 9", "WPA3 lab"} |->
  IF s = "Cell 9" THEN {"Cell"} ELSE IF s = "WPA3 lab" THEN {"WPA3"} ELSE {}]
MCPoints == {[ssid |-> "home", open |-> FALSE], [ssid |-> "cafe", open |-> TRUE]}
================================================================================
