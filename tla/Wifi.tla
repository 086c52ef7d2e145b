---------------------------------- MODULE Wifi ----------------------------------
(***************************************************************************)
(* The network manager NoneCompiled/wifi.c: the scan, read line by line,   *)
(* the calls that connect and disconnect, one system call per step, and    *)
(* what they leave behind when the program is interrupted.  A network is a *)
(* name; a line is what kind of line it is and what it says.               *)
(*                                                                         *)
(* run_sys is system(), which ignores SIGINT while the command runs: ctrl-C *)
(* ends the command and the program goes on.  No caller looks at the       *)
(* result, so a command may be missing, fail or be cut off at each step.   *)
(***************************************************************************)
EXTENDS Naturals, Sequences

CONSTANTS
  Airs,       \* what scans find: sequences of [ssid, pct, key, ies]
  InName,     \* ssid -> the words that the parser looks for and the name contains
  Points,     \* the access points that answer, as [ssid, open]
  MAX,        \* MAX_NETWORKS
  CALLS       \* bound: calls that connect or disconnect

(* What a scan hears of one access point: its name, its strength, whether   *)
(* the key is on, and the elements it sends, which of a network without     *)
(* key name no encryption.                                                  *)
Encryptions == {"WPA", "WPA2", "WPA3"}
Heard == [ssid : DOMAIN InName, pct : Nat, key : {"on", "off"}, ies : Seq(Encryptions \cup {"BSS"})]

ASSUME WifiAssumption ==
  /\ MAX \in Nat \ {0}
  /\ \A a \in Airs : /\ a \in Seq(Heard)
                     /\ \A i \in DOMAIN a : a[i].key = "off" => \A j \in DOMAIN a[i].ies : a[i].ies[j] = "BSS"

Interfaces == {"wlan", "eth"}
None == [ssid |-> "none", open |-> TRUE, pass |-> "none"]

VARIABLES
  pc,
  adapter,        \* a wireless adapter is plugged in
  by, cell, row,  \* the scan: iwlist or iw, and the line to come, by its place in a cell's text
  cur, networks,  \* the entry so far, and the list
  air,            \* what the scan heard
  call,           \* the network of the connection in progress, or None
  iface,          \* the interface that DHCP is asked for
  conf,           \* /tmp/wpa_supplicant.conf: a network, or None
  supplicant,     \* the network that the running wpa_supplicant joins, or None
  up,             \* the wireless interface is up
  ip,             \* address of each interface: "none", "lease" or "static"
  daemons,        \* the interfaces that a dhcpcd or dhclient serves
  asked,          \* history: the network last asked for
  unwritten,      \* history: that call could not write its conf
  stopped,        \* history: the commands that were to stop something did
  off,            \* history: disconnected since
  ncalls

scanvars == <<by, cell, row, cur, networks, air>>
netvars == <<conf, supplicant, up, ip, daemons>>
ghosts == <<asked, unwritten, stopped, off, ncalls>>
vars == <<pc, adapter, scanvars, call, iface, netvars, ghosts>>

Fresh(tool) == [ssid |-> "", pct |-> IF tool = "iwlist" THEN 50 ELSE 60, sec |-> "Open"]

Init ==
  /\ pc = "off" /\ adapter \in BOOLEAN
  /\ by = "iwlist" /\ cell = 1 /\ row = 1 /\ cur = Fresh("iwlist") /\ networks = <<>> /\ air = <<>>
  /\ call = None /\ iface = "wlan"
  /\ conf = None /\ supplicant = None /\ up = FALSE
  /\ ip = [i \in Interfaces |-> "none"] /\ daemons = {}
  /\ asked = None /\ unwritten = FALSE /\ stopped = TRUE /\ off = FALSE /\ ncalls = 0

-----------------------------------------------------------------------------
(* The output of the two tools, one cell after the other.  iw does not say  *)
(* whether the key is on, and its "BSS Load" comes between name and ies.    *)
Line(kind, a, words) == [kind |-> kind, ssid |-> a.ssid, pct |-> a.pct, key |-> a.key, words |-> words]
IeLines(a) == [i \in DOMAIN a.ies |-> Line("ie", a, {a.ies[i]})]
CellLines(tool, a) ==
  IF tool = "iwlist"
  THEN <<Line("cell", a, {}), Line("pct", a, {}), Line("key", a, {}), Line("ssid", a, InName[a.ssid])>> \o IeLines(a)
  ELSE <<Line("cell", a, {}), Line("pct", a, {}), Line("ssid", a, {})>> \o IeLines(a)
Text(i) == CellLines(by, air[i])
TextEnds == cell > Len(air)

(* What ends an entry: "Cell " anywhere in a line, in iw a line that starts *)
(* with "BSS ", which "BSS Load" does too.                                  *)
Starts(l) == l.kind = "cell" \/ (IF by = "iwlist" THEN "Cell" ELSE "BSS") \in l.words
Same(l) == {i \in DOMAIN networks : networks[i].ssid = l.ssid}

(* The finished entry: an SSID seen before keeps the stronger signal if the *)
(* tool is iwlist, and the first otherwise.                                 *)
FlushedAlways(c) ==  \* mutant: no search for the same SSID
  IF c.ssid = "" THEN networks ELSE Append(networks, c)
FlushedWeaker(c) ==  \* mutant: the latest is kept
  IF c.ssid = "" THEN networks
  ELSE IF Same(c) = {} THEN Append(networks, c)
  ELSE [i \in DOMAIN networks |-> IF i \in Same(c) THEN c ELSE networks[i]]
Flushed(c) ==
  IF c.ssid = "" THEN networks
  ELSE IF Same(c) = {} THEN Append(networks, c)
  ELSE [i \in DOMAIN networks |->
         IF i \in Same(c) /\ by = "iwlist" /\ c.pct > networks[i].pct THEN c ELSE networks[i]]

Keyed(l, sec) == IF l.kind /= "key" THEN sec ELSE IF l.key = "off" THEN "Open"
                 ELSE IF sec = "Open" THEN "WEP" ELSE sec
Spoken(l, sec) ==
  CASE "WPA2" \in l.words -> "WPA2-PSK"
    [] "WPA2" \notin l.words /\ "WPA3" \in l.words -> IF by = "iw" THEN "WPA2-PSK" ELSE "WPA3-SAE"
    [] l.words \cap {"WPA", "WPA2", "WPA3"} = {"WPA"} -> IF by = "iw" THEN "WPA2-PSK" ELSE "WPA-PSK"
    [] OTHER -> sec
Described(c, l) ==
  [ssid |-> IF l.kind = "ssid" /\ l.ssid /= "" THEN l.ssid ELSE c.ssid,
   pct |-> IF l.kind = "pct" THEN l.pct ELSE c.pct,
   sec |-> Spoken(l, Keyed(l, c.sec))]

KeepNet == UNCHANGED <<adapter, call, iface, netvars>>

Hear(tool) ==
  air' \in Airs /\ by' = tool /\ cell' = 1 /\ row' = 1 /\ cur' = Fresh(tool) /\ networks' = <<>>
Forget == air' = <<>> /\ by' = "iwlist" /\ cell' = 1 /\ row' = 1 /\ cur' = Fresh("iwlist") /\ networks' = <<>>

(* The top of the menu: the adapter is looked for again, whatever name was  *)
(* typed, and if there is one the interface is brought up and scanned.      *)
Scan ==
  /\ pc = "menu" /\ adapter
  /\ pc' = "scan" /\ up' \in {TRUE, up} /\ Hear("iwlist")
  /\ UNCHANGED <<adapter, call, iface, conf, supplicant, ip, daemons, ghosts>>

ReadLine ==
  /\ pc = "scan" /\ ~TextEnds /\ Len(networks) < MAX
  /\ IF row < Len(Text(cell)) THEN row' = row + 1 /\ UNCHANGED cell ELSE row' = 1 /\ cell' = cell + 1
  /\ LET l == Text(cell)[row] IN
       IF Starts(l) THEN networks' = Flushed(cur) /\ cur' = Fresh(by)
                    ELSE cur' = Described(cur, l) /\ UNCHANGED networks
  /\ UNCHANGED <<pc, by, air, ghosts>> /\ KeepNet

(* The last entry: iwlist drops it if its SSID is listed, however strong,   *)
(* and iw appends it anyway.                                                *)
LastListed ==
  IF cur.ssid = "" \/ Len(networks) >= MAX \/ (by = "iwlist" /\ Same(cur) /= {})
  THEN networks ELSE Append(networks, cur)
ScanEnds ==
  /\ pc = "scan" /\ (TextEnds \/ Len(networks) = MAX)
  /\ IF LastListed = <<>> /\ by = "iwlist"
     THEN pc' = "scan" /\ Hear("iw")
     ELSE pc' = "choose" /\ networks' = LastListed /\ UNCHANGED <<by, cell, row, cur, air>>
  /\ UNCHANGED ghosts /\ KeepNet

-----------------------------------------------------------------------------
(* The calls.                                                               *)
Network(s, p) == [ssid |-> s, open |-> p = "none", pass |-> p]
Counted == ncalls < CALLS /\ ncalls' = ncalls + 1

connect_wifi(s, p) ==
  /\ Counted /\ adapter /\ Forget
  /\ call' = Network(s, p) /\ iface' = "wlan" /\ pc' = "conf" /\ off' = FALSE
  /\ UNCHANGED <<adapter, netvars, asked, unwritten, stopped>>

(* An entry of the list: a password is asked for unless it is open, and an  *)
(* empty one is refused.                                                    *)
Choose(i, p) ==
  /\ pc = "choose" /\ i \in DOMAIN networks
  /\ (p = "none") <=> (networks[i].sec = "Open")
  /\ connect_wifi(networks[i].ssid, p)

(* A name that is typed, at the menu or on the command line.                *)
TypeSsid(s, p) == pc \in {"choose", "off"} /\ connect_wifi(s, p)

configure_wired ==
  /\ pc \in {"choose", "off"} \/ (pc = "menu" /\ ~adapter)
  /\ Counted /\ Forget
  /\ pc' = "lease" /\ iface' = "eth" /\ call' = None
  /\ UNCHANGED <<adapter, netvars, asked, unwritten, stopped, off>>

(* The file may not open, or be cut off, and then names no network.         *)
WriteConf ==
  /\ pc = "conf" /\ pc' = "kill"
  /\ conf' \in {call, conf, None}
  /\ UNCHANGED <<adapter, scanvars, call, iface, supplicant, up, ip, daemons, ghosts>>

(* killall, which may fail, be missing or be interrupted alone.             *)
KillNone == supplicant  \* mutant: the supplicant is not among the names
Killed == None
Kill ==
  /\ pc = "kill" /\ pc' = "up" /\ unwritten' = (conf /= call)
  /\ \E done \in BOOLEAN :
       /\ supplicant' \in IF done THEN {Killed} ELSE {None, supplicant}
       /\ stopped' = done
  /\ UNCHANGED <<adapter, scanvars, call, iface, conf, up, ip, daemons, asked, off, ncalls>>
Up ==
  /\ pc = "up" /\ pc' = "launch" /\ up' \in {TRUE, up}
  /\ UNCHANGED <<adapter, scanvars, call, iface, conf, supplicant, ip, daemons, ghosts>>

(* A second supplicant on the interface gives up.                           *)
Launch ==
  /\ pc = "launch" /\ pc' = "lease" /\ asked' = call
  /\ supplicant' \in (IF supplicant = None THEN {conf, None} ELSE {supplicant})
  /\ UNCHANGED <<adapter, scanvars, call, iface, conf, up, ip, daemons, unwritten, stopped, off, ncalls>>

Associated ==
  /\ up /\ supplicant /= None
  /\ [ssid |-> supplicant.ssid, open |-> supplicant.open] \in Points
  /\ supplicant.pass \in {"none", "right"}
Linked(i) == IF i = "wlan" THEN Associated ELSE TRUE

(* udhcpc clears the address and ends; dhcpcd and dhclient may stay.  None  *)
(* of them need be there.                                                   *)
Lease ==
  /\ pc = "lease"
  /\ \E got \in {"none", "lease", ip[iface]}, stays \in BOOLEAN :
       /\ got = "lease" => Linked(iface) \/ ip[iface] = "lease"
       /\ ip' = [ip EXCEPT ![iface] = got]
       /\ daemons' = IF stays THEN daemons \cup {iface} ELSE daemons
       /\ pc' = IF got = "none" THEN "static" ELSE "save"
  /\ UNCHANGED <<adapter, scanvars, call, iface, conf, supplicant, up, ghosts>>

(* Without a lease the address of QEMU's network is set.                    *)
Static ==
  /\ pc = "static" /\ pc' = "save" /\ ip' \in {[ip EXCEPT ![iface] = "static"], ip}
  /\ UNCHANGED <<adapter, scanvars, call, iface, conf, supplicant, up, daemons, ghosts>>

(* The profile is saved, in a file that is only ever printed.  The command  *)
(* line ends.                                                               *)
Save ==
  /\ pc = "save" /\ pc' \in {"menu", "off"} /\ call' = None
  /\ UNCHANGED <<adapter, scanvars, iface, netvars, ghosts>>

(* One killall of the supplicant and of the clients, then one ifconfig that *)
(* clears the address and takes the interface down.  Each may stop before   *)
(* its end, and "disconnected" is printed.                                  *)
KillClients == supplicant  \* mutant
KillSupplicant == None
disconnect_wifi ==
  /\ pc = "off" /\ Counted
  /\ pc' = IF adapter THEN "down" ELSE "off"
  /\ \/ supplicant' = KillSupplicant /\ daemons' = {} /\ stopped' = TRUE
     \/ supplicant' \in {None, supplicant} /\ daemons' \in SUBSET daemons /\ stopped' = FALSE
  /\ off' = FALSE
  /\ UNCHANGED <<adapter, scanvars, call, iface, conf, up, ip, asked, unwritten>>
Cleared == [ip EXCEPT !["wlan"] = "none"]
Down ==
  /\ pc = "down" /\ pc' = "off" /\ off' = TRUE
  /\ \/ ip' = Cleared /\ up' = FALSE /\ UNCHANGED stopped
     \/ ip' \in {ip, Cleared} /\ UNCHANGED up /\ stopped' = FALSE
  /\ UNCHANGED <<adapter, scanvars, call, iface, conf, supplicant, daemons, asked, unwritten, ncalls>>

-----------------------------------------------------------------------------
(* The menu is started; R, a manual interface name, an empty password and a *)
(* wrong choice go back to its top; Q and, between two commands, ctrl-C end *)
(* the program, and SIGTERM does anywhere: the command that runs then, if   *)
(* any, comes to its end, which is the step before.                         *)
Start == pc = "off" /\ pc' = "menu" /\ UNCHANGED <<adapter, scanvars, call, iface, netvars, ghosts>>
Again ==
  /\ pc = "choose" /\ pc' = "menu" /\ Forget
  /\ UNCHANGED ghosts /\ KeepNet
Quit ==
  /\ pc /= "off" /\ pc' = "off" /\ Forget /\ call' = None
  /\ UNCHANGED <<adapter, iface, netvars, ghosts>>

(* An adapter is plugged in; a client that stayed obtains a lease.          *)
Plug == ~adapter /\ adapter' = TRUE /\ UNCHANGED <<pc, scanvars, call, iface, netvars, ghosts>>
Renew ==
  /\ \E i \in daemons : ip[i] /= "lease" /\ Linked(i) /\ ip' = [ip EXCEPT ![i] = "lease"]
  /\ UNCHANGED <<pc, adapter, scanvars, call, iface, conf, supplicant, up, daemons, ghosts>>

Next ==
  \/ Start \/ Scan \/ ReadLine \/ ScanEnds \/ Again \/ Quit
  \/ \E i \in 1 .. MAX, p \in {"none", "right", "wrong"} : Choose(i, p)
  \/ \E s \in {q.ssid : q \in Points}, p \in {"none", "right", "wrong"} : TypeSsid(s, p)
  \/ configure_wired \/ disconnect_wifi
  \/ WriteConf \/ Kill \/ Up \/ Launch \/ Lease \/ Static \/ Save \/ Down
  \/ Plug \/ Renew

Spec == Init /\ [][Next]_vars

-----------------------------------------------------------------------------
(* The list has each network that was heard, but those whose name ends an   *)
(* entry, if there was room, and none twice; iw may list its last one twice *)
(* (wifi.c:384-399, 471-480, 553-555).                                      *)
Audible == {air[i].ssid : i \in DOMAIN air} \ ({""} \cup {s \in DOMAIN InName : by = "iwlist" /\ "Cell" \in InName[s]})
EachListedOnce ==
  pc = "choose" =>
    /\ Len(networks) < MAX => {networks[i].ssid : i \in DOMAIN networks} = Audible
    /\ \A i, j \in DOMAIN networks :
         networks[i].ssid = networks[j].ssid /\ i < j => by = "iw" /\ j = Len(networks)

(* What iwlist's list says of a name is so at one access point of that name *)
(* and no other but the last of the scan is stronger; an access point with  *)
(* a key is not shown as open (wifi.c:384-399, 436-466).                    *)
Shown(n, a) ==
  /\ n.ssid = a.ssid /\ n.pct = a.pct
  /\ n.sec = "Open" <=> a.key = "off"
StrongestIsShown ==
  pc = "choose" /\ by = "iwlist" /\ Len(networks) < MAX =>
    \A k \in DOMAIN networks : InName[networks[k].ssid] = {} =>
      /\ \E i \in DOMAIN air : Shown(networks[k], air[i])
      /\ \A i \in 1 .. Len(air) - 1 : air[i].ssid = networks[k].ssid => air[i].pct <= networks[k].pct

(* Whatever calls were interrupted and whichever of their commands failed   *)
(* before, two commands of the last call decide: if its conf was written    *)
(* and its killall came to its end, the supplicant joins the network that   *)
(* was asked for last or none.  Otherwise the code goes on, and an older    *)
(* network may be joined (wifi.c:643-672).                                  *)
JoinsTheLastAsked == ~unwritten /\ stopped => supplicant \in {None, asked}

(* Once the two commands of a disconnect have come to their ends, neither a *)
(* scan, which brings the interface up, nor a client left from an earlier   *)
(* call or from a disconnect that failed brings the connection back.  After *)
(* one that failed "disconnected" is printed as well, and this is not so    *)
(* (wifi.c:622-630, 490).                                                   *)
StaysDisconnected == off /\ stopped => ~Associated /\ ip["wlan"] = "none"
================================================================================
