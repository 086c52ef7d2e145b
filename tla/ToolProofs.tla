------------------------------ MODULE ToolProofs ------------------------------
(* The two network programs of NoneCompiled/: what wifi.c leaves of one       *)
(* connection when the next begins, for any number of calls, any access       *)
(* points and any list of networks, where the run allows two calls; what its  *)
(* list shows of a scan, for any number of cells and any room for the list;   *)
(* and what wget.c leaves in its file, for every answer, every way of cutting *)
(* it into chunks and every size of the buffer.  The programs share no        *)
(* variable.                                                                  *)
EXTENDS Wifi, Wget, SequenceTheorems, WellFoundedInduction, TLAPS

-----------------------------------------------------------------------------
(* wifi.c                                                                     *)

Address == [Interfaces -> {"none", "lease", "static"}]

\* The supplicant that runs is the last call's, and the next one is started
\* from that call's configuration when the old one is gone.
Launching ==
  pc \in {"up", "launch"} /\ ~unwritten /\ stopped => supplicant = None /\ conf = call
JoinInv == JoinsTheLastAsked /\ Launching

\* While it is disconnected no step of a call on the wireless interface is due.
Quiet ==
  /\ pc = "down" => ~off /\ (stopped => supplicant = None /\ daemons = {})
  /\ off => /\ pc \notin {"conf", "kill", "up", "launch"}
            /\ pc \in {"lease", "static"} => iface = "eth"
  /\ off /\ stopped => supplicant = None /\ "wlan" \notin daemons /\ ip["wlan"] = "none"
OffInv == ip \in Address /\ iface \in Interfaces /\ Quiet

\* The steps of the menu and of the scan, which leave the connection alone.
Menu == Start \/ Scan \/ ReadLine \/ ScanEnds \/ Again \/ Quit
Connect == \E s, p : connect_wifi(s, p)

LEMMA MenuFacts ==
  ASSUME Menu
  PROVE  /\ UNCHANGED <<iface, conf, supplicant, ip, daemons, asked, unwritten, stopped, off>>
         /\ pc' \in {"menu", "scan", "choose", "off"}
BY DEF Menu, Start, Scan, ReadLine, ScanEnds, Again, Quit, KeepNet, netvars, ghosts

LEMMA ConnectFacts ==
  ASSUME Connect
  PROVE  /\ UNCHANGED <<conf, supplicant, ip, daemons, asked, unwritten, stopped>>
         /\ pc' = "conf" /\ off' = FALSE /\ iface' = "wlan"
BY DEF Connect, connect_wifi, netvars

\* The actions, the ones that are alike taken together.
LEMMA Steps ==
  ASSUME [Next]_vars
  PROVE  \/ UNCHANGED vars \/ Menu \/ Connect \/ configure_wired \/ disconnect_wifi
         \/ WriteConf \/ Kill \/ Up \/ Launch \/ Lease \/ Static \/ Save \/ Down \/ Plug \/ Renew
<1>1. ASSUME NEW i, NEW p, Choose(i, p) PROVE Connect
  BY <1>1 DEF Choose, Connect
<1>2. ASSUME NEW s, NEW p, TypeSsid(s, p) PROVE Connect
  BY <1>2 DEF TypeSsid, Connect
<1> QED BY <1>1, <1>2 DEF Next, Menu

-----------------------------------------------------------------------------
LEMMA JoinInit == Init => JoinInv
BY DEF Init, JoinInv, JoinsTheLastAsked, Launching

LEMMA JoinStep == JoinInv /\ [Next]_vars => JoinInv'
<1> SUFFICES ASSUME JoinInv, [Next]_vars PROVE JoinInv'
  OBVIOUS
<1> USE DEF JoinInv, JoinsTheLastAsked, Launching
<1>1. CASE UNCHANGED vars
  BY <1>1 DEF vars, netvars, ghosts
<1>2. CASE Menu
  BY <1>2, MenuFacts
<1>3. CASE Connect
  BY <1>3, ConnectFacts
<1>4. CASE configure_wired \/ disconnect_wifi \/ Down
  BY <1>4 DEF configure_wired, disconnect_wifi, Down, Cleared, KillSupplicant, netvars
<1>5. CASE WriteConf
  BY <1>5 DEF WriteConf, ghosts
<1>6. CASE Kill
  BY <1>6 DEF Kill, Killed
<1>7. CASE Up
  BY <1>7 DEF Up, ghosts
<1>8. CASE Launch
  BY <1>8 DEF Launch
<1>9. CASE Lease \/ Static \/ Save \/ Plug \/ Renew
  BY <1>9 DEF Lease, Static, Save, Plug, Renew, netvars, ghosts
<1> QED BY <1>1, <1>2, <1>3, <1>4, <1>5, <1>6, <1>7, <1>8, <1>9, Steps

\* However many calls were interrupted and whichever commands failed before,
\* the supplicant joins the network asked for last, if that call wrote its
\* configuration and its killall came to its end (wifi.c:643-672).
THEOREM JoinsAsked == Spec => []JoinsTheLastAsked
<1>1. JoinInv => JoinsTheLastAsked
  BY DEF JoinInv
<1> QED BY <1>1, JoinInit, JoinStep, PTL DEF Spec

-----------------------------------------------------------------------------
LEMMA OffInit == Init => OffInv
BY DEF Init, OffInv, Quiet, Address, Interfaces

LEMMA OffStep == OffInv /\ [Next]_vars => OffInv'
<1> SUFFICES ASSUME OffInv, [Next]_vars PROVE OffInv'
  OBVIOUS
<1> USE DEF OffInv, Quiet, Address, Interfaces
<1>1. CASE UNCHANGED vars
  BY <1>1 DEF vars, netvars, ghosts
<1>2. CASE Menu
  BY <1>2, MenuFacts
<1>3. CASE Connect
  BY <1>3, ConnectFacts
<1>4. CASE configure_wired
  BY <1>4 DEF configure_wired, netvars
<1>5. CASE disconnect_wifi
  BY <1>5 DEF disconnect_wifi, KillSupplicant
<1>6. CASE WriteConf \/ Up \/ Launch
  <2>1. /\ pc \in {"conf", "up", "launch"} /\ pc' \in {"kill", "launch", "lease"}
        /\ pc = "launch" <=> pc' = "lease"
        /\ UNCHANGED <<iface, ip, daemons, stopped, off>>
    BY <1>6 DEF WriteConf, Up, Launch, ghosts
  <2>2. ~off
    BY <2>1
  <2> QED BY <2>1, <2>2
<1>13. CASE Kill
  <2>1. pc = "kill" /\ pc' = "up" /\ UNCHANGED <<iface, ip, daemons, off>>
    BY <1>13 DEF Kill
  <2> QED BY <2>1
<1>7. CASE Lease
  <2>1. PICK got \in {"none", "lease", ip[iface]}, stays \in BOOLEAN :
          /\ ip' = [ip EXCEPT ![iface] = got]
          /\ daemons' = IF stays THEN daemons \cup {iface} ELSE daemons
          /\ pc' = IF got = "none" THEN "static" ELSE "save"
    BY <1>7 DEF Lease
  <2>2. UNCHANGED <<iface, supplicant, stopped, off>> /\ pc = "lease"
    BY <1>7 DEF Lease, ghosts
  <2>3. ip' \in Address
    BY <2>1
  <2> QED BY <2>1, <2>2, <2>3
<1>8. CASE Static
  BY <1>8 DEF Static, ghosts
<1>9. CASE Save
  BY <1>9 DEF Save, netvars, ghosts
<1>10. CASE Down
  BY <1>10 DEF Down, Cleared
<1>11. CASE Plug
  BY <1>11 DEF Plug, netvars, ghosts
<1>12. CASE Renew
  <2>1. PICK i \in daemons : Linked(i) /\ ip' = [ip EXCEPT ![i] = "lease"]
    BY <1>12 DEF Renew
  <2>2. UNCHANGED <<pc, iface, supplicant, daemons, stopped, off>>
    BY <1>12 DEF Renew, ghosts
  <2>3. ip' \in Address
    BY <2>1
  <2>4. off /\ stopped => ip'["wlan"] = "none"
    BY <2>1
  <2> QED BY <2>2, <2>3, <2>4
<1> QED BY <1>1, <1>2, <1>3, <1>4, <1>5, <1>6, <1>7, <1>8, <1>9, <1>10, <1>11, <1>12, <1>13, Steps

\* After a disconnect whose commands came to their ends neither a scan nor a
\* client that was left brings the connection back (wifi.c:622-630).
THEOREM Disconnected == Spec => []StaysDisconnected
<1>1. OffInv => StaysDisconnected
  BY DEF OffInv, Quiet, StaysDisconnected, Associated
<1> QED BY <1>1, OffInit, OffStep, PTL DEF Spec

-----------------------------------------------------------------------------
(* The scan.  The text of a cell, row by row.                                *)
Tools == {"iwlist", "iw"}
NameRow(b) == IF b = "iwlist" THEN 4 ELSE 3
Row(b, a, k) ==
  Line(IF k = 1 THEN "cell" ELSE IF k = 2 THEN "pct" ELSE IF k = NameRow(b) THEN "ssid"
       ELSE IF k = 3 THEN "key" ELSE "ie",
       a,
       IF k > NameRow(b) THEN {a.ies[k - NameRow(b)]} ELSE IF k = 4 THEN InName[a.ssid] ELSE {})

LEMMA IeRows ==
  ASSUME NEW a \in Heard
  PROVE  /\ IeLines(a) \in Seq({IeLines(a)[j] : j \in 1 .. Len(a.ies)}) /\ Len(IeLines(a)) = Len(a.ies)
         /\ \A j \in 1 .. Len(a.ies) : IeLines(a)[j] = Line("ie", a, {a.ies[j]})
<1>1. a.ies \in Seq(Encryptions \cup {"BSS"})
  BY DEF Heard
<1>2. DOMAIN a.ies = 1 .. Len(a.ies) /\ Len(a.ies) \in Nat
  BY <1>1
<1>3. IeLines(a) = [j \in 1 .. Len(a.ies) |-> Line("ie", a, {a.ies[j]})]
  BY <1>2 DEF IeLines
<1>4. \A j \in 1 .. Len(a.ies) : IeLines(a)[j] = Line("ie", a, {a.ies[j]})
  BY <1>3, Zenon
<1>5. DOMAIN IeLines(a) = 1 .. Len(a.ies)
  BY <1>3, Zenon
<1> DEFINE S == {IeLines(a)[j] : j \in 1 .. Len(a.ies)}
<1>6. IeLines(a) \in [1 .. Len(a.ies) -> S]
  BY <1>3, <1>5
<1>7. IeLines(a) \in Seq(S)
  BY <1>2, <1>6
<1>8. Len(IeLines(a)) = Len(a.ies)
  BY <1>2, <1>5, <1>7
<1> QED BY <1>4, <1>7, <1>8

LEMMA Joined ==
  ASSUME NEW S, NEW s \in Seq(S), NEW t \in Seq(S)
  PROVE  /\ Len(s \o t) = Len(s) + Len(t)
         /\ \A k \in 1 .. Len(s) : (s \o t)[k] = s[k]
         /\ \A k \in 1 .. Len(s) + Len(t) : k > Len(s) => (s \o t)[k] = t[k - Len(s)]
OBVIOUS

LEMMA Rows ==
  ASSUME NEW b \in Tools, NEW a \in Heard
  PROVE  /\ Len(CellLines(b, a)) = NameRow(b) + Len(a.ies) /\ Len(a.ies) \in Nat
         /\ \A k \in 1 .. NameRow(b) + Len(a.ies) : CellLines(b, a)[k] = Row(b, a, k)
<1>1. Len(a.ies) \in Nat
  BY DEF Heard
<1> DEFINE top == IF b = "iwlist"
             THEN <<Line("cell", a, {}), Line("pct", a, {}), Line("key", a, {}), Line("ssid", a, InName[a.ssid])>>
             ELSE <<Line("cell", a, {}), Line("pct", a, {}), Line("ssid", a, {})>>
           I == {IeLines(a)[j] : j \in 1 .. Len(a.ies)}
           S == I \cup {Line("cell", a, {}), Line("pct", a, {}), Line("key", a, {}), Line("ssid", a, {}), Line("ssid", a, InName[a.ssid])}
<1>2. CellLines(b, a) = top \o IeLines(a)
  BY DEF CellLines
<1>3. top \in Seq(S) /\ Len(top) = NameRow(b)
  <2>1. CASE b = "iwlist"
    BY <2>1 DEF NameRow
  <2>2. CASE b /= "iwlist"
    BY <2>2 DEF NameRow
  <2> QED BY <2>1, <2>2
<1>4. IeLines(a) \in Seq(S)
  <2> HIDE DEF S, I
  <2>1. IeLines(a) \in Seq(I)
    BY IeRows DEF I
  <2>2. I \subseteq S
    BY DEF S
  <2> QED BY <2>1, <2>2
<1> HIDE DEF S
<1>5. /\ Len(top \o IeLines(a)) = Len(top) + Len(IeLines(a))
      /\ \A k \in 1 .. Len(top) : (top \o IeLines(a))[k] = top[k]
      /\ \A k \in 1 .. Len(top) + Len(IeLines(a)) : k > Len(top) => (top \o IeLines(a))[k] = IeLines(a)[k - Len(top)]
  BY <1>3, <1>4, Joined
<1>6. Len(IeLines(a)) = Len(a.ies) /\ NameRow(b) \in Nat
  BY IeRows DEF NameRow
<1>7. ASSUME NEW k \in 1 .. NameRow(b) + Len(a.ies) PROVE CellLines(b, a)[k] = Row(b, a, k)
  <2>1. CASE k <= NameRow(b)
    <3>1. CellLines(b, a)[k] = top[k] /\ k \in 1 .. NameRow(b)
      BY <1>1, <1>2, <1>3, <1>5, <1>6, <2>1
    <3>2. top[k] = Row(b, a, k)
      <4>1. CASE b = "iwlist" /\ k \in {1, 2, 3, 4}
        <5>1. NameRow(b) = 4
          BY <4>1 DEF NameRow
        <5>2. CASE k = 1
          <6>1. Row(b, a, k) = Line("cell", a, {})
            BY <4>1, <5>1, <5>2 DEF Row
          <6>2. top[k] = Line("cell", a, {})
            BY <4>1, <5>2
          <6> QED BY <6>1, <6>2
        <5>3. CASE k = 2
          <6>1. Row(b, a, k) = Line("pct", a, {})
            BY <4>1, <5>1, <5>3 DEF Row
          <6>2. top[k] = Line("pct", a, {})
            BY <4>1, <5>3
          <6> QED BY <6>1, <6>2
        <5>4. CASE k = 3
          BY <4>1, <5>1, <5>4 DEF Row
        <5>5. CASE k = 4
          BY <4>1, <5>1, <5>5 DEF Row
        <5> QED BY <4>1, <5>2, <5>3, <5>4, <5>5
      <4>2. CASE b /= "iwlist" /\ k \in {1, 2, 3}
        <5>1. NameRow(b) = 3
          BY <4>2 DEF NameRow
        <5>2. CASE k = 1
          <6>1. Row(b, a, k) = Line("cell", a, {})
            BY <4>2, <5>1, <5>2 DEF Row
          <6>2. top[k] = Line("cell", a, {})
            BY <4>2, <5>2
          <6> QED BY <6>1, <6>2
        <5>3. CASE k = 2
          <6>1. Row(b, a, k) = Line("pct", a, {})
            BY <4>2, <5>1, <5>3 DEF Row
          <6>2. top[k] = Line("pct", a, {})
            BY <4>2, <5>3
          <6> QED BY <6>1, <6>2
        <5>4. CASE k = 3
          BY <4>2, <5>1, <5>4 DEF Row
        <5> QED BY <4>2, <5>2, <5>3, <5>4
      <4> QED BY <3>1, <4>1, <4>2 DEF NameRow
    <3> QED BY <3>1, <3>2
  <2>2. CASE k > NameRow(b)
    <3>1. CellLines(b, a)[k] = IeLines(a)[k - NameRow(b)] /\ k - NameRow(b) \in 1 .. Len(a.ies)
      BY <1>1, <1>2, <1>3, <1>5, <1>6, <2>2
    <3>2. IeLines(a)[k - NameRow(b)] = Line("ie", a, {a.ies[k - NameRow(b)]})
      BY <3>1, IeRows
    <3>3. Row(b, a, k) = Line("ie", a, {a.ies[k - NameRow(b)]})
      <4>1. k /= 1 /\ k /= 2 /\ k /= NameRow(b) /\ k /= 3
        BY <2>2 DEF NameRow
      <4> QED BY <2>2, <4>1 DEF Row
    <3> QED BY <3>1, <3>2, <3>3
  <2> QED BY <1>6, <2>1, <2>2
<1>8. Len(CellLines(b, a)) = NameRow(b) + Len(a.ies)
  BY <1>2, <1>3, <1>5, <1>6
<1> QED BY <1>1, <1>7, <1>8

LEMMA RowFacts ==
  ASSUME NEW b \in Tools, NEW a \in Heard, NEW k \in 1 .. NameRow(b) + Len(a.ies)
  PROVE  /\ Row(b, a, k).ssid = a.ssid /\ Row(b, a, k).pct = a.pct /\ Row(b, a, k).key = a.key
         /\ k = 1 => Row(b, a, k).kind = "cell" /\ Row(b, a, k).words = {}
         /\ k = 2 => Row(b, a, k).kind = "pct" /\ Row(b, a, k).words = {}
         /\ k = 3 /\ b = "iwlist" => Row(b, a, k).kind = "key" /\ Row(b, a, k).words = {}
         /\ k = NameRow(b) => /\ Row(b, a, k).kind = "ssid"
                              /\ Row(b, a, k).words = IF b = "iwlist" THEN InName[a.ssid] ELSE {}
         /\ k > NameRow(b) => /\ Row(b, a, k).kind = "ie" /\ Row(b, a, k).words = {a.ies[k - NameRow(b)]}
                              /\ k - NameRow(b) \in 1 .. Len(a.ies)
                              /\ a.ies[k - NameRow(b)] \in Encryptions \cup {"BSS"}
<1>1. Len(a.ies) \in Nat /\ NameRow(b) \in {3, 4}
  BY DEF Heard, NameRow
<1>2. k > NameRow(b) => k - NameRow(b) \in 1 .. Len(a.ies)
  BY <1>1
<1>3. \A j \in 1 .. Len(a.ies) : a.ies[j] \in Encryptions \cup {"BSS"}
  BY DEF Heard
<1> QED BY <1>1, <1>2, <1>3 DEF Row, Line, NameRow, Tools

-----------------------------------------------------------------------------
(* The list.                                                                 *)
Secs == {"Open", "WEP", "WPA-PSK", "WPA2-PSK", "WPA3-SAE"}
Entry == [ssid : DOMAIN InName \cup {""}, pct : Nat, sec : Secs]
Listed(ns, s) == \E k \in 1 .. Len(ns) : ns[k].ssid = s
Once(ns) ==
  /\ ns \in Seq(Entry) /\ ~Listed(ns, "")
  /\ \A i, j \in 1 .. Len(ns) : ns[i].ssid = ns[j].ssid => i = j

LEMMA OneMore == ASSUME NEW n \in Nat, NEW m, m = n + 1 PROVE \A i \in 1 .. m : i = m \/ i \in 1 .. n
OBVIOUS

LEMMA Longer ==
  ASSUME NEW n \in Nat, NEW m, m = n \/ m = n + 1
  PROVE  n <= m /\ m <= n + 1 /\ \A k \in 1 .. m : k > n => m = n + 1 /\ k = m
OBVIOUS

LEMMA ListIsSeq ==
  ASSUME NEW ns, Once(ns)
  PROVE  /\ ns \in Seq(Entry) /\ Len(ns) \in Nat /\ DOMAIN ns = 1 .. Len(ns)
         /\ \A k \in 1 .. Len(ns) : ns[k] \in Entry
<1>1. ns \in Seq(Entry)
  BY DEF Once
<1> QED BY <1>1

LEMMA Appended ==
  ASSUME NEW ns, Once(ns), NEW c \in Entry
  PROVE  /\ Append(ns, c) \in Seq(Entry) /\ Len(Append(ns, c)) = Len(ns) + 1 /\ Len(ns) \in Nat
         /\ \A k \in 1 .. Len(ns) : Append(ns, c)[k] = ns[k]
         /\ Append(ns, c)[Len(ns) + 1] = c
         /\ \A s : Listed(Append(ns, c), s) <=> Listed(ns, s) \/ s = c.ssid
<1>1. ns \in Seq(Entry)
  BY DEF Once
<1>2. /\ Append(ns, c) \in Seq(Entry) /\ Len(Append(ns, c)) = Len(ns) + 1 /\ Len(ns) \in Nat
      /\ \A k \in 1 .. Len(ns) : Append(ns, c)[k] = ns[k]
      /\ Append(ns, c)[Len(ns) + 1] = c
  BY <1>1
<1>3. ASSUME NEW s PROVE Listed(Append(ns, c), s) <=> Listed(ns, s) \/ s = c.ssid
  <2> DEFINE t == Append(ns, c)
  <2>1. /\ Len(t) = Len(ns) + 1 /\ Len(ns) \in Nat /\ t[Len(ns) + 1] = c
        /\ \A k \in 1 .. Len(ns) : t[k] = ns[k]
    BY <1>2
  <2> HIDE DEF t
  <2>2. ASSUME NEW k \in 1 .. Len(t), t[k].ssid = s PROVE Listed(ns, s) \/ s = c.ssid
    BY <2>1, <2>2 DEF Listed
  <2>3. s = c.ssid => Listed(t, s)
    BY <2>1 DEF Listed
  <2>4. ASSUME NEW k \in 1 .. Len(ns), ns[k].ssid = s PROVE Listed(t, s)
    BY <2>1, <2>4 DEF Listed
  <2>5. Listed(t, s) <=> Listed(ns, s) \/ s = c.ssid
    BY <2>2, <2>3, <2>4 DEF Listed
  <2> QED BY <2>5 DEF t
<1> QED BY <1>2, <1>3

LEMMA AppendedOnce ==
  ASSUME NEW ns, Once(ns), NEW c \in Entry, c.ssid /= "", ~Listed(ns, c.ssid)
  PROVE  Once(Append(ns, c))
<1> DEFINE t == Append(ns, c)
<1>1. /\ t \in Seq(Entry) /\ Len(t) = Len(ns) + 1 /\ Len(ns) \in Nat /\ t[Len(ns) + 1] = c
      /\ \A k \in 1 .. Len(ns) : t[k] = ns[k]
      /\ \A s : Listed(t, s) <=> Listed(ns, s) \/ s = c.ssid
  BY Appended
<1> HIDE DEF t
<1>2. \A i \in 1 .. Len(ns) : ns[i].ssid /= c.ssid
  BY DEF Listed
<1>3. ASSUME NEW i \in 1 .. Len(t), NEW j \in 1 .. Len(t), t[i].ssid = t[j].ssid PROVE i = j
  <2>1. Len(t) = Len(ns) + 1 /\ Len(ns) \in Nat
    BY <1>1
  <2>2. (i = Len(t) \/ i \in 1 .. Len(ns)) /\ (j = Len(t) \/ j \in 1 .. Len(ns))
    BY <2>1, OneMore
  <2> QED BY <1>1, <1>2, <1>3, <2>1, <2>2 DEF Once
<1>4. ~Listed(t, "")
  BY <1>1 DEF Once
<1>5. Once(t)
  BY <1>1, <1>3, <1>4 DEF Once
<1> QED BY <1>5 DEF t

\* The entry that is replaced, where the tool is iwlist.
Better(ns, b, c, k) == ns[k].ssid = c.ssid /\ b = "iwlist" /\ c.pct > ns[k].pct
Replaced(ns, b, c) == [k \in 1 .. Len(ns) |-> IF Better(ns, b, c, k) THEN c ELSE ns[k]]

LEMMA ReplacedOnce ==
  ASSUME NEW ns, Once(ns), NEW b, NEW c \in Entry
  PROVE  /\ Once(Replaced(ns, b, c)) /\ Len(Replaced(ns, b, c)) = Len(ns)
         /\ \A k \in 1 .. Len(ns) : Replaced(ns, b, c)[k] = IF Better(ns, b, c, k) THEN c ELSE ns[k]
         /\ \A s : Listed(Replaced(ns, b, c), s) <=> Listed(ns, s)
<1> DEFINE t == Replaced(ns, b, c)
<1>1. ns \in Seq(Entry) /\ Len(ns) \in Nat /\ \A k \in 1 .. Len(ns) : ns[k] \in Entry
  BY ListIsSeq
<1>2. /\ t = [k \in 1 .. Len(ns) |-> IF Better(ns, b, c, k) THEN c ELSE ns[k]]
  BY DEF Replaced
<1>3. \A k \in 1 .. Len(ns) : t[k] = IF Better(ns, b, c, k) THEN c ELSE ns[k]
  BY <1>2, Zenon
<1>4. t \in [1 .. Len(ns) -> Entry] /\ DOMAIN t = 1 .. Len(ns)
  BY <1>1, <1>2
<1>5. t \in Seq(Entry) /\ Len(t) = Len(ns)
  BY <1>1, <1>4
<1> HIDE DEF t
<1>6. \A k \in 1 .. Len(ns) : t[k].ssid = ns[k].ssid
  BY <1>3 DEF Better
<1>7. \A s : Listed(t, s) <=> Listed(ns, s)
  BY <1>5, <1>6 DEF Listed
<1>8. Once(t)
  BY <1>5, <1>6, <1>7 DEF Once
<1>9. /\ Once(t) /\ Len(t) = Len(ns) /\ \A k \in 1 .. Len(ns) : t[k] = IF Better(ns, b, c, k) THEN c ELSE ns[k]
      /\ \A s : Listed(t, s) <=> Listed(ns, s)
  BY <1>3, <1>5, <1>7, <1>8
<1> QED BY <1>9 DEF t

LEMMA SameIsListed ==
  ASSUME NEW c, networks \in Seq(Entry)
  PROVE  Same(c) = {} <=> ~Listed(networks, c.ssid)
<1>1. DOMAIN networks = 1 .. Len(networks)
  OBVIOUS
<1> QED BY <1>1 DEF Same, Listed

LEMMA FlushedIs ==
  ASSUME Once(networks), NEW c \in Entry
  PROVE  /\ c.ssid = "" => Flushed(c) = networks
         /\ c.ssid /= "" /\ ~Listed(networks, c.ssid) => Flushed(c) = Append(networks, c)
         /\ c.ssid /= "" /\ Listed(networks, c.ssid) => Flushed(c) = Replaced(networks, by, c)
<1>1. networks \in Seq(Entry) /\ DOMAIN networks = 1 .. Len(networks)
  BY ListIsSeq
<1>2. Same(c) = {} <=> ~Listed(networks, c.ssid)
  BY <1>1, SameIsListed
<1>3. ASSUME NEW k \in 1 .. Len(networks)
      PROVE  (k \in Same(c) /\ by = "iwlist" /\ c.pct > networks[k].pct) <=> Better(networks, by, c, k)
  BY <1>1 DEF Same, Better
<1>4. [k \in 1 .. Len(networks) |-> IF k \in Same(c) /\ by = "iwlist" /\ c.pct > networks[k].pct THEN c ELSE networks[k]]
      = Replaced(networks, by, c)
  BY <1>3 DEF Replaced
<1>5. c.ssid /= "" /\ Listed(networks, c.ssid) => Flushed(c) = Replaced(networks, by, c)
  BY <1>1, <1>2, <1>4 DEF Flushed
<1> QED BY <1>2, <1>5 DEF Flushed

Grew(ns, b, c, t) ==
  /\ Once(t) /\ Len(ns) <= Len(t) /\ Len(t) <= Len(ns) + 1
  /\ \A s : Listed(t, s) <=> Listed(ns, s) \/ (s = c.ssid /\ s /= "")
  /\ \A k \in 1 .. Len(ns) : t[k] = IF c.ssid /= "" /\ Better(ns, b, c, k) THEN c ELSE ns[k]
  /\ \A k \in 1 .. Len(t) : k > Len(ns) => t[k] = c /\ c.ssid /= "" /\ ~Listed(ns, c.ssid)

\* What an entry that is finished does to the list: its name is listed then, and every other stays.
LEMMA FlushedFacts ==
  ASSUME Once(networks), NEW c \in Entry, NEW t, t = Flushed(c)
  PROVE  Grew(networks, by, c, t)
<1>1. Len(networks) \in Nat
  BY ListIsSeq
<1>2. CASE c.ssid = ""
  <2>1. t = networks
    BY <1>2, FlushedIs
  <2>2. Once(t)
    BY <1>1, <1>2, <2>1
  <2>3. Len(networks) <= Len(t) /\ Len(t) <= Len(networks) + 1
    <3>1. Len(t) = Len(networks)
      BY <2>1
    <3> QED BY <1>1, <3>1, Longer
  <2>4. \A s : Listed(t, s) <=> Listed(networks, s) \/ (s = c.ssid /\ s /= "")
    BY <1>2, <2>1
  <2>5. \A k \in 1 .. Len(networks) : t[k] = IF c.ssid /= "" /\ Better(networks, by, c, k) THEN c ELSE networks[k]
    BY <1>1, <1>2, <2>1
  <2>6. \A k \in 1 .. Len(t) : k > Len(networks) => t[k] = c /\ c.ssid /= "" /\ ~Listed(networks, c.ssid)
    <3>1. Len(t) = Len(networks)
      BY <2>1
    <3>2. \A k \in 1 .. Len(networks) : ~(k > Len(networks))
      BY <1>1
    <3> QED BY <3>1, <3>2
  <2> QED BY <2>2, <2>3, <2>4, <2>5, <2>6 DEF Grew
<1>3. CASE c.ssid /= "" /\ ~Listed(networks, c.ssid)
  <2>1. t = Append(networks, c)
    BY <1>3, FlushedIs
  <2>2. /\ Len(t) = Len(networks) + 1 /\ t[Len(networks) + 1] = c
        /\ \A k \in 1 .. Len(networks) : t[k] = networks[k]
        /\ \A s : Listed(t, s) <=> Listed(networks, s) \/ s = c.ssid
    <3>1. /\ Len(Append(networks, c)) = Len(networks) + 1 /\ Append(networks, c)[Len(networks) + 1] = c
          /\ \A k \in 1 .. Len(networks) : Append(networks, c)[k] = networks[k]
          /\ \A s : Listed(Append(networks, c), s) <=> Listed(networks, s) \/ s = c.ssid
      BY Appended
    <3> QED BY <2>1, <3>1
  <2>3. Once(t)
    <3>1. Once(Append(networks, c))
      BY <1>3, AppendedOnce
    <3> QED BY <2>1, <3>1
  <2>4. \A k \in 1 .. Len(networks) : ~Better(networks, by, c, k)
    BY <1>3 DEF Better, Listed
  <2>5. \A k \in 1 .. Len(t) : k > Len(networks) => k = Len(networks) + 1
    BY <1>1, <2>2
  <2>6. Once(t)
    BY <1>1, <1>3, <2>2, <2>3, <2>4, <2>5
  <2>7. Len(networks) <= Len(t) /\ Len(t) <= Len(networks) + 1
    BY <1>1, <2>2, Longer
  <2>8. \A s : Listed(t, s) <=> Listed(networks, s) \/ (s = c.ssid /\ s /= "")
    BY <1>1, <1>3, <2>2, <2>3, <2>4, <2>5
  <2>9. \A k \in 1 .. Len(networks) : t[k] = IF c.ssid /= "" /\ Better(networks, by, c, k) THEN c ELSE networks[k]
    BY <1>1, <1>3, <2>2, <2>3, <2>4, <2>5
  <2>10. \A k \in 1 .. Len(t) : k > Len(networks) => t[k] = c /\ c.ssid /= "" /\ ~Listed(networks, c.ssid)
    BY <1>3, <2>2, <2>5
  <2> QED BY <2>6, <2>7, <2>8, <2>9, <2>10 DEF Grew
<1>4. CASE c.ssid /= "" /\ Listed(networks, c.ssid)
  <2>1. t = Replaced(networks, by, c)
    BY <1>4, FlushedIs
  <2>2. /\ Once(t) /\ Len(t) = Len(networks) /\ \A s : Listed(t, s) <=> Listed(networks, s)
        /\ \A k \in 1 .. Len(networks) : t[k] = IF Better(networks, by, c, k) THEN c ELSE networks[k]
    <3>1. /\ Once(Replaced(networks, by, c)) /\ Len(Replaced(networks, by, c)) = Len(networks)
          /\ \A s : Listed(Replaced(networks, by, c), s) <=> Listed(networks, s)
          /\ \A k \in 1 .. Len(networks) :
               Replaced(networks, by, c)[k] = IF Better(networks, by, c, k) THEN c ELSE networks[k]
      BY ReplacedOnce
    <3> QED BY <2>1, <3>1
  <2>3. \A k \in 1 .. Len(t) : ~(k > Len(networks))
    BY <1>1, <2>2
  <2>4. Once(t)
    BY <1>1, <1>4, <2>2, <2>3
  <2>5. Len(networks) <= Len(t) /\ Len(t) <= Len(networks) + 1
    BY <1>1, <2>2, Longer
  <2>6. \A s : Listed(t, s) <=> Listed(networks, s) \/ (s = c.ssid /\ s /= "")
    BY <1>1, <1>4, <2>2, <2>3
  <2>7. \A k \in 1 .. Len(networks) : t[k] = IF c.ssid /= "" /\ Better(networks, by, c, k) THEN c ELSE networks[k]
    BY <1>1, <1>4, <2>2, <2>3
  <2>8. \A k \in 1 .. Len(t) : k > Len(networks) => t[k] = c /\ c.ssid /= "" /\ ~Listed(networks, c.ssid)
    BY <1>1, <1>4, <2>2, <2>3
  <2> QED BY <2>4, <2>5, <2>6, <2>7, <2>8 DEF Grew
<1> QED BY <1>2, <1>3, <1>4
LEMMA MakeEntry ==
  ASSUME NEW S, NEW T, NEW U, NEW x \in S, NEW q \in T, NEW v \in U
  PROVE  [ssid |-> x, pct |-> q, sec |-> v] \in [ssid : S, pct : T, sec : U]
OBVIOUS

Becomes(b, a, k, n, d) ==
  /\ d \in Entry
  /\ d.ssid = IF k = NameRow(b) /\ a.ssid /= "" THEN a.ssid ELSE n.ssid
  /\ d.pct = IF k = 2 THEN a.pct ELSE n.pct
  /\ b = "iwlist" =>
       /\ k = 2 => d.sec = n.sec
       /\ k = 3 => d.sec = IF a.key = "off" THEN "Open" ELSE IF n.sec = "Open" THEN "WEP" ELSE n.sec
       /\ k = 4 /\ InName[a.ssid] = {} => d.sec = n.sec
       /\ k > 4 => IF a.ies[k - 4] = "BSS" THEN d.sec = n.sec ELSE d.sec /= "Open"

\* What a line that does not end the entry adds to it, and which lines end it.
LEMMA DescribedFacts ==
  ASSUME by \in Tools, NEW n \in Entry, NEW a \in Heard, NEW k \in 1 .. NameRow(by) + Len(a.ies),
         NEW d, d = Described(n, Row(by, a, k))
  PROVE  Becomes(by, a, k, n, d)
<1>1. PICK l : l = Row(by, a, k)
  OBVIOUS
<1>2. /\ l.ssid = a.ssid /\ l.pct = a.pct /\ l.key = a.key
      /\ k = 1 => l.kind = "cell" /\ l.words = {}
      /\ k = 2 => l.kind = "pct" /\ l.words = {}
      /\ k = 3 /\ by = "iwlist" => l.kind = "key" /\ l.words = {}
      /\ k = NameRow(by) => /\ l.kind = "ssid"
                            /\ l.words = IF by = "iwlist" THEN InName[a.ssid] ELSE {}
      /\ k > NameRow(by) => /\ l.kind = "ie" /\ l.words = {a.ies[k - NameRow(by)]}
                            /\ a.ies[k - NameRow(by)] \in Encryptions \cup {"BSS"}
  BY <1>1, RowFacts
<1>3. a.ssid \in DOMAIN InName /\ a.pct \in Nat /\ a.key \in {"on", "off"} /\ k \in Nat /\ k >= 1
  BY DEF Heard
<1>4. n.ssid \in DOMAIN InName \cup {""} /\ n.pct \in Nat /\ n.sec \in Secs
  BY DEF Entry
<1>5. k \in {1, 2} \/ k = NameRow(by) \/ (k = 3 /\ by = "iwlist") \/ k > NameRow(by)
  BY <1>3 DEF NameRow
<1>6. Keyed(l, n.sec) = IF k = 3 /\ by = "iwlist" THEN IF a.key = "off" THEN "Open" ELSE IF n.sec = "Open" THEN "WEP" ELSE n.sec
                        ELSE n.sec
  BY <1>2, <1>3, <1>5 DEF Keyed, NameRow, Tools
<1>7. PICK u : u = Keyed(l, n.sec)
  OBVIOUS
<1>8. u \in Secs
  BY <1>4, <1>6, <1>7 DEF Secs
<1>9. PICK v : v = Spoken(l, u)
  OBVIOUS
<1>10. v \in Secs
  BY <1>8, <1>9 DEF Spoken, Secs
<1>11. l.words = {} => v = u
  BY <1>9 DEF Spoken
<1>12. PICK x : x = IF l.kind = "ssid" /\ l.ssid /= "" THEN l.ssid ELSE n.ssid
  OBVIOUS
<1>19. PICK q : q = IF l.kind = "pct" THEN l.pct ELSE n.pct
  OBVIOUS
<1>20. d = [ssid |-> x, pct |-> q, sec |-> v]
  BY <1>1, <1>7, <1>9, <1>12, <1>19 DEF Described
<1>13. l.kind = "ssid" <=> k = NameRow(by)
  BY <1>2, <1>3, <1>5 DEF NameRow
<1>14. l.kind = "pct" <=> k = 2
  BY <1>2, <1>3, <1>5 DEF NameRow
<1>15. d \in Entry
  <2>1. x \in DOMAIN InName \cup {""}
    BY <1>2, <1>3, <1>4, <1>12
  <2>2. q \in Nat
    BY <1>2, <1>3, <1>4, <1>19
  <2>3. [ssid |-> x, pct |-> q, sec |-> v] \in [ssid : DOMAIN InName \cup {""}, pct : Nat, sec : Secs]
    BY <1>10, <2>1, <2>2, MakeEntry, Zenon
  <2> QED BY <1>20, <2>3, Zenon DEF Entry
<1>16. by = "iwlist" =>
              /\ k = 2 => v = n.sec
              /\ k = 3 => v = IF a.key = "off" THEN "Open" ELSE IF n.sec = "Open" THEN "WEP" ELSE n.sec
              /\ k = 4 /\ InName[a.ssid] = {} => v = n.sec
  BY <1>2, <1>6, <1>7, <1>11 DEF NameRow
<1>17. ASSUME by = "iwlist", k > 4 PROVE IF a.ies[k - 4] = "BSS" THEN v = n.sec ELSE v /= "Open"
  <2>1. PICK w : w = a.ies[k - 4]
    OBVIOUS
  <2>2. l.words = {w} /\ w \in Encryptions \cup {"BSS"} /\ u = n.sec
    BY <1>2, <1>3, <1>6, <1>7, <1>17, <2>1 DEF NameRow
  <2>3. w = "BSS" => v = u
    BY <1>9, <2>2 DEF Spoken
  <2>4. w \in Encryptions => v /= "Open"
    <3>1. w = "WPA2" => v = "WPA2-PSK"
      BY <1>9, <2>2 DEF Spoken
    <3>2. w = "WPA3" => v = "WPA3-SAE"
      BY <1>9, <1>17, <2>2 DEF Spoken
    <3>3. w = "WPA" => v = "WPA-PSK"
      <4>1. w = "WPA" => l.words \cap {"WPA", "WPA2", "WPA3"} = {"WPA"}
        BY <2>2
      <4> QED BY <1>9, <1>17, <2>2, <4>1 DEF Spoken
    <3> QED BY <3>1, <3>2, <3>3 DEF Encryptions
  <2> QED BY <2>1, <2>2, <2>3, <2>4
<1>18. d.ssid = (IF k = NameRow(by) /\ a.ssid /= "" THEN a.ssid ELSE n.ssid) /\ d.pct = (IF k = 2 THEN a.pct ELSE n.pct) /\ d.sec = v
  <2>1. d.ssid = x /\ d.pct = q /\ d.sec = v
    BY <1>20
  <2>2. x = IF k = NameRow(by) /\ a.ssid /= "" THEN a.ssid ELSE n.ssid
    BY <1>2, <1>12, <1>13
  <2>3. q = IF k = 2 THEN a.pct ELSE n.pct
    BY <1>2, <1>14, <1>19
  <2> QED BY <2>1, <2>2, <2>3
<1> QED BY <1>15, <1>16, <1>17, <1>18 DEF Becomes

Unheard(b) == {""} \cup {s \in DOMAIN InName : b = "iwlist" /\ "Cell" \in InName[s]}

LEMMA StartsFacts ==
  ASSUME by \in Tools, NEW a \in Heard, NEW k \in 1 .. NameRow(by) + Len(a.ies), NEW l, l = Row(by, a, k)
  PROVE  /\ k = 1 => Starts(l)
         /\ Starts(l) => k = 1 \/ (k = NameRow(by) /\ a.ssid \in Unheard(by)) \/ k > NameRow(by)
         /\ k = NameRow(by) /\ ~Starts(l) => a.ssid \notin Unheard(by) \/ a.ssid = ""
         /\ by = "iwlist" /\ Starts(l) => k \in {1, 4}
<1>1. /\ l.ssid = a.ssid
      /\ k = 1 => l.kind = "cell" /\ l.words = {}
      /\ k = 2 => l.kind = "pct" /\ l.words = {}
      /\ k = 3 /\ by = "iwlist" => l.kind = "key" /\ l.words = {}
      /\ k = NameRow(by) => /\ l.kind = "ssid"
                            /\ l.words = IF by = "iwlist" THEN InName[a.ssid] ELSE {}
      /\ k > NameRow(by) => /\ l.kind = "ie" /\ l.words = {a.ies[k - NameRow(by)]}
                            /\ a.ies[k - NameRow(by)] \in Encryptions \cup {"BSS"}
  BY RowFacts
<1>2. a.ssid \in DOMAIN InName /\ k \in Nat /\ k >= 1
  BY DEF Heard
<1>3. k \in {1, 2} \/ k = NameRow(by) \/ (k = 3 /\ by = "iwlist") \/ k > NameRow(by)
  BY <1>2 DEF NameRow
<1>4. k = 1 => Starts(l)
  BY <1>1 DEF Starts
<1>5. k = 2 \/ (k = 3 /\ by = "iwlist") => ~Starts(l)
  BY <1>1 DEF Starts
<1>6. k = NameRow(by) => (Starts(l) <=> by = "iwlist" /\ "Cell" \in InName[a.ssid])
  BY <1>1 DEF Starts
<1>7. by = "iwlist" /\ k > NameRow(by) => ~Starts(l)
  BY <1>1 DEF Starts, Encryptions
<1>8. NameRow("iwlist") = 4
  BY DEF NameRow
<1> QED BY <1>2, <1>3, <1>4, <1>5, <1>6, <1>7, <1>8 DEF Unheard
-----------------------------------------------------------------------------
(* Where the scan is: the line to come is line r of cell c.                  *)
Size(b, a) == NameRow(b) + Len(a.ies)
PlaceOK(b, A, c, r) ==
  /\ c \in Nat /\ c >= 1 /\ c <= Len(A) + 1 /\ r \in Nat /\ r >= 1
  /\ c <= Len(A) => r <= Size(b, A[c])
  /\ c = Len(A) + 1 => r = 1
Onto(b, A, c, r, c2, r2) == IF r < Size(b, A[c]) THEN r2 = r + 1 /\ c2 = c ELSE r2 = 1 /\ c2 = c + 1

LEMMA Sizes ==
  ASSUME NEW b \in Tools, NEW A \in Seq(Heard), NEW c, c \in Nat, c >= 1, c <= Len(A)
  PROVE  A[c] \in Heard /\ NameRow(b) \in {3, 4} /\ Size(b, A[c]) \in Nat /\ Size(b, A[c]) >= NameRow(b) /\ Len(A) \in Nat
<1>1. A[c] \in Heard /\ Len(A) \in Nat
  OBVIOUS
<1>2. PICK a : a = A[c]
  OBVIOUS
<1>3. Len(a.ies) \in Nat
  BY <1>1, <1>2 DEF Heard
<1>4. NameRow(b) \in {3, 4}
  BY DEF NameRow
<1>5. PICK z, m : z = Len(a.ies) /\ m = NameRow(b)
  OBVIOUS
<1>6. m + z \in Nat /\ m + z >= m
  BY <1>3, <1>4, <1>5
<1> QED BY <1>1, <1>2, <1>4, <1>5, <1>6 DEF Size

LEMMA PlaceStep ==
  ASSUME NEW b \in Tools, NEW A \in Seq(Heard), NEW c, NEW r, PlaceOK(b, A, c, r), c <= Len(A),
         NEW c2, NEW r2, Onto(b, A, c, r, c2, r2)
  PROVE  PlaceOK(b, A, c2, r2)
<1>1. c \in Nat /\ c >= 1 /\ r \in Nat /\ r >= 1 /\ r <= Size(b, A[c])
  BY DEF PlaceOK
<1>2. Size(b, A[c]) \in Nat /\ Len(A) \in Nat
  BY <1>1, Sizes
<1>3. c + 1 <= Len(A) => 1 <= Size(b, A[c + 1])
  <2> HAVE c + 1 <= Len(A)
  <2>1. c + 1 \in Nat /\ c + 1 >= 1
    BY <1>1
  <2>2. NameRow(b) \in {3, 4} /\ Size(b, A[c + 1]) \in Nat /\ Size(b, A[c + 1]) >= NameRow(b)
    BY <2>1, Sizes
  <2> QED BY <2>2
<1>4. PICK m : m = Len(A)
  OBVIOUS
<1>5. PICK z : z = Size(b, A[c])
  OBVIOUS
<1>6. CASE r < z
  BY <1>1, <1>2, <1>4, <1>5, <1>6 DEF PlaceOK, Onto
<1>7. CASE ~(r < z)
  <2>1. r2 = 1 /\ c2 = c + 1
    BY <1>5, <1>7 DEF Onto
  <2> QED BY <1>1, <1>2, <1>3, <1>4, <2>1 DEF PlaceOK
<1> QED BY <1>6, <1>7

\* The names that have been read are in the list or in the entry.
Spoke(b, A, c, r, i) == i < c \/ (i = c /\ r > NameRow(b))
HasName(b, A, c, r, s) == s \notin Unheard(b) /\ \E i \in 1 .. Len(A) : A[i].ssid = s /\ Spoke(b, A, c, r, i)
NamesInv(b, A, c, r, ns, n) ==
  /\ Once(ns) /\ n \in Entry
  /\ r \in 2 .. NameRow(b) => n.ssid = ""
  /\ \A s : Listed(ns, s) \/ (s = n.ssid /\ s /= "") <=> HasName(b, A, c, r, s)

LEMMA HasNext ==
  ASSUME NEW b \in Tools, NEW A \in Seq(Heard), NEW c, NEW r, PlaceOK(b, A, c, r), c <= Len(A),
         NEW c2, NEW r2, Onto(b, A, c, r, c2, r2), NEW s
  PROVE  HasName(b, A, c2, r2, s) <=> HasName(b, A, c, r, s) \/ (r = NameRow(b) /\ s = A[c].ssid /\ s \notin Unheard(b))
<1>1. c \in Nat /\ c >= 1 /\ r \in Nat /\ r >= 1 /\ r <= Size(b, A[c]) /\ Len(A) \in Nat
  BY DEF PlaceOK
<1>2. NameRow(b) \in {3, 4} /\ Size(b, A[c]) \in Nat /\ Size(b, A[c]) >= NameRow(b)
  BY <1>1, Sizes
<1>3. c \in 1 .. Len(A)
  BY <1>1
<1>4. PICK z, m : z = Size(b, A[c]) /\ m = NameRow(b)
  OBVIOUS
<1>5. ASSUME NEW i \in 1 .. Len(A) PROVE Spoke(b, A, c2, r2, i) <=> Spoke(b, A, c, r, i) \/ (i = c /\ r = NameRow(b))
  <2>0. i \in Nat /\ m \in {3, 4} /\ z \in Nat /\ z >= m /\ r <= z
    BY <1>1, <1>2, <1>4
  <2>1. CASE r < z
    <3>1. r2 = r + 1 /\ c2 = c
      BY <1>4, <2>1 DEF Onto
    <3> QED BY <1>1, <1>4, <2>0, <3>1 DEF Spoke
  <2>2. CASE ~(r < z)
    <3>1. r2 = 1 /\ c2 = c + 1
      BY <1>4, <2>2 DEF Onto
    <3> QED BY <1>1, <1>4, <2>0, <2>2, <3>1 DEF Spoke
  <2> QED BY <2>1, <2>2
<1> QED BY <1>3, <1>5 DEF HasName

\* An entry that is finished, as FlushedFacts has it.
Finishes(b, ns, n, t) ==
  /\ Once(t)
  /\ \A s : Listed(t, s) <=> Listed(ns, s) \/ (s = n.ssid /\ s /= "")
  /\ \A k \in 1 .. Len(ns) : t[k] = IF n.ssid /= "" /\ Better(ns, b, n, k) THEN n ELSE ns[k]
  /\ \A k \in 1 .. Len(t) : k \in 1 .. Len(ns) \/ (t[k] = n /\ n.ssid /= "" /\ ~Listed(ns, n.ssid))

LEMMA FlushedFinishes ==
  ASSUME Once(networks), NEW c \in Entry, NEW t, t = Flushed(c)
  PROVE  Finishes(by, networks, c, t) /\ Len(t) <= Len(networks) + 1
<1>1. Grew(networks, by, c, t)
  BY FlushedFacts
<1>2. Len(networks) \in Nat /\ Len(t) \in Nat
  BY <1>1, ListIsSeq DEF Grew
<1>3. \A k \in 1 .. Len(t) : k \in 1 .. Len(networks) \/ k > Len(networks)
  BY <1>2
<1>4. \A k \in 1 .. Len(t) : k \in 1 .. Len(networks) \/ (t[k] = c /\ c.ssid /= "" /\ ~Listed(networks, c.ssid))
  BY <1>1, <1>3 DEF Grew
<1> QED BY <1>1, <1>4 DEF Grew, Finishes

LEMMA NamesFlush ==
  ASSUME NEW b \in Tools, NEW A \in Seq(Heard), NEW c, NEW r, PlaceOK(b, A, c, r), c <= Len(A),
         NEW c2, NEW r2, Onto(b, A, c, r, c2, r2), NEW ns, NEW n, NamesInv(b, A, c, r, ns, n),
         NEW t, Finishes(b, ns, n, t), NEW n2 \in Entry, n2.ssid = "",
         r = NameRow(b) => A[c].ssid \in Unheard(b)
  PROVE  NamesInv(b, A, c2, r2, t, n2)
<1>1. ASSUME NEW s PROVE Listed(t, s) \/ (s = n2.ssid /\ s /= "") <=> HasName(b, A, c2, r2, s)
  <2>1. HasName(b, A, c2, r2, s) <=> HasName(b, A, c, r, s)
    BY HasNext
  <2>2. Listed(t, s) <=> Listed(ns, s) \/ (s = n.ssid /\ s /= "")
    BY DEF Finishes
  <2>3. Listed(ns, s) \/ (s = n.ssid /\ s /= "") <=> HasName(b, A, c, r, s)
    BY DEF NamesInv
  <2> QED BY <2>1, <2>2, <2>3
<1> QED BY <1>1 DEF NamesInv, Finishes

LEMMA Second ==
  \A x \in Nat, m \in {3, 4} :
    /\ x >= 1 /\ x /= 1 => x >= 2
    /\ x \in 2 .. m => x /= 1
    /\ x + 1 \in 2 .. m /\ x >= 2 => x \in 2 .. m /\ x /= m
    /\ x = m => x \in 2 .. m
OBVIOUS

\* A line that does not end the entry, and what it does to the entry's name.
Adds(b, A, c, r, n, n2) ==
  /\ n2 \in Entry /\ n2.ssid = IF r = NameRow(b) /\ A[c].ssid /= "" THEN A[c].ssid ELSE n.ssid
  /\ r = NameRow(b) => A[c].ssid \notin Unheard(b) \/ A[c].ssid = ""

LEMMA NamesMore ==
  ASSUME NEW b \in Tools, NEW A \in Seq(Heard), NEW c, NEW r, PlaceOK(b, A, c, r), c <= Len(A), r /= 1,
         NEW c2, NEW r2, Onto(b, A, c, r, c2, r2), NEW ns, NEW n, NamesInv(b, A, c, r, ns, n),
         NEW n2, Adds(b, A, c, r, n, n2)
  PROVE  NamesInv(b, A, c2, r2, ns, n2)
<1>0. r \in Nat /\ r >= 2 /\ NameRow(b) \in {3, 4}
  <2>1. r \in Nat /\ r >= 1
    BY DEF PlaceOK
  <2>2. NameRow(b) \in {3, 4}
    BY DEF NameRow
  <2> QED BY <2>1, <2>2, Second
<1>1. ASSUME NEW s PROVE Listed(ns, s) \/ (s = n2.ssid /\ s /= "") <=> HasName(b, A, c2, r2, s)
  <2>1. HasName(b, A, c2, r2, s) <=> HasName(b, A, c, r, s) \/ (r = NameRow(b) /\ s = A[c].ssid /\ s \notin Unheard(b))
    BY HasNext
  <2>3. Listed(ns, s) \/ (s = n.ssid /\ s /= "") <=> HasName(b, A, c, r, s)
    BY DEF NamesInv
  <2>4. "" \in Unheard(b)
    BY DEF Unheard
  <2>5. r = NameRow(b) => n.ssid = ""
    <3>1. r = NameRow(b) => r \in 2 .. NameRow(b)
      BY <1>0, Second
    <3> QED BY <3>1 DEF NamesInv
  <2> QED BY <2>1, <2>3, <2>4, <2>5 DEF Adds
<1>2. r2 \in 2 .. NameRow(b) => n2.ssid = ""
  <2> HAVE r2 \in 2 .. NameRow(b)
  <2>1. r2 /= 1
    BY <1>0
  <2>2. r2 = r + 1
    BY <2>1 DEF Onto
  <2>3. r \in 2 .. NameRow(b) /\ r /= NameRow(b)
    BY <1>0, <2>2, Second
  <2>4. n.ssid = ""
    BY <2>3 DEF NamesInv
  <2> QED BY <2>3, <2>4 DEF Adds
<1> QED BY <1>1, <1>2 DEF NamesInv, Adds
-----------------------------------------------------------------------------
(* iwlist: the strongest of a name, and its security.  A cell has ended when *)
(* the entry that was made of it has been put into the list.                 *)
Ended(c, r, i) == i < c /\ (r = 1 => i + 1 < c)
Describes(n, a) ==
  \/ n.ssid = "" /\ a.ssid \in Unheard("iwlist")
  \/ n.ssid = a.ssid /\ a.ssid \notin Unheard("iwlist") /\ (InName[a.ssid] = {} => Shown(n, a))
Covers(A, c, r, ns) == \A i \in 1 .. Len(A) : Ended(c, r, i) /\ A[i].ssid \notin Unheard("iwlist") => Listed(ns, A[i].ssid)
Strongest(A, c, r, n) ==
  InName[n.ssid] = {} =>
    /\ \E i \in 1 .. Len(A) : Shown(n, A[i])
    /\ \A i \in 1 .. Len(A) : Ended(c, r, i) /\ A[i].ssid = n.ssid => A[i].pct <= n.pct
Best(A, c, r, ns) == Covers(A, c, r, ns) /\ \A k \in 1 .. Len(ns) : Strongest(A, c, r, ns[k])
Held(A, c, r, n) ==
  /\ r = 2 => n.sec = "Open"
  /\ r = 3 => n.sec = "Open" /\ n.pct = A[c].pct
  /\ r = 4 => n.pct = A[c].pct /\ (n.sec = "Open" <=> A[c].key = "off")
  /\ r > 4 => Describes(n, A[c])
  /\ r = 1 /\ c > 1 => Describes(n, A[c - 1])

LEMMA EndedSame ==
  ASSUME NEW A \in Seq(Heard), NEW c, NEW r, PlaceOK("iwlist", A, c, r), c <= Len(A), r /= 1,
         NEW c2, NEW r2, Onto("iwlist", A, c, r, c2, r2), NEW i \in 1 .. Len(A)
  PROVE  Ended(c2, r2, i) <=> Ended(c, r, i)
<1>1. c \in Nat /\ r \in Nat
  BY DEF PlaceOK
<1>2. i \in Nat
  OBVIOUS
<1>3. PICK z : z = Size("iwlist", A[c])
  OBVIOUS
<1>4. CASE r < z
  <2>1. r2 = r + 1 /\ c2 = c
    BY <1>3, <1>4 DEF Onto
  <2>2. r + 1 /= 1
    BY <1>1, PlaceOK("iwlist", A, c, r) DEF PlaceOK
  <2> QED BY <2>1, <2>2 DEF Ended
<1>5. CASE ~(r < z)
  <2>1. r2 = 1 /\ c2 = c + 1
    BY <1>3, <1>5 DEF Onto
  <2> QED BY <1>1, <1>2, <2>1 DEF Ended
<1> QED BY <1>4, <1>5

LEMMA BestSame ==
  ASSUME NEW A \in Seq(Heard), NEW c, NEW r, NEW c2, NEW r2, NEW ns, Best(A, c, r, ns),
         \A i \in 1 .. Len(A) : Ended(c2, r2, i) <=> Ended(c, r, i)
  PROVE  Best(A, c2, r2, ns)
<1>1. Covers(A, c2, r2, ns)
  BY DEF Best, Covers
<1>2. ASSUME NEW k \in 1 .. Len(ns) PROVE Strongest(A, c2, r2, ns[k])
  <2>1. Strongest(A, c, r, ns[k])
    BY DEF Best
  <2> QED BY <2>1 DEF Strongest
<1> QED BY <1>1, <1>2 DEF Best

LEMMA NotUnheard == \A s : InName[s] = {} /\ s /= "" => s \notin Unheard("iwlist")
BY DEF Unheard

LEMMA Stronger == \A x, y, z \in Nat : (x <= y /\ z > y => x <= z) /\ (~(x > y) => x <= y)
OBVIOUS

OfBefore(A, c, n) == IF c > 1 THEN Describes(n, A[c - 1]) ELSE n.ssid = ""

\* The entry of the cell before is put into the list.
LEMMA BestFlush ==
  ASSUME NEW A \in Seq(Heard), NEW c \in Nat, c >= 1, c <= Len(A), NEW ns, Once(ns), Best(A, c, 1, ns),
         NEW n \in Entry, OfBefore(A, c, n),
         NEW t, Finishes("iwlist", ns, n, t)
  PROVE  Best(A, c, 2, t)
<1>0. Len(A) \in Nat /\ \A i \in 1 .. Len(A) : A[i] \in Heard /\ A[i].pct \in Nat
  <2>1. Len(A) \in Nat /\ \A i \in 1 .. Len(A) : A[i] \in Heard
    OBVIOUS
  <2> QED BY <2>1 DEF Heard
<1>1. \A i \in 1 .. Len(A) : Ended(c, 2, i) => Ended(c, 1, i) \/ (i = c - 1 /\ c > 1)
  BY DEF Ended
<1>2. /\ Once(t)
      /\ \A s : Listed(t, s) <=> Listed(ns, s) \/ (s = n.ssid /\ s /= "")
      /\ \A k \in 1 .. Len(ns) : t[k] = IF n.ssid /= "" /\ Better(ns, "iwlist", n, k) THEN n ELSE ns[k]
      /\ \A k \in 1 .. Len(t) : k \in 1 .. Len(ns) \/ (t[k] = n /\ n.ssid /= "" /\ ~Listed(ns, n.ssid))
  BY DEF Finishes
<1>3. \A k \in 1 .. Len(t) : t[k].ssid /= "" /\ t[k].pct \in Nat
  <2>1. \A k \in 1 .. Len(t) : t[k] \in Entry
    BY <1>2, ListIsSeq
  <2> QED BY <1>2, <2>1 DEF Once, Listed, Entry
<1>4. Covers(A, c, 2, t)
  <2> SUFFICES ASSUME NEW i \in 1 .. Len(A), Ended(c, 2, i), A[i].ssid \notin Unheard("iwlist")
               PROVE  Listed(t, A[i].ssid)
    BY DEF Covers
  <2>1. CASE Ended(c, 1, i)
    <3>1. Listed(ns, A[i].ssid)
      BY <2>1 DEF Best, Covers
    <3> QED BY <1>2, <3>1
  <2>2. CASE i = c - 1 /\ c > 1
    <3>1. Describes(n, A[i])
      BY <2>2 DEF OfBefore
    <3>2. n.ssid = A[i].ssid /\ n.ssid /= ""
      BY <3>1 DEF Describes, Unheard
    <3> QED BY <1>2, <3>2
  <2> QED BY <1>1, <2>1, <2>2
<1>5. ASSUME NEW k \in 1 .. Len(t) PROVE Strongest(A, c, 2, t[k])
  <2> SUFFICES ASSUME InName[t[k].ssid] = {}
               PROVE  /\ \E i \in 1 .. Len(A) : Shown(t[k], A[i])
                      /\ \A i \in 1 .. Len(A) : Ended(c, 2, i) /\ A[i].ssid = t[k].ssid => A[i].pct <= t[k].pct
    BY DEF Strongest
  <2>1. t[k].ssid \notin Unheard("iwlist") /\ t[k].ssid /= "" /\ t[k].pct \in Nat
    BY <1>3, NotUnheard
  <2>2. CASE t[k] = n /\ n.ssid /= "" /\ (~Listed(ns, n.ssid) \/ \E j \in 1 .. Len(ns) : j = k /\ Better(ns, "iwlist", n, k))
    <3>1. c > 1
      BY <2>2 DEF OfBefore
    <3>2. c - 1 \in 1 .. Len(A) /\ Describes(n, A[c - 1])
      BY <1>0, <3>1 DEF OfBefore
    <3>3. n.ssid = A[c - 1].ssid /\ Shown(n, A[c - 1])
      BY <2>1, <2>2, <3>2 DEF Describes
    <3>4. ASSUME NEW i \in 1 .. Len(A), Ended(c, 2, i), A[i].ssid = n.ssid PROVE A[i].pct <= n.pct
      <4>1. CASE i = c - 1
        <5>1. A[i].pct = n.pct
          BY <3>3, <4>1 DEF Shown
        <5> QED BY <1>0, <5>1
      <4>2. CASE Ended(c, 1, i)
        <5>1. Listed(ns, n.ssid)
          BY <2>1, <2>2, <3>4, <4>2 DEF Best, Covers
        <5>2. k \in 1 .. Len(ns) /\ Better(ns, "iwlist", n, k)
          BY <2>2, <5>1
        <5>3. ns[k].ssid = n.ssid /\ n.pct > ns[k].pct /\ ns[k].pct \in Nat
          <6>1. ns[k] \in Entry
            BY <5>2, ListIsSeq
          <6> QED BY <5>2, <6>1 DEF Better, Entry
        <5>4. Strongest(A, c, 1, ns[k])
          BY <5>2 DEF Best
        <5>5. A[i].pct <= ns[k].pct
          BY <2>2, <3>4, <4>2, <5>3, <5>4 DEF Strongest
        <5>6. A[i].pct \in Nat /\ n.pct \in Nat
          BY <1>0, <2>1, <2>2
        <5> QED BY <5>3, <5>5, <5>6, Stronger
      <4> QED BY <1>1, <3>4, <4>1, <4>2
    <3> QED BY <2>2, <3>2, <3>3, <3>4
  <2>3. CASE k \in 1 .. Len(ns) /\ t[k] = ns[k] /\ (n.ssid /= "" => ~Better(ns, "iwlist", n, k))
    <3>1. Strongest(A, c, 1, ns[k])
      BY <2>3 DEF Best
    <3>2. \E i \in 1 .. Len(A) : Shown(t[k], A[i])
      BY <2>3, <3>1 DEF Strongest
    <3>3. ASSUME NEW i \in 1 .. Len(A), Ended(c, 2, i), A[i].ssid = t[k].ssid PROVE A[i].pct <= t[k].pct
      <4>1. CASE Ended(c, 1, i)
        BY <2>3, <3>1, <3>3, <4>1 DEF Strongest
      <4>2. CASE i = c - 1 /\ c > 1
        <5>1. Describes(n, A[i])
          BY <4>2 DEF OfBefore
        <5>2. n.ssid = A[i].ssid /\ Shown(n, A[i]) /\ n.ssid /= ""
          BY <2>1, <3>3, <5>1 DEF Describes
        <5>3. n.pct = A[i].pct /\ n.pct \in Nat
          BY <5>2 DEF Shown, Entry
        <5>4. ~(n.pct > ns[k].pct)
          BY <2>3, <3>3, <5>2 DEF Better
        <5>5. t[k].pct = ns[k].pct /\ ns[k].pct \in Nat
          BY <2>1, <2>3
        <5> QED BY <5>3, <5>4, <5>5, Stronger
      <4> QED BY <1>1, <3>3, <4>1, <4>2
    <3> QED BY <3>2, <3>3
  <2> QED BY <1>2, <2>2, <2>3
<1> QED BY <1>4, <1>5 DEF Best
\* The entry of the cell that is being read.
Plain(a) == a.key = "off" => \A j \in 1 .. Len(a.ies) : a.ies[j] = "BSS"
Tells(a, r, n, n2) ==
  /\ n2.pct = IF r = 2 THEN a.pct ELSE n.pct
  /\ r = 2 => n2.sec = n.sec
  /\ r = 3 => n2.sec = IF a.key = "off" THEN "Open" ELSE IF n.sec = "Open" THEN "WEP" ELSE n.sec
  /\ r = 4 /\ InName[a.ssid] = {} => n2.sec = n.sec
  /\ r > 4 => IF a.ies[r - 4] = "BSS" THEN n2.sec = n.sec ELSE n2.sec /= "Open"

\* Where the cell goes on, and where it ends, after its fourth line.
HeldAfter(A, c, n) == Describes(n, A[c])

LEMMA HeldLate ==
  ASSUME NEW A \in Seq(Heard), NEW c \in Nat, NEW r \in Nat, c >= 1, r >= 4,
         NEW c2, NEW r2, Onto("iwlist", A, c, r, c2, r2), NEW n, HeldAfter(A, c, n)
  PROVE  Held(A, c2, r2, n)
<1>1. PICK z : z = Size("iwlist", A[c])
  OBVIOUS
<1>2. Describes(n, A[c])
  BY DEF HeldAfter
<1>3. CASE r < z
  <2>1. r2 = r + 1 /\ c2 = c
    BY <1>1, <1>3 DEF Onto
  <2>2. ~(r + 1 = 1) /\ ~(r + 1 = 2) /\ ~(r + 1 = 3) /\ ~(r + 1 = 4)
    OBVIOUS
  <2> QED BY <1>2, <2>1, <2>2 DEF Held
<1>4. CASE ~(r < z)
  <2>1. r2 = 1 /\ c2 = c + 1
    BY <1>1, <1>4 DEF Onto
  <2>2. c + 1 - 1 = c
    OBVIOUS
  <2> QED BY <1>2, <2>1, <2>2 DEF Held
<1> QED BY <1>3, <1>4

Blank(n) == n.ssid = "" /\ n.sec = "Open"
EndsAt(A, c, r) == r = 1 \/ (r = 4 /\ A[c].ssid \in Unheard("iwlist"))

LEMMA HeldFlush ==
  ASSUME NEW A \in Seq(Heard), NEW c \in Nat, NEW r \in Nat, PlaceOK("iwlist", A, c, r), c <= Len(A),
         NEW c2, NEW r2, Onto("iwlist", A, c, r, c2, r2), NEW n, Blank(n), EndsAt(A, c, r)
  PROVE  Held(A, c2, r2, n)
<1>1. c \in Nat /\ c >= 1 /\ r \in Nat
  BY DEF PlaceOK
<1>2. CASE r = 1
  <2>1. PICK z : z = Size("iwlist", A[c])
    OBVIOUS
  <2>2. z \in Nat /\ z >= 4
    <3>1. NameRow("iwlist") = 4
      BY DEF NameRow
    <3>2. z \in Nat /\ z >= NameRow("iwlist")
      BY <1>1, <2>1, Sizes DEF Tools
    <3> QED BY <3>1, <3>2
  <2>3. 1 < z
    BY <2>2
  <2>4. r2 = 2 /\ c2 = c
    BY <1>2, <2>1, <2>3 DEF Onto
  <2>5. n.sec = "Open"
    BY DEF Blank
  <2>6. Held(A, c, 2, n)
    BY <2>5 DEF Held
  <2> QED BY <2>4, <2>6
<1>3. CASE r = 4 /\ A[c].ssid \in Unheard("iwlist")
  <2>1. HeldAfter(A, c, n)
    BY <1>3 DEF HeldAfter, Describes, Blank
  <2>2. r >= 4
    BY <1>3
  <2> QED BY <1>1, <2>1, <2>2, HeldLate
<1> QED BY <1>2, <1>3 DEF EndsAt

Inside(A, c, r, n) == r /= 1 /\ Plain(A[c]) /\ (r = 4 => n.ssid = "")

LEMMA HeldMore ==
  ASSUME NEW A \in Seq(Heard), NEW c \in Nat, NEW r \in Nat, PlaceOK("iwlist", A, c, r), c <= Len(A),
         NEW c2, NEW r2, Onto("iwlist", A, c, r, c2, r2), NEW n, Held(A, c, r, n),
         Inside(A, c, r, n),
         NEW n2, Adds("iwlist", A, c, r, n, n2), Tells(A[c], r, n, n2)
  PROVE  Held(A, c2, r2, n2)
<1>0. NameRow("iwlist") = 4
  BY DEF NameRow
<1>1. c \in Nat /\ c >= 1 /\ r \in Nat /\ r >= 1 /\ r <= Size("iwlist", A[c])
  BY DEF PlaceOK
<1>2. PICK z : z = Size("iwlist", A[c])
  OBVIOUS
<1>3. z \in Nat /\ z >= 4
  BY <1>0, <1>1, <1>2, Sizes DEF Tools
<1>4. r /= 1
  BY DEF Inside
<1>10. r = 2 \/ r = 3 \/ r = 4 \/ r > 4
  BY <1>1, <1>4
<1>5. ASSUME r = 2 \/ r = 3 PROVE r < z /\ r2 = r + 1 /\ c2 = c
  <2>1. r < z
    BY <1>3, <1>5
  <2> QED BY <1>2, <2>1 DEF Onto
<1>6. CASE r = 2
  <2>1. r2 = 3 /\ c2 = c
    BY <1>5, <1>6
  <2>2. n2.sec = "Open" /\ n2.pct = A[c].pct
    BY <1>6 DEF Held, Tells
  <2> QED BY <2>1, <2>2 DEF Held
<1>7. CASE r = 3
  <2>1. r2 = 4 /\ c2 = c
    BY <1>5, <1>7
  <2>2. n.sec = "Open" /\ n.pct = A[c].pct
    BY <1>7 DEF Held
  <2>3. n2.pct = n.pct /\ n2.sec = IF A[c].key = "off" THEN "Open" ELSE "WEP"
    BY <1>7, <2>2 DEF Tells
  <2> QED BY <2>1, <2>2, <2>3 DEF Held
<1>8. CASE r = 4
  <2>1. n.pct = A[c].pct /\ (n.sec = "Open" <=> A[c].key = "off")
    BY <1>8 DEF Held
  <2>2. n2.pct = n.pct /\ (InName[A[c].ssid] = {} => n2.sec = n.sec)
    BY <1>8 DEF Tells
  <2>3. Describes(n2, A[c])
    <3>1. CASE A[c].ssid = ""
      <4>1. n2.ssid = "" /\ A[c].ssid \in Unheard("iwlist")
        BY <1>0, <1>8, <3>1 DEF Adds, Unheard, Inside
      <4> QED BY <4>1 DEF Describes
    <3>2. CASE A[c].ssid /= ""
      <4>1. n2.ssid = A[c].ssid /\ A[c].ssid \notin Unheard("iwlist")
        BY <1>0, <1>8, <3>2 DEF Adds
      <4>2. InName[A[c].ssid] = {} => Shown(n2, A[c])
        BY <2>1, <2>2, <4>1 DEF Shown
      <4> QED BY <4>1, <4>2 DEF Describes
    <3> QED BY <3>1, <3>2
  <2>4. HeldAfter(A, c, n2) /\ r >= 4
    BY <1>8, <2>3 DEF HeldAfter
  <2> QED BY <1>1, <2>4, HeldLate
<1>9. CASE r > 4
  <2>1. Describes(n, A[c])
    BY <1>9 DEF Held
  <2>2. n2.ssid = n.ssid
    <3>1. r /= NameRow("iwlist")
      BY <1>0, <1>1, <1>9
    <3> QED BY <3>1 DEF Adds
  <2>3. n2.pct = n.pct
    <3>1. r /= 2
      BY <1>1, <1>9
    <3> QED BY <3>1 DEF Tells
  <2>4. (n.sec = "Open" <=> A[c].key = "off") => (n2.sec = "Open" <=> A[c].key = "off")
    <3>1. PICK j : j = r - 4
      OBVIOUS
    <3>2. IF A[c].ies[j] = "BSS" THEN n2.sec = n.sec ELSE n2.sec /= "Open"
      BY <1>9, <3>1 DEF Tells
    <3>3. j \in 1 .. Len(A[c].ies)
      <4>1. A[c] \in Heard
        BY <1>1
      <4>2. Len(A[c].ies) \in Nat
        BY <4>1 DEF Heard
      <4>3. r <= 4 + Len(A[c].ies)
        BY <1>0, <1>1 DEF Size
      <4> QED BY <1>1, <1>9, <3>1, <4>2, <4>3
    <3> QED BY <3>2, <3>3 DEF Plain, Inside
  <2>5. Describes(n2, A[c])
    BY <2>1, <2>2, <2>3, <2>4 DEF Describes, Shown
  <2>6. HeldAfter(A, c, n2) /\ r >= 4
    BY <1>1, <1>9, <2>5 DEF HeldAfter
  <2> QED BY <1>1, <2>6, HeldLate
<1> QED BY <1>10, <1>6, <1>7, <1>8, <1>9
-----------------------------------------------------------------------------
(* The scan as a whole, and the list that the user chooses from.             *)
Airy(A) == A \in Seq(Heard) /\ \A i \in 1 .. Len(A) : Plain(A[i])
OfIwlist(A, c, r, ns, n) == Best(A, c, r, ns) /\ Held(A, c, r, n)
ScanOf(b, A, c, r, ns, n) ==
  /\ b \in Tools /\ Airy(A) /\ PlaceOK(b, A, c, r) /\ NamesInv(b, A, c, r, ns, n) /\ Len(ns) <= MAX
  /\ b = "iwlist" => OfIwlist(A, c, r, ns, n)
ScanInv == pc = "scan" => ScanOf(by, air, cell, row, networks, cur)
NamesRight(b, A, L) == \A s : Listed(L, s) <=> s \notin Unheard(b) /\ \E i \in 1 .. Len(A) : A[i].ssid = s
ListOf(b, A, L) ==
  /\ b \in Tools /\ A \in Seq(Heard) /\ L \in Seq(Entry)
  /\ Len(L) < MAX => NamesRight(b, A, L)
  /\ \A i, j \in 1 .. Len(L) : L[i].ssid = L[j].ssid /\ i < j => b = "iw" /\ j = Len(L)
  /\ b = "iwlist" /\ Len(L) < MAX => \A k \in 1 .. Len(L) : Strongest(A, Len(A) + 1, 1, L[k])
ListInv == ScanInv /\ (pc = "choose" => ListOf(by, air, networks))

LEMMA AirIsAiry == ASSUME NEW A \in Airs PROVE Airy(A)
<1>1. A \in Seq(Heard) /\ \A i \in DOMAIN A : A[i].key = "off" => \A j \in DOMAIN A[i].ies : A[i].ies[j] = "BSS"
  BY WifiAssumption
<1>2. DOMAIN A = 1 .. Len(A)
  BY <1>1
<1>3. ASSUME NEW i \in 1 .. Len(A) PROVE Plain(A[i])
  <2>1. A[i] \in Heard
    BY <1>1
  <2>2. DOMAIN A[i].ies = 1 .. Len(A[i].ies)
    BY <2>1 DEF Heard
  <2> QED BY <1>1, <1>2, <2>2 DEF Plain
<1> QED BY <1>1, <1>3 DEF Airy

LEMMA FreshFacts == ASSUME NEW b \in Tools PROVE Fresh(b) \in Entry /\ Blank(Fresh(b))
<1>1. PICK q : q = IF b = "iwlist" THEN 50 ELSE 60
  OBVIOUS
<1>2. q \in Nat
  BY <1>1
<1>3. Fresh(b) = [ssid |-> "", pct |-> q, sec |-> "Open"]
  BY <1>1 DEF Fresh
<1>4. "" \in DOMAIN InName \cup {""} /\ "Open" \in Secs
  BY DEF Secs
<1>5. [ssid |-> "", pct |-> q, sec |-> "Open"] \in [ssid : DOMAIN InName \cup {""}, pct : Nat, sec : Secs]
  BY <1>2, <1>4, MakeEntry, Zenon
<1>6. Fresh(b) \in Entry
  BY <1>3, <1>5, Zenon DEF Entry
<1>7. [ssid |-> "", pct |-> q, sec |-> "Open"].ssid = "" /\ [ssid |-> "", pct |-> q, sec |-> "Open"].sec = "Open"
  OBVIOUS
<1> QED BY <1>3, <1>6, <1>7 DEF Blank

LEMMA ScanBegins ==
  ASSUME NEW b \in Tools, NEW A \in Airs
  PROVE  ScanOf(b, A, 1, 1, <<>>, Fresh(b))
<1>1. Airy(A) /\ A \in Seq(Heard) /\ Len(A) \in Nat
  <2>1. Airy(A)
    BY AirIsAiry
  <2>2. A \in Seq(Heard)
    BY <2>1 DEF Airy
  <2> QED BY <2>1, <2>2
<1>2. PlaceOK(b, A, 1, 1)
  <2>1. 1 <= Len(A) => 1 <= Size(b, A[1])
    <3> HAVE 1 <= Len(A)
    <3>1. NameRow(b) \in {3, 4} /\ Size(b, A[1]) \in Nat /\ Size(b, A[1]) >= NameRow(b)
      BY <1>1, Sizes
    <3> QED BY <3>1
  <2> QED BY <1>1, <2>1 DEF PlaceOK
<1>3. Once(<<>>) /\ ~\E s : Listed(<<>>, s)
  <2>1. <<>> \in Seq(Entry) /\ Len(<<>>) = 0
    OBVIOUS
  <2> QED BY <2>1 DEF Once, Listed
<1>4. \A s : ~HasName(b, A, 1, 1, s)
  <2>1. \A i \in 1 .. Len(A) : ~Spoke(b, A, 1, 1, i)
    BY DEF Spoke, NameRow
  <2> QED BY <2>1 DEF HasName
<1>5. Fresh(b) \in Entry /\ Fresh(b).ssid = ""
  BY FreshFacts DEF Blank
<1>6. NamesInv(b, A, 1, 1, <<>>, Fresh(b))
  BY <1>3, <1>4, <1>5 DEF NamesInv
<1>7. OfIwlist(A, 1, 1, <<>>, Fresh(b))
  <2>1. Len(<<>>) = 0
    OBVIOUS
  <2>2. \A i \in 1 .. Len(A) : ~Ended(1, 1, i)
    BY DEF Ended
  <2>3. Best(A, 1, 1, <<>>)
    BY <2>1, <2>2 DEF Best, Covers
  <2>4. Held(A, 1, 1, Fresh(b))
    BY DEF Held
  <2> QED BY <2>3, <2>4 DEF OfIwlist
<1>8. Len(<<>>) <= MAX
  BY WifiAssumption
<1> QED BY <1>1, <1>2, <1>6, <1>7, <1>8 DEF ScanOf

LEMMA ReadLineStep ==
  ASSUME ScanOf(by, air, cell, row, networks, cur), ReadLine
  PROVE  ScanOf(by, air, cell', row', networks', cur')
<1> DEFINE b == by  A == air  c == cell  r == row  ns == networks  n == cur
<1>1. b \in Tools /\ A \in Seq(Heard) /\ PlaceOK(b, A, c, r) /\ NamesInv(b, A, c, r, ns, n)
  BY DEF ScanOf, Airy
<1>2. c <= Len(A) /\ Len(ns) < MAX /\ c \in Nat /\ c >= 1 /\ r \in Nat /\ r >= 1 /\ r <= Size(b, A[c]) /\ Len(A) \in Nat
  BY <1>1 DEF ReadLine, TextEnds, PlaceOK
<1>3. A[c] \in Heard /\ Plain(A[c])
  BY <1>2 DEF ScanOf, Airy
<1>4. Len(Text(c)) = Size(b, A[c]) /\ Text(c)[r] = Row(b, A[c], r) /\ r \in 1 .. NameRow(b) + Len(A[c].ies)
  <2>1. /\ Len(CellLines(b, A[c])) = NameRow(b) + Len(A[c].ies)
        /\ \A k \in 1 .. NameRow(b) + Len(A[c].ies) : CellLines(b, A[c])[k] = Row(b, A[c], k)
    BY <1>1, <1>3, Rows
  <2>2. r \in 1 .. NameRow(b) + Len(A[c].ies)
    BY <1>1, <1>2, Sizes DEF Size
  <2> QED BY <2>1, <2>2 DEF Text, Size
<1>5. Onto(b, A, c, r, cell', row')
  BY <1>4 DEF ReadLine, Onto
<1>6. PlaceOK(b, A, cell', row')
  BY <1>1, <1>2, <1>5, PlaceStep
<1>7. PICK l : l = Text(c)[r]
  OBVIOUS
<1>8. Once(ns) /\ n \in Entry
  BY <1>1 DEF NamesInv
<1>9. b = "iwlist" => Best(A, c, r, ns) /\ Held(A, c, r, n)
  BY DEF ScanOf, OfIwlist
<1>10. CASE Starts(l)
  <2>1. networks' = Flushed(n) /\ cur' = Fresh(b)
    BY <1>7, <1>10 DEF ReadLine
  <2>2. PICK t : t = networks'
    OBVIOUS
  <2>3. Finishes(b, ns, n, t) /\ Len(t) <= Len(ns) + 1
    BY <1>8, <2>1, <2>2, FlushedFinishes
  <2>4. PICK m : m = cur'
    OBVIOUS
  <2>5. m \in Entry /\ Blank(m)
    BY <1>1, <2>1, <2>4, FreshFacts
  <2>6. /\ r = 1 \/ (r = NameRow(b) /\ A[c].ssid \in Unheard(b)) \/ r > NameRow(b)
        /\ b = "iwlist" => r \in {1, 4}
    BY <1>1, <1>3, <1>4, <1>7, <1>10, StartsFacts
  <2>7. r = NameRow(b) => A[c].ssid \in Unheard(b)
    BY <2>6 DEF NameRow
  <2>8. NamesInv(b, A, cell', row', t, m)
    BY <1>1, <1>2, <1>5, <2>3, <2>5, <2>7, NamesFlush DEF Blank
  <2>9. ASSUME b = "iwlist" PROVE OfIwlist(A, cell', row', t, m)
    <3>1. EndsAt(A, c, r)
      BY <2>6, <2>7, <2>9 DEF EndsAt, NameRow
    <3>2. Held(A, cell', row', m)
      BY <1>1, <1>2, <1>5, <2>5, <2>9, <3>1, HeldFlush
    <3>3. CASE r = 1
      <4>1. cell' = c /\ row' = 2
        <5>1. NameRow(b) \in {3, 4} /\ Size(b, A[c]) \in Nat /\ Size(b, A[c]) >= NameRow(b)
          BY <1>1, <1>2, Sizes
        <5>2. 1 < Size(b, A[c])
          BY <5>1
        <5> QED BY <1>5, <3>3, <5>2 DEF Onto
      <4>2. OfBefore(A, c, n)
        <5>1. c > 1 => Describes(n, A[c - 1])
          BY <1>9, <2>9, <3>3 DEF Held
        <5>2. c = 1 => n.ssid = ""
          <6> HAVE c = 1
          <6>1. ~HasName(b, A, c, r, n.ssid)
            <7>1. \A i \in 1 .. Len(A) : ~Spoke(b, A, c, r, i)
              BY <2>9, <3>3 DEF Spoke, NameRow
            <7> QED BY <7>1 DEF HasName
          <6> QED BY <1>1, <6>1 DEF NamesInv
        <5>3. c > 1 \/ (c = 1 /\ ~(c > 1))
          BY <1>2
        <5> QED BY <5>1, <5>2, <5>3 DEF OfBefore
      <4>3. Best(A, c, 1, ns)
        BY <1>9, <2>9, <3>3
      <4>4. Best(A, c, 2, t)
        BY <1>1, <1>2, <1>8, <2>3, <2>9, <4>2, <4>3, BestFlush
      <4> QED BY <3>2, <4>1, <4>4 DEF OfIwlist
    <3>4. CASE r = 4
      <4>1. n.ssid = ""
        <5>1. r \in 2 .. NameRow(b)
          BY <2>9, <3>4 DEF NameRow
        <5> QED BY <1>1, <5>1 DEF NamesInv
      <4>2. t = ns
        BY <1>8, <2>1, <2>2, <4>1, FlushedIs
      <4>3. \A i \in 1 .. Len(A) : Ended(cell', row', i) <=> Ended(c, r, i)
        <5>1. r /= 1
          BY <3>4
        <5> QED BY <1>1, <1>2, <1>5, <2>9, <5>1, EndedSame
      <4>4. Best(A, cell', row', ns)
        BY <1>1, <1>9, <2>9, <4>3, BestSame
      <4> QED BY <3>2, <4>2, <4>4 DEF OfIwlist
    <3> QED BY <2>6, <2>9, <3>3, <3>4
  <2>10. Len(t) <= MAX
    <3>1. Len(t) \in Nat /\ Len(ns) \in Nat
      BY <1>8, <2>3, ListIsSeq DEF Finishes
    <3> QED BY <1>2, <2>3, <3>1, WifiAssumption
  <2> QED BY <1>1, <1>6, <2>2, <2>4, <2>8, <2>9, <2>10 DEF ScanOf
<1>11. CASE ~Starts(l)
  <2>1. networks' = ns /\ cur' = Described(n, l)
    BY <1>7, <1>11 DEF ReadLine
  <2>2. PICK m : m = cur'
    OBVIOUS
  <2>3. Becomes(b, A[c], r, n, m)
    <3>1. m = Described(n, Row(by, A[c], r))
      BY <1>4, <1>7, <2>1, <2>2
    <3> QED BY <1>1, <1>3, <1>4, <1>8, <3>1, DescribedFacts
  <2>4. r /= 1 /\ (r = NameRow(b) => A[c].ssid \notin Unheard(b) \/ A[c].ssid = "")
    BY <1>1, <1>3, <1>4, <1>7, <1>11, StartsFacts
  <2>5. Adds(b, A, c, r, n, m)
    BY <2>3, <2>4 DEF Adds, Becomes
  <2>6. NamesInv(b, A, cell', row', ns, m)
    BY <1>1, <1>2, <1>5, <2>4, <2>5, NamesMore
  <2>7. ASSUME b = "iwlist" PROVE OfIwlist(A, cell', row', ns, m)
    <3>1. Tells(A[c], r, n, m)
      BY <2>3, <2>7 DEF Tells, Becomes
    <3>2. Inside(A, c, r, n)
      <4>1. r = 4 => n.ssid = ""
        <5>1. r = 4 => r \in 2 .. NameRow(b)
          BY <2>7 DEF NameRow
        <5> QED BY <1>1, <5>1 DEF NamesInv
      <4> QED BY <1>3, <2>4, <4>1 DEF Inside
    <3>3. Held(A, cell', row', m)
      BY <1>1, <1>2, <1>5, <1>9, <2>5, <2>7, <3>1, <3>2, HeldMore
    <3>4. \A i \in 1 .. Len(A) : Ended(cell', row', i) <=> Ended(c, r, i)
      BY <1>1, <1>2, <1>5, <2>4, <2>7, EndedSame
    <3>5. Best(A, cell', row', ns)
      BY <1>1, <1>9, <2>7, <3>4, BestSame
    <3> QED BY <3>3, <3>5 DEF OfIwlist
  <2> QED BY <1>1, <1>6, <2>1, <2>2, <2>6, <2>7 DEF ScanOf
<1> QED BY <1>10, <1>11
\* The end of the scan: what is left of the last cell.
Closes(b, ns, n, L) ==
  \/ /\ L = ns
     /\ n.ssid = "" \/ Len(ns) = MAX \/ (b = "iwlist" /\ Listed(ns, n.ssid))
  \/ /\ L = Append(ns, n) /\ n.ssid /= "" /\ Len(ns) < MAX
     /\ b = "iwlist" => ~Listed(ns, n.ssid)

LEMMA ClosesIs ==
  ASSUME Once(networks), Len(networks) <= MAX
  PROVE  Closes(by, networks, cur, LastListed)
<1>1. networks \in Seq(Entry) /\ Len(networks) \in Nat
  BY ListIsSeq
<1>2. Same(cur) = {} <=> ~Listed(networks, cur.ssid)
  BY <1>1, SameIsListed
<1>3. Len(networks) >= MAX <=> Len(networks) = MAX
  BY <1>1, WifiAssumption
<1>4. ~(Len(networks) >= MAX) => Len(networks) < MAX
  BY <1>1, WifiAssumption
<1> QED BY <1>2, <1>3, <1>4 DEF LastListed, Closes

LEMMA ListEnds ==
  ASSUME NEW b, NEW A, NEW c, NEW r, NEW ns, NEW n, ScanOf(b, A, c, r, ns, n),
         NEW L, Closes(b, ns, n, L), ~(c <= Len(A)) \/ Len(ns) = MAX
  PROVE  ListOf(b, A, L)
<1>1. b \in Tools /\ A \in Seq(Heard) /\ PlaceOK(b, A, c, r) /\ NamesInv(b, A, c, r, ns, n)
  BY DEF ScanOf, Airy
<1>2. Once(ns) /\ n \in Entry /\ Len(A) \in Nat
  <2>1. Once(ns) /\ n \in Entry
    BY <1>1 DEF NamesInv
  <2>2. Len(A) \in Nat
    BY <1>1
  <2> QED BY <2>1, <2>2
<1>3. ns \in Seq(Entry) /\ Len(ns) \in Nat
  BY <1>2, ListIsSeq
<1>4. L \in Seq(Entry) /\ Len(L) \in Nat /\ (Len(L) = Len(ns) \/ Len(L) = Len(ns) + 1)
  <2>1. Append(ns, n) \in Seq(Entry) /\ Len(Append(ns, n)) = Len(ns) + 1
    BY <1>2, Appended
  <2>2. L = ns \/ L = Append(ns, n)
    BY DEF Closes
  <2>3. Len(ns) + 1 \in Nat
    BY <1>3
  <2> QED BY <1>3, <2>1, <2>2, <2>3
<1>5. ASSUME NEW i \in 1 .. Len(L), NEW j \in 1 .. Len(L), L[i].ssid = L[j].ssid, i < j
      PROVE  b = "iw" /\ j = Len(L)
  <2>1. CASE L = ns
    <3>1. i = j
      BY <1>2, <1>5, <2>1 DEF Once
    <3> QED BY <1>5, <3>1
  <2>2. CASE L = Append(ns, n) /\ (b = "iwlist" => ~Listed(ns, n.ssid))
    <3>1. /\ Len(L) = Len(ns) + 1 /\ L[Len(L)] = n
          /\ \A k \in 1 .. Len(ns) : L[k] = ns[k]
      BY <1>2, <2>2, Appended
    <3>2. i \in 1 .. Len(ns) /\ (j = Len(L) \/ j \in 1 .. Len(ns))
      BY <1>3, <1>5, <3>1
    <3>3. CASE j \in 1 .. Len(ns)
      <4>1. i = j
        BY <1>2, <1>5, <3>1, <3>2, <3>3 DEF Once
      <4> QED BY <1>5, <4>1
    <3>4. CASE j = Len(L)
      <4>1. Listed(ns, n.ssid)
        BY <1>5, <3>1, <3>2, <3>4 DEF Listed
      <4> QED BY <1>1, <2>2, <3>4, <4>1 DEF Tools
    <3> QED BY <3>2, <3>3, <3>4
  <2> QED BY <2>1, <2>2 DEF Closes
<1>6. ASSUME Len(L) < MAX
      PROVE  /\ Len(ns) < MAX /\ c = Len(A) + 1 /\ r = 1
             /\ \A s : Listed(L, s) <=> Listed(ns, s) \/ (s = n.ssid /\ s /= "")
  <2>1. Len(ns) < MAX /\ Len(ns) /= MAX
    BY <1>3, <1>4, <1>6, WifiAssumption
  <2>2. c = Len(A) + 1 /\ r = 1
    BY <1>1, <1>2, <2>1 DEF PlaceOK
  <2>3. CASE L = ns /\ (n.ssid = "" \/ Listed(ns, n.ssid))
    BY <2>1, <2>2, <2>3
  <2>4. CASE L = Append(ns, n) /\ n.ssid /= ""
    <3>1. \A s : Listed(Append(ns, n), s) <=> Listed(ns, s) \/ s = n.ssid
      BY <1>2, Appended
    <3> QED BY <2>1, <2>2, <2>4, <3>1
  <2> QED BY <2>1, <2>3, <2>4 DEF Closes
<1>7. ASSUME Len(L) < MAX PROVE NamesRight(b, A, L)
  <2>1. \A i \in 1 .. Len(A) : Spoke(b, A, Len(A) + 1, 1, i)
    BY <1>2 DEF Spoke
  <2>2. ASSUME NEW s PROVE Listed(L, s) <=> s \notin Unheard(b) /\ \E i \in 1 .. Len(A) : A[i].ssid = s
    <3>1. Listed(L, s) <=> Listed(ns, s) \/ (s = n.ssid /\ s /= "")
      BY <1>6, <1>7
    <3>2. Listed(ns, s) \/ (s = n.ssid /\ s /= "") <=> HasName(b, A, Len(A) + 1, 1, s)
      BY <1>1, <1>6, <1>7 DEF NamesInv
    <3> QED BY <2>1, <3>1, <3>2 DEF HasName
  <2> QED BY <2>2 DEF NamesRight
<1>8. ASSUME b = "iwlist", Len(L) < MAX, NEW k \in 1 .. Len(L) PROVE Strongest(A, Len(A) + 1, 1, L[k])
  <2>1. c = Len(A) + 1 /\ r = 1
    BY <1>6, <1>8
  <2>2. Best(A, c, r, ns) /\ Held(A, c, r, n)
    BY <1>8 DEF ScanOf, OfIwlist
  <2>3. CASE L = ns
    BY <1>8, <2>1, <2>2, <2>3 DEF Best
  <2>4. CASE L = Append(ns, n) /\ n.ssid /= "" /\ ~Listed(ns, n.ssid)
    <3>1. /\ Len(L) = Len(ns) + 1 /\ L[Len(L)] = n
          /\ \A q \in 1 .. Len(ns) : L[q] = ns[q]
      <4>1. /\ Len(Append(ns, n)) = Len(ns) + 1 /\ Append(ns, n)[Len(ns) + 1] = n
            /\ \A q \in 1 .. Len(ns) : Append(ns, n)[q] = ns[q]
        BY <1>2, Appended
      <4> QED BY <2>4, <4>1
    <3>2. k = Len(L) \/ k \in 1 .. Len(ns)
      BY <1>3, <3>1, OneMore
    <3>3. CASE k \in 1 .. Len(ns)
      BY <2>1, <2>2, <3>1, <3>3 DEF Best
    <3>4. CASE k = Len(L)
      <4>1. HasName(b, A, c, r, n.ssid)
        BY <1>1, <2>4 DEF NamesInv
      <4>2. PICK i \in 1 .. Len(A) : Spoke(b, A, c, r, i)
        BY <4>1 DEF HasName
      <4>3. c > 1 /\ c - 1 = Len(A) /\ Len(A) \in 1 .. Len(A)
        BY <1>2, <2>1, <4>2
      <4>4. Describes(n, A[Len(A)])
        BY <2>1, <2>2, <4>3 DEF Held
      <4>5. ASSUME InName[n.ssid] = {} PROVE Shown(n, A[Len(A)])
        BY <2>4, <4>4, <4>5 DEF Describes
      <4>6. ASSUME InName[n.ssid] = {}, NEW j \in 1 .. Len(A), Ended(c, r, j), A[j].ssid = n.ssid PROVE FALSE
        <5>1. n.ssid \notin Unheard("iwlist")
          BY <2>4, <4>6, NotUnheard
        <5>2. Listed(ns, n.ssid)
          BY <2>2, <4>6, <5>1 DEF Best, Covers
        <5> QED BY <2>4, <5>2
      <4>7. Strongest(A, c, r, n)
        BY <4>3, <4>5, <4>6 DEF Strongest
      <4> QED BY <2>1, <3>1, <3>4, <4>7
    <3> QED BY <3>2, <3>3, <3>4
  <2> QED BY <1>8, <2>3, <2>4 DEF Closes
<1> QED BY <1>1, <1>4, <1>5, <1>7, <1>8 DEF ListOf

LEMMA ListMeans == ASSUME ListInv PROVE EachListedOnce /\ StrongestIsShown
<1> SUFFICES ASSUME pc = "choose" PROVE EachListedOnce /\ StrongestIsShown
  BY DEF EachListedOnce, StrongestIsShown
<1>1. ListOf(by, air, networks)
  BY DEF ListInv
<1>2. /\ by \in Tools /\ DOMAIN networks = 1 .. Len(networks) /\ Len(air) \in Nat /\ DOMAIN air = 1 .. Len(air)
  BY <1>1 DEF ListOf
<1>3. ASSUME Len(networks) < MAX PROVE {networks[i].ssid : i \in DOMAIN networks} = Audible
  <2>1. \A s : Listed(networks, s) <=> s \notin Unheard(by) /\ \E i \in 1 .. Len(air) : air[i].ssid = s
    BY <1>1, <1>3 DEF ListOf, NamesRight
  <2>2. \A s : s \in {networks[i].ssid : i \in DOMAIN networks} <=> Listed(networks, s)
    BY <1>2 DEF Listed
  <2>3. Audible = {air[i].ssid : i \in DOMAIN air} \ Unheard(by)
    BY DEF Audible, Unheard
  <2>4. \A s : s \in Audible <=> s \notin Unheard(by) /\ \E i \in 1 .. Len(air) : air[i].ssid = s
    BY <1>2, <2>3
  <2>5. \A s : s \in {networks[i].ssid : i \in DOMAIN networks} <=> s \in Audible
    BY <2>1, <2>2, <2>4, Zenon
  <2> QED BY <2>5
<1>4. EachListedOnce
  <2>1. \A i, j \in 1 .. Len(networks) : networks[i].ssid = networks[j].ssid /\ i < j => by = "iw" /\ j = Len(networks)
    BY <1>1 DEF ListOf
  <2>2. \A i, j \in DOMAIN networks : networks[i].ssid = networks[j].ssid /\ i < j => by = "iw" /\ j = Len(networks)
    <3> TAKE i, j \in DOMAIN networks
    <3>1. i \in 1 .. Len(networks) /\ j \in 1 .. Len(networks)
      BY <1>2, Zenon
    <3> QED BY <2>1, <3>1, Zenon
  <2> QED BY <1>3, <2>2 DEF EachListedOnce
<1>5. ASSUME by = "iwlist", Len(networks) < MAX, NEW k \in 1 .. Len(networks), InName[networks[k].ssid] = {}
      PROVE  /\ \E i \in 1 .. Len(air) : Shown(networks[k], air[i])
             /\ \A i \in 1 .. Len(air) - 1 : air[i].ssid = networks[k].ssid => air[i].pct <= networks[k].pct
  <2>1. Strongest(air, Len(air) + 1, 1, networks[k])
    BY <1>1, <1>5 DEF ListOf
  <2>2. \A i \in 1 .. Len(air) - 1 : i \in 1 .. Len(air) /\ Ended(Len(air) + 1, 1, i)
    BY <1>2 DEF Ended
  <2> QED BY <1>5, <2>1, <2>2 DEF Strongest
<1>6. StrongestIsShown
  BY <1>2, <1>5 DEF StrongestIsShown
<1> QED BY <1>4, <1>6

LEMMA ListInit == ASSUME Init PROVE ListInv
BY DEF Init, ListInv, ScanInv

\* The steps that neither scan nor show a list.
LEMMA OtherSteps ==
  ASSUME [Next]_vars, ~Scan, ~ReadLine, ~ScanEnds
  PROVE  pc' \notin {"scan", "choose"} \/ UNCHANGED <<pc, by, air, cell, row, networks, cur>>
<1>1. ASSUME UNCHANGED vars PROVE UNCHANGED <<pc, by, air, cell, row, networks, cur>>
  BY <1>1 DEF vars, scanvars
<1>2. ASSUME Menu PROVE pc' \in {"menu", "off"}
  BY <1>2 DEF Menu, Start, Again, Quit
<1>3. ASSUME Connect \/ configure_wired \/ disconnect_wifi PROVE pc' \in {"conf", "lease", "down", "off"}
  BY <1>3, ConnectFacts DEF configure_wired, disconnect_wifi
<1>4. ASSUME WriteConf \/ Kill \/ Up \/ Launch \/ Lease \/ Static \/ Save \/ Down
      PROVE  pc' \in {"kill", "up", "launch", "lease", "static", "save", "menu", "off"}
  BY <1>4 DEF WriteConf, Kill, Up, Launch, Lease, Static, Save, Down
<1>5. ASSUME Plug \/ Renew PROVE UNCHANGED <<pc, by, air, cell, row, networks, cur>>
  BY <1>5 DEF Plug, Renew, scanvars
<1> QED BY <1>1, <1>2, <1>3, <1>4, <1>5, Steps

LEMMA ListStep == ASSUME ListInv, [Next]_vars PROVE ListInv'
<1>1. CASE Scan
  <2>1. air' \in Airs /\ by' = "iwlist" /\ cell' = 1 /\ row' = 1 /\ cur' = Fresh("iwlist") /\ networks' = <<>> /\ pc' = "scan"
    BY <1>1 DEF Scan, Hear
  <2>2. PICK A : A = air'
    OBVIOUS
  <2>3. ScanOf("iwlist", A, 1, 1, <<>>, Fresh("iwlist"))
    BY <2>1, <2>2, ScanBegins DEF Tools
  <2> QED BY <2>1, <2>2, <2>3 DEF ListInv, ScanInv
<1>2. CASE ReadLine
  <2>1. pc = "scan" /\ pc' = "scan" /\ by' = by /\ air' = air
    BY <1>2 DEF ReadLine
  <2>2. ScanOf(by, air, cell', row', networks', cur')
    BY <1>2, <2>1, ReadLineStep DEF ListInv, ScanInv
  <2> QED BY <2>1, <2>2 DEF ListInv, ScanInv
<1>3. CASE ScanEnds
  <2>1. pc = "scan" /\ ScanOf(by, air, cell, row, networks, cur) /\ (TextEnds \/ Len(networks) = MAX)
    BY <1>3 DEF ScanEnds, ListInv, ScanInv
  <2>2. CASE LastListed = <<>> /\ by = "iwlist"
    <3>1. air' \in Airs /\ by' = "iw" /\ cell' = 1 /\ row' = 1 /\ cur' = Fresh("iw") /\ networks' = <<>> /\ pc' = "scan"
      BY <1>3, <2>2 DEF ScanEnds, Hear
    <3>2. PICK A : A = air'
      OBVIOUS
    <3>3. ScanOf("iw", A, 1, 1, <<>>, Fresh("iw"))
      BY <3>1, <3>2, ScanBegins DEF Tools
    <3> QED BY <3>1, <3>2, <3>3 DEF ListInv, ScanInv
  <2>3. CASE ~(LastListed = <<>> /\ by = "iwlist")
    <3>1. pc' = "choose" /\ by' = by /\ air' = air
      BY <1>3, <2>3 DEF ScanEnds
    <3>2. PICK L : L = LastListed
      OBVIOUS
    <3>3. networks' = L
      BY <1>3, <2>3, <3>2 DEF ScanEnds
    <3>4. Closes(by, networks, cur, L)
      BY <2>1, <3>2, ClosesIs DEF ScanOf, NamesInv
    <3>5. ~(cell <= Len(air)) \/ Len(networks) = MAX
      <4>1. TextEnds => ~(cell <= Len(air))
        <5>1. cell \in Nat /\ Len(air) \in Nat
          BY <2>1 DEF ScanOf, PlaceOK, Airy
        <5> QED BY <5>1 DEF TextEnds
      <4> QED BY <2>1, <4>1
    <3>6. ListOf(by, air, L)
      BY <2>1, <3>4, <3>5, ListEnds
    <3> QED BY <3>1, <3>3, <3>6 DEF ListInv, ScanInv
  <2> QED BY <2>2, <2>3
<1>4. CASE ~Scan /\ ~ReadLine /\ ~ScanEnds
  <2>1. CASE pc' \notin {"scan", "choose"}
    BY <2>1 DEF ListInv, ScanInv
  <2>2. CASE UNCHANGED <<pc, by, air, cell, row, networks, cur>>
    BY <2>2 DEF ListInv, ScanInv
  <2> QED BY <1>4, <2>1, <2>2, OtherSteps
<1> QED BY <1>1, <1>2, <1>3, <1>4

\* The list has each network that was heard once, for any number of cells in any
\* order and any room for it (wifi.c:384-399, 471-480).
THEOREM ListsEachOnce == Spec => []EachListedOnce
<1>1. ListInv => EachListedOnce
  BY ListMeans
<1> QED BY <1>1, ListInit, ListStep, PTL DEF Spec

\* iwlist's list shows of a name the strongest access point but the last, and
\* its security (wifi.c:384-399, 436-466).
THEOREM ShowsStrongest == Spec => []StrongestIsShown
<1>1. ListInv => StrongestIsShown
  BY ListMeans
<1> QED BY <1>1, ListInit, ListStep, PTL DEF Spec

-----------------------------------------------------------------------------
(* wget.c                                                                     *)

Chars == {"c", "nl", "nul"}

\* The answers are sequences of characters, and so is what is sent.
LEMMA StreamType ==
  ASSUME answer \in Answers
  PROVE  /\ answer.header \in Seq(Chars) /\ answer.body \in Seq(Chars)
         /\ Stream \in Seq(Chars) /\ Len(Stream) = Len(answer.header) + Len(answer.body)
<1>1. answer.header \in Seq(Chars)
  BY WgetAssumption, SeqMonotonic, {"c", "nl"} \subseteq Chars DEF Chars
<1>2. answer.body \in Seq(Chars)
  BY WgetAssumption DEF Chars
<1> QED BY <1>1, <1>2, ConcatProperties DEF Stream

\* A non-empty set of numbers has a smallest one.
LEMMA MinExists ==
  ASSUME NEW S \in SUBSET Nat, S /= {}
  PROVE  Min(S) \in S
<1>1. PICK x \in S : \A y \in S : ~ (<<y, x>> \in OpToRel(<, Nat))
  BY NatLessThanWellFounded, WFMin
<1>2. \A y \in S : y < x => <<y, x>> \in OpToRel(<, Nat)
  BY Zenon DEF OpToRel
<1>3. \A y \in S : x <= y
  <2> TAKE y \in S
  <2>1. ~(y < x)
    BY <1>1, <1>2
  <2> QED BY <2>1
<1> QED BY <1>3 DEF Min

\* The header's end is found within the chunk, or not.
LEMMA HeaderEndBounds ==
  ASSUME NEW chunk \in Seq(Chars)
  PROVE  HeaderEnd(chunk) \in 0 .. Len(chunk)
<1> DEFINE visible == {i \in 2 .. Len(chunk) : \A j \in 1 .. i : chunk[j] /= "nul"}
           ends == {i \in visible : chunk[i - 1] = "nl" /\ chunk[i] = "nl"}
<1>1. ends \subseteq 0 .. Len(chunk) /\ ends \in SUBSET Nat
  OBVIOUS
<1>2. HeaderEnd(chunk) = IF ends = {} THEN 0 ELSE Min(ends)
  BY DEF HeaderEnd
<1>3. Len(chunk) \in Nat
  OBVIOUS
<1> HIDE DEF ends
<1>4. ends /= {} => Min(ends) \in ends
  BY <1>1, MinExists
<1>5. CASE ends = {}
  BY <1>2, <1>3, <1>5
<1>6. CASE ends /= {}
  <2>1. HeaderEnd(chunk) = Min(ends)
    BY <1>2, <1>6
  <2> QED BY <1>1, <1>4, <1>6, <2>1
<1> QED BY <1>5, <1>6

\* What is kept of a chunk is what follows these characters.
Skipped(chunk) == IF header_passed THEN 0
                  ELSE IF HeaderEnd(chunk) = 0 THEN Len(chunk) ELSE HeaderEnd(chunk)

\* What is kept of a chunk is a piece of the answer that ends with the chunk.
LEMMA BodyOfChunk ==
  ASSUME NEW s \in Seq(Chars), NEW r \in Nat, NEW n \in Nat \ {0}, r + n <= Len(s)
  PROVE  LET chunk == SubSeq(s, r + 1, r + n) IN
         /\ chunk \in Seq(Chars) /\ Len(chunk) = n
         /\ Skipped(chunk) \in 0 .. n
         /\ BodyOf(chunk) = SubSeq(s, r + Skipped(chunk) + 1, r + n)
<1> DEFINE chunk == SubSeq(s, r + 1, r + n)
           k == Skipped(chunk)
<1>1. \A i \in r + 1 .. r + n : s[i] \in Chars
  BY ElementOfSeq
<1>2. chunk \in Seq(Chars) /\ Len(chunk) = n
  BY <1>1, SubSeqProperties
<1> HIDE DEF chunk
<1>3. k \in 0 .. n
  BY <1>2, HeaderEndBounds DEF Skipped
<1>4. BodyOf(chunk) = SubSeq(chunk, k + 1, n)
  <2>1. CASE header_passed
    BY <2>1, <1>2, SubSeqFull DEF BodyOf, Skipped
  <2>2. CASE ~header_passed /\ HeaderEnd(chunk) = 0
    BY <2>2, <1>2, SubSeqEmpty DEF BodyOf, Skipped
  <2>3. CASE ~header_passed /\ HeaderEnd(chunk) /= 0
    BY <2>3, <1>2 DEF BodyOf, Skipped
  <2> QED BY <2>1, <2>2, <2>3
<1> HIDE DEF k
<1>5. CASE k = n
  BY <1>2, <1>3, <1>4, <1>5, SubSeqEmpty DEF k, chunk
<1>6. CASE k < n
  <2>1. SubSeq(SubSeq(s, r + 1, r + n), k + 1, n) = SubSeq(s, (r + 1) + (k + 1) - 1, (r + 1) + n - 1)
    BY <1>3, <1>6, SubSeqOfSubSeq
  <2>2. (r + 1) + (k + 1) - 1 = r + k + 1 /\ (r + 1) + n - 1 = r + n
    BY <1>3
  <2>3. BodyOf(chunk) = SubSeq(s, r + k + 1, r + n)
    BY <1>4, <2>1, <2>2 DEF chunk
  <2> QED BY <1>2, <1>3, <2>3 DEF chunk, k
<1> QED BY <1>3, <1>5, <1>6

-----------------------------------------------------------------------------
\* What is given to fwrite: before the header's end nothing, always a piece of
\* the answer, after the server's own end of the header what follows it.
Nothing == phase = "connect" => received = 0 /\ ~header_passed /\ given = <<>>
BeforeHeader == phase = "read" /\ ~header_passed => given = <<>>
GivenPiece == phase \in {"read", "exit0"} => \E k \in 0 .. received : given = SubSeq(Stream, k + 1, received)
AfterHeader ==
  phase \in {"read", "exit0"} /\ header_passed /\ ~misled =>
    /\ received >= Len(answer.header)
    /\ given = SubSeq(Stream, Len(answer.header) + 1, received)
\* And the file: no more than that, and no less until a write fails.
Kept ==
  /\ phase \in {"read", "exit0"} => out \in Seq(Chars) /\ (~lost => out = given)
  /\ phase = "exit0" => given /= <<>>
  /\ phase = "read" /\ given = <<>> => out = <<>>
WgetInv == TypeOK /\ ExitStatus /\ Nothing /\ BeforeHeader /\ GivenPiece /\ AfterHeader /\ Kept

\* The parts of the type that the steps go by, and the lengths.
LEMMA Typed ==
  ASSUME TypeOK
  PROVE  /\ answer \in Answers /\ header_passed \in BOOLEAN /\ misled \in BOOLEAN
         /\ answer.header \in Seq(Chars) /\ answer.body \in Seq(Chars) /\ Stream \in Seq(Chars)
         /\ Len(Stream) = Len(answer.header) + Len(answer.body)
         /\ Len(answer.header) \in Nat /\ Len(answer.body) \in Nat
         /\ received \in 0 .. Len(Stream) /\ received \in Nat
         /\ lost \in BOOLEAN /\ given \in Seq(Chars)
<1>1. /\ answer \in Answers /\ header_passed \in BOOLEAN /\ misled \in BOOLEAN
      /\ received \in 0 .. Len(Stream) /\ lost \in BOOLEAN /\ given \in Seq(Chars)
  BY DEF TypeOK, Chars
<1>2. /\ answer.header \in Seq(Chars) /\ answer.body \in Seq(Chars) /\ Stream \in Seq(Chars)
      /\ Len(Stream) = Len(answer.header) + Len(answer.body)
  BY <1>1, StreamType
<1>3. Len(answer.header) \in Nat /\ Len(answer.body) \in Nat /\ received \in Nat
  BY <1>1, <1>2, LenProperties
<1> QED BY <1>1, <1>2, <1>3

LEMMA InitWgetInv == WgetInit => WgetInv
<1> SUFFICES ASSUME WgetInit PROVE WgetInv
  OBVIOUS
<1>1. Stream \in Seq(Chars)
  BY StreamType DEF WgetInit
<1>2. 0 \in 0 .. Len(Stream)
  BY <1>1, LenProperties
<1>3. <<"c">> \in Seq({"c", "nl", "nul"})
  OBVIOUS
<1>6. <<>> \in Seq({"c", "nl", "nul"})
  OBVIOUS
<1>4. TypeOK
  BY <1>2, <1>3, <1>6 DEF WgetInit, TypeOK
<1>5. phase = "connect" /\ out = before /\ received = 0 /\ header_passed = FALSE /\ given = <<>>
  BY DEF WgetInit
<1> QED BY <1>4, <1>5 DEF WgetInv, ExitStatus, Nothing, BeforeHeader, GivenPiece, AfterHeader, Kept

\* What a file gets of the characters that are stored.
LEMMA Stored ==
  ASSUME NEW s \in Seq(Chars), Store(s), lost \in BOOLEAN
  PROVE  /\ out' \in Seq(Chars) /\ lost' \in BOOLEAN /\ (~lost' => ~lost /\ out' = s)
         /\ (s = <<>> => out' = <<>> /\ lost' = lost) /\ (lost => lost')
<1> DEFINE fails == (\E k \in 0 .. Len(s) - 1 : out' = SubSeq(s, 1, k)) /\ lost' = TRUE
<1>1. ASSUME NEW k \in 0 .. Len(s) - 1 PROVE SubSeq(s, 1, k) \in Seq(Chars)
  <2>1. Len(s) \in Nat /\ \A i \in 1 .. k : s[i] \in Chars
    BY ElementOfSeq
  <2> QED BY <2>1, SubSeqProperties
<1>2. s = <<>> => 0 .. Len(s) - 1 = {}
  OBVIOUS
<1>3. (out' = s /\ lost' = lost) \/ fails
  BY DEF Store
<1>4. fails => out' \in Seq(Chars) /\ s /= <<>> /\ lost'
  BY <1>1, <1>2
<1> HIDE DEF fails
<1>5. fails => lost' = TRUE
  BY DEF fails
<1> QED BY <1>3, <1>4, <1>5

\* One read, of any number of characters.
LEMMA ReadStep ==
  ASSUME WgetInv, NEW n \in 1 .. BufSize, Read(n)
  PROVE  WgetInv'
<1> DEFINE H == Len(answer.header)
           chunk == SubSeq(Stream, received + 1, received + n)
<1>1. /\ answer' = answer /\ before' = before /\ phase = "read" /\ phase' = "read"
      /\ received' = received + n /\ n \in Nat \ {0} /\ received + n <= Len(Stream)
  BY WgetAssumption DEF Read, Keep
<1>2. Stream \in Seq(Chars) /\ H \in Nat
  BY Typed DEF WgetInv
<1>3. Stream' = Stream
  BY <1>1 DEF Stream
<1>4. received \in Nat /\ header_passed \in BOOLEAN /\ misled \in BOOLEAN
  BY Typed DEF WgetInv
<1>5. /\ chunk \in Seq(Chars) /\ Len(chunk) = n /\ Skipped(chunk) \in 0 .. n
      /\ BodyOf(chunk) = SubSeq(Stream, received + Skipped(chunk) + 1, received + n)
  BY <1>1, <1>2, <1>4, BodyOfChunk
<1>6. given' = given \o BodyOf(chunk) /\ Store(out \o BodyOf(chunk))
  BY DEF Read
<1>7. header_passed' \in BOOLEAN /\ misled' \in BOOLEAN
  BY <1>4 DEF Read
<1>8. /\ header_passed => header_passed'
      /\ header_passed \/ HeaderEnd(chunk) > 0 => header_passed'
  BY DEF Read
<1>9. ~misled' => /\ ~misled
                  /\ ~header_passed /\ header_passed' =>
                       HeaderEnd(chunk) /= 0 /\ received + HeaderEnd(chunk) = H
  BY <1>4 DEF Read
<1>10. HeaderEnd(chunk) \in 0 .. n
  BY <1>5, HeaderEndBounds
<1>11. out \in Seq(Chars) /\ given \in Seq(Chars) /\ lost \in BOOLEAN
  BY <1>1, Typed DEF WgetInv, Kept
<1> HIDE DEF chunk, H
<1>12. BodyOf(chunk) \in Seq(Chars)
  <2>1. \A i \in received + Skipped(chunk) + 1 .. received + n : Stream[i] \in Chars
    BY <1>1, <1>2, <1>4, <1>5, ElementOfSeq
  <2> QED BY <1>1, <1>4, <1>5, <2>1, SubSeqProperties
<1>13. given' \in Seq(Chars) /\ out' \in Seq(Chars) /\ lost' \in BOOLEAN
  BY <1>6, <1>11, <1>12, ConcatProperties, Stored
<1>18. Kept'
  <2>1. ~lost' => ~lost /\ out' = out \o BodyOf(chunk)
    BY <1>6, <1>11, <1>12, ConcatProperties, Stored
  <2>2. ~lost => out = given
    BY <1>1 DEF WgetInv, Kept
  <2>3. ASSUME given' = <<>> PROVE out' = <<>>
    <3>1. Len(given \o BodyOf(chunk)) = Len(given) + Len(BodyOf(chunk))
      BY <1>11, <1>12, ConcatProperties
    <3>2. Len(given \o BodyOf(chunk)) = 0
      BY <1>6, <2>3
    <3>3. Len(given) \in Nat /\ Len(BodyOf(chunk)) \in Nat
      BY <1>11, <1>12, LenProperties
    <3>4. Len(given) = 0 /\ Len(BodyOf(chunk)) = 0
      BY <3>1, <3>2, <3>3
    <3>5. given = <<>> /\ BodyOf(chunk) = <<>>
      BY <1>11, <1>12, <3>4, EmptySeq
    <3>6. out = <<>>
      BY <1>1, <3>5 DEF WgetInv, Kept
    <3>7. out \o BodyOf(chunk) = <<>>
      BY <3>5, <3>6, <1>11, ConcatEmptySeq
    <3>8. <<>> \in Seq(Chars) /\ Store(<<>>)
      BY <1>6, <1>11, <3>6, <3>7, Zenon
    <3> QED BY <1>11, <3>8, Stored
  <2> QED BY <1>1, <1>6, <1>13, <2>1, <2>2, <2>3 DEF Kept
<1>14. TypeOK'
  <2>1. received' \in 0 .. Len(Stream')
    BY <1>1, <1>3, <1>4
  <2>2. answer \in Answers /\ before \in Seq(Chars) \cup {Absent}
    BY DEF WgetInv, TypeOK, Chars
  <2>3. answer' \in Answers /\ before' \in Seq(Chars) \cup {Absent} /\ phase' = "read"
    BY <1>1, <2>2
  <2>4. header_passed' \in BOOLEAN /\ misled' \in BOOLEAN
    BY <1>7
  <2> QED BY <1>13, <2>1, <2>3, <2>4, Zenon DEF TypeOK, Chars, Exits
<1>15. ExitStatus'
  BY <1>1 DEF ExitStatus
<1>16. CASE header_passed
  <2>1. Skipped(chunk) = 0 /\ header_passed'
    BY <1>8, <1>16 DEF Skipped
  <2>2. PICK j \in 0 .. received : given = SubSeq(Stream, j + 1, received)
    BY <1>1 DEF WgetInv, GivenPiece
  <2>3. BodyOf(chunk) = SubSeq(Stream, received + 1, received + n)
    BY <1>4, <1>5, <2>1
  <2>4. \A i \in 0 .. received :
          SubSeq(Stream, i + 1, received) \o SubSeq(Stream, received + 1, received + n)
            = SubSeq(Stream, i + 1, received + n)
    <3> TAKE i \in 0 .. received
    <3>1. i + 1 \in 1 .. Len(Stream) + 1 /\ received \in (i + 1) - 1 .. Len(Stream)
          /\ received + n \in received .. Len(Stream)
      BY <1>1, <1>2, <1>4
    <3> QED BY <1>2, <3>1, ConcatAdjacentSubSeq
  <2>5. GivenPiece'
    <3>1. given' = SubSeq(Stream, j + 1, received')
      BY <1>1, <1>6, <2>2, <2>3, <2>4
    <3>2. j \in 0 .. received'
      BY <1>1, <1>4
    <3> QED BY <1>3, <3>1, <3>2 DEF GivenPiece
  <2>6. AfterHeader'
    <3> SUFFICES ASSUME ~misled' PROVE received' >= H /\ given' = SubSeq(Stream, H + 1, received')
      BY <1>1, <1>3 DEF AfterHeader, H
    <3>1. received >= H /\ given = SubSeq(Stream, H + 1, received)
      BY <1>1, <1>9, <1>16 DEF WgetInv, AfterHeader, H
    <3>2. H \in 0 .. received
      BY <1>2, <1>4, <3>1
    <3> QED BY <1>1, <1>4, <1>6, <2>3, <2>4, <3>1, <3>2
  <2> QED BY <1>1, <1>14, <1>15, <1>18, <2>1, <2>5, <2>6 DEF WgetInv, Nothing, BeforeHeader
<1>17. CASE ~header_passed
  <2>1. given = <<>>
    BY <1>1, <1>17 DEF WgetInv, Nothing, BeforeHeader
  <2>2. given' = SubSeq(Stream, received + Skipped(chunk) + 1, received + n)
    BY <1>5, <1>6, <1>12, <2>1, ConcatEmptySeq
  <2>3. GivenPiece'
    <3>1. received + Skipped(chunk) \in 0 .. received'
      BY <1>1, <1>4, <1>5
    <3> QED BY <1>1, <1>3, <2>2, <3>1 DEF GivenPiece
  <2>4. BeforeHeader'
    <3> SUFFICES ASSUME ~header_passed' PROVE given' = <<>>
      BY DEF BeforeHeader
    <3>1. HeaderEnd(chunk) = 0
      BY <1>8, <1>10
    <3>2. BodyOf(chunk) = <<>>
      BY <1>17, <3>1 DEF BodyOf
    <3> QED BY <1>6, <2>1, <1>11, <3>2, ConcatEmptySeq
  <2>5. AfterHeader'
    <3> SUFFICES ASSUME header_passed', ~misled'
                 PROVE  received' >= H /\ given' = SubSeq(Stream, H + 1, received')
      BY <1>1, <1>3 DEF AfterHeader, H
    <3>1. HeaderEnd(chunk) /= 0 /\ received + HeaderEnd(chunk) = H
      BY <1>9, <1>17
    <3>2. Skipped(chunk) = HeaderEnd(chunk)
      BY <1>17, <3>1 DEF Skipped
    <3> QED BY <1>1, <1>4, <1>10, <2>2, <3>1, <3>2
  <2> QED BY <1>1, <1>14, <1>15, <1>18, <2>3, <2>4, <2>5 DEF WgetInv, Nothing
<1> QED BY <1>4, <1>16, <1>17

\* The steps that leave what was read as it is.
LEMMA OtherStep ==
  ASSUME WgetInv, UNCHANGED <<answer, before, received, header_passed, given, misled>>,
         phase' \in {"connect", "read"} \cup Exits, out' \in Seq(Chars) \cup {Absent}, lost' \in BOOLEAN
  PROVE  TypeOK' /\ Stream' = Stream
BY DEF WgetInv, TypeOK, Stream, Chars

LEMMA StepWgetInv == WgetInv /\ [WgetNext]_wgetvars => WgetInv'
<1> SUFFICES ASSUME WgetInv, [WgetNext]_wgetvars PROVE WgetInv'
  OBVIOUS
<1>1. /\ out \in Seq(Chars) \cup {Absent} /\ phase \in {"connect", "read"} \cup Exits
      /\ lost \in BOOLEAN /\ given \in Seq(Chars)
  BY DEF WgetInv, TypeOK, Chars
<1>2. CASE NoConnection \/ NoFile
  <2>1. /\ phase = "connect" /\ phase' \in {"exit2", "exit3"}
        /\ UNCHANGED <<answer, before, received, header_passed, given, out, lost, misled>>
    BY <1>2 DEF NoConnection, NoFile, Keep
  <2>2. TypeOK'
    BY <1>1, <2>1, OtherStep DEF Exits
  <2> QED BY <2>1, <2>2 DEF WgetInv, ExitStatus, Nothing, BeforeHeader, GivenPiece, AfterHeader, Kept
<1>4. CASE Open
  <2>1. phase' = "read" /\ out' = <<>> /\ received = 0 /\ ~header_passed /\ given = <<>>
        /\ UNCHANGED <<answer, before, received, header_passed, given, lost, misled>>
    BY <1>4 DEF Open, Keep, WgetInv, Nothing
  <2>2. <<>> \in Seq(Chars)
    OBVIOUS
  <2>3. TypeOK' /\ Stream' = Stream
    BY <1>1, <2>1, <2>2, OtherStep
  <2>4. given' = SubSeq(Stream', 0 + 1, received')
    BY <2>1, SubSeqEmpty
  <2>5. GivenPiece'
    BY <2>1, <2>4 DEF GivenPiece
  <2> QED BY <2>1, <2>2, <2>3, <2>5 DEF WgetInv, ExitStatus, Nothing, BeforeHeader, AfterHeader, Kept
<1>5. CASE Close
  <2>1. /\ out \in Seq(Chars) /\ phase = "read" /\ (given = <<>> => out = <<>>) /\ (~lost => out = given)
        /\ UNCHANGED <<answer, before, received, header_passed, given, misled>>
    BY <1>5 DEF Close, Keep, WgetInv, Kept
  <2>2. CASE given = <<>>
    <3>1. out' \in {<<>>, Absent} /\ lost' = lost /\ phase' = "exit4"
      BY <1>5, <2>1, <2>2 DEF Close
    <3>2. <<>> \in Seq(Chars)
      OBVIOUS
    <3>3. TypeOK'
      BY <1>1, <2>1, <3>1, <3>2, OtherStep DEF Exits
    <3> QED BY <3>1, <3>3 DEF WgetInv, ExitStatus, Nothing, BeforeHeader, GivenPiece, AfterHeader, Kept
  <2>3. CASE given /= <<>>
    <3>1. Store(out) /\ phase' = "exit0"
      BY <1>5, <2>3 DEF Close
    <3>2. out' \in Seq(Chars) /\ lost' \in BOOLEAN /\ (~lost' => ~lost /\ out' = out)
      BY <1>1, <2>1, <3>1, Stored
    <3>3. TypeOK' /\ Stream' = Stream
      BY <1>1, <2>1, <3>1, <3>2, OtherStep DEF Exits
    <3>4. GivenPiece' /\ AfterHeader'
      BY <2>1, <3>1, <3>3 DEF WgetInv, GivenPiece, AfterHeader
    <3>5. Absent \notin Seq(Chars)
      BY DEF Absent, Chars
    <3>6. Kept'
      BY <2>1, <2>3, <3>1, <3>2 DEF Kept
    <3>7. ExitStatus'
      BY <2>1, <2>3, <3>1, <3>2, <3>5 DEF ExitStatus
    <3> QED BY <3>1, <3>3, <3>4, <3>6, <3>7 DEF WgetInv, Nothing, BeforeHeader
  <2> QED BY <2>2, <2>3
<1>6. ASSUME NEW n \in 1 .. BufSize, Read(n) PROVE WgetInv'
  BY <1>6, ReadStep
<1>7. CASE UNCHANGED wgetvars
  BY <1>7 DEF wgetvars, Stream, WgetInv, TypeOK, ExitStatus, Nothing, BeforeHeader, GivenPiece, AfterHeader, Kept
<1> QED BY <1>2, <1>4, <1>5, <1>6, <1>7 DEF WgetNext

-----------------------------------------------------------------------------
\* The invariant of every reachable state: the file before the header's end,
\* behind it, and after the loop (wget.c:270-332).
THEOREM Invariant == WgetSpec => []WgetInv
BY InitWgetInv, StepWgetInv, PTL DEF WgetSpec

\* Every variable keeps its type and no more is received than was sent
\* (wget.c:272).
THEOREM WgetTypeCorrect == WgetSpec => []TypeOK
<1>1. WgetInv => TypeOK
  BY DEF WgetInv
<1> QED BY <1>1, Invariant, PTL

\* What the exit status says of the file is so, whatever was sent, wherever the
\* answer broke off and whichever writes failed (wget.c:339-351).
THEOREM StatusTruthful == WgetSpec => []ExitStatus
<1>1. WgetInv => ExitStatus
  BY DEF WgetInv
<1> QED BY <1>1, Invariant, PTL

\* If no write failed the file is a gapless piece of the answer, for every way
\* the network cuts it (wget.c:270-332).
THEOREM Gapless == WgetSpec => []NothingMissing
<1>1. WgetInv => NothingMissing
  BY DEF WgetInv, NothingMissing, GivenPiece, Kept
<1> QED BY <1>1, Invariant, PTL

\* When the header's own end was recognised and no write failed, the file is the
\* body from its first byte on (wget.c:274-283).
THEOREM BodyExact == WgetSpec => []BodyFromStart
<1>1. WgetInv => BodyFromStart
  <2> SUFFICES ASSUME WgetInv, phase \in {"read", "exit0"}, header_passed, ~misled, ~lost
               PROVE  out = SubSeq(answer.body, 1, received - Len(answer.header))
    BY DEF BodyFromStart
  <2> DEFINE H == Len(answer.header)
  <2>1. received >= H /\ out = SubSeq(Stream, H + 1, received)
    BY DEF WgetInv, AfterHeader, Kept
  <2>2. answer.header \in Seq(Chars) /\ answer.body \in Seq(Chars)
    BY Typed DEF WgetInv
  <2>3. H \in Nat /\ Len(answer.body) \in Nat
    BY Typed DEF WgetInv
  <2>4. received \in 0 .. H + Len(answer.body)
    BY Typed DEF WgetInv
  <2> HIDE DEF H
  <2>5. CASE received = H
    BY <2>1, <2>3, <2>4, <2>5, SubSeqEmpty DEF H
  <2>6. CASE received > H
    <3>1. H + 1 \in H + 1 .. H + Len(answer.body) /\ received \in H + 1 .. H + Len(answer.body)
      BY <2>3, <2>4, <2>6
    <3>2. SubSeq(answer.header \o answer.body, H + 1, received)
            = SubSeq(answer.body, (H + 1) - H, received - H)
      BY <2>2, <3>1, SubSeqOfConcat2 DEF H
    <3>3. (H + 1) - H = 1
      BY <2>3
    <3> QED BY <2>1, <3>2, <3>3 DEF Stream, H
  <2> QED BY <2>1, <2>3, <2>4, <2>5, <2>6
<1> QED BY <1>1, Invariant, PTL
==============================================================================
