---------------------------------- MODULE Pid1 ----------------------------------
(***************************************************************************)
(* PID 1 (NoneCompiled/main.c): the first-time setup, the login of every   *)
(* later start, and the shell of Shell.  The power may fail at any point,  *)
(* and what was written stays.  The two files of the setup are kept apart  *)
(* from the tree that the commands change.                                 *)
(***************************************************************************)
EXTENDS Shell

CONSTANTS
  Names, Passwords,   \* user names and passwords; and those chosen at the setup
  ChosenNames, ChosenPasswords,
  Default,            \* the name that is used when the marker is empty
  STARTS              \* bound: power failures

VARIABLES
  marker,      \* SETUP_MARKER: Absent, Empty or the name
  auth,        \* the auth file of each name: <<>> if absent, <<Empty>>, or the pair that was encoded
  user,        \* the name the program uses
  password,    \* what was typed at the setup
  setup,       \* this start began with the setup
  full,        \* history: a write of the setup failed
  fails        \* power failures

vars == <<pc, cmdvars, marker, auth, user, password, setup, full, fails>>

Absent == "absent"
Empty == "empty"
NoPassword == "none"

ASSUME Pid1Assumption == Default \in Names /\ ChosenNames \subseteq Names /\ ChosenPasswords \subseteq Passwords
                         /\ {Absent, Empty} \cap Names = {} /\ NoPassword \notin Passwords

Init ==
  /\ pc = "boot" /\ ShellInit
  /\ marker = Absent /\ auth = [n \in Names |-> <<>>]
  /\ user = Default /\ password = NoPassword /\ setup = FALSE /\ full = FALSE /\ fails = 0

Goto(l) == pc' = l /\ UNCHANGED cmdvars

-----------------------------------------------------------------------------
(* main after setup_system: is there a marker?                              *)
ReadName == IF marker = Empty THEN Default ELSE marker
Boot ==
  /\ pc = "boot"
  /\ IF marker = Absent THEN Goto("setup") /\ setup' = TRUE /\ UNCHANGED user
                        ELSE Goto("login") /\ setup' = FALSE /\ user' = ReadName
  /\ UNCHANGED <<marker, auth, password, full, fails>>

(* The name is asked for until there is one; the password may be none, also *)
(* because the console is at its end.                                       *)
Choose(n, p) ==
  /\ pc = "setup" /\ Goto("files")
  /\ user' = n /\ password' = p /\ full' = FALSE
  /\ UNCHANGED <<marker, auth, setup, fails>>

(* Each file is created by fopen, and written when fclose flushes it; either *)
(* fails without a message.                                                  *)
SetupFilesSwapped == <<"marker", "auth">>   \* mutant: marked before it is done
SetupFiles == <<"auth", "marker">>
Step(k) == <<"files", "written", "files2", "written2">>[k]
After(k) == IF k = 4 THEN "prompt" ELSE Step(k + 1)
Write(f, name, pair) ==
  IF f = "marker" THEN marker' = name /\ UNCHANGED auth
                  ELSE auth' = [auth EXCEPT ![user] = pair] /\ UNCHANGED marker

OpenFile(k) ==
  /\ k \in {1, 3} /\ pc = Step(k)
  /\ \/ Goto(After(k)) /\ Write(SetupFiles[(k + 1) \div 2], Empty, <<Empty>>) /\ UNCHANGED full
     \/ Goto(IF k = 1 THEN Step(3) ELSE "prompt") /\ full' = TRUE /\ UNCHANGED <<marker, auth>>
  /\ UNCHANGED <<user, password, setup, fails>>
WriteFile(k) ==
  /\ k \in {2, 4} /\ pc = Step(k) /\ Goto(After(k))
  /\ \/ Write(SetupFiles[k \div 2], user, <<user, password>>) /\ UNCHANGED full
     \/ full' = TRUE /\ UNCHANGED <<marker, auth>>
  /\ UNCHANGED <<user, password, setup, fails>>

(* The password is compared in its encoding, which no two pairs share.      *)
Accepts(p) == p = NoPassword \/ auth[user] \in {<<>>, <<user, p>>}
Login(p) ==
  /\ pc = "login" /\ Goto(IF Accepts(p) THEN "prompt" ELSE "login")
  /\ UNCHANGED <<marker, auth, user, password, setup, full, fails>>

(* logout, exit and the end of the console leave run_shell: after the setup *)
(* it is called again, otherwise the password is asked for.                 *)
Logout ==
  /\ pc = "prompt" /\ Goto(IF setup THEN "prompt" ELSE "login")
  /\ UNCHANGED <<marker, auth, user, password, setup, full, fails>>

(* reboot and poweroff write to a device and exit: PID 1 has ended.         *)
Exit ==
  /\ pc = "prompt" /\ Goto("dead")
  /\ UNCHANGED <<marker, auth, user, password, setup, full, fails>>

(* The power fails, or the kernel panics because PID 1 has ended, and the   *)
(* machine starts again.                                                    *)
PowerFails ==
  /\ pc /= "boot" /\ fails < STARTS /\ fails' = fails + 1
  /\ pc' = "boot" /\ user' = Default
  /\ cmd' = NoCmd /\ pos' = 0 /\ err' = FALSE /\ kept' = {} /\ scope' = {}
  /\ before' = disk
  /\ UNCHANGED <<disk, ncmds, marker, auth, password, setup, full>>

Next ==
  \/ Boot \/ Logout \/ Exit \/ PowerFails
  \/ \E n \in ChosenNames, p \in ChosenPasswords \cup {NoPassword} : Choose(n, p)
  \/ \E k \in 1 .. 4 : OpenFile(k) \/ WriteFile(k)
  \/ \E p \in Passwords \cup {NoPassword} : Login(p)
  \/ Command /\ UNCHANGED <<marker, auth, user, password, setup, full, fails>>

Spec == Init /\ [][Next]_vars

-----------------------------------------------------------------------------
(* A finished setup lets its user in, with the password chosen and, but for *)
(* the empty one, no other, whenever the power failed before: the marker is *)
(* written last (main.c:954-964, 987-1009).                                 *)
LoginAsChosen ==
  pc = "login" /\ marker /= Empty /\ ~full =>
    /\ marker = user
    /\ {p \in Passwords : Accepts(p)} = {password} \cap Passwords
================================================================================
