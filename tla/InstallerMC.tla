---------------------------- MODULE InstallerMC ----------------------------
(***************************************************************************)
(* Requests that are refused, for each reason and at each limit; and disks *)
(* of every history, with an image that leaves no sector and one that is a *)
(* sector too large.                                                       *)
(***************************************************************************)
EXTENDS Installer

Least == 268288
MCSizes == {0, Least - 1, Least, Least + 2046, Least + 2047, 300000, 268435456}

\* The clusters a payload may have are 32728.
Small == <<1, 4096, 4097, 1, 1, 1>>
Filling == <<1, 1, 1, 32723 * 4096, 1, 1>>
TooLarge == <<1, 1, 1, 32723 * 4096 + 1, 1, 1>>
Absent == <<1, 1, 1, 0, 1, 1>>

Home == [path |-> <<"home">>, directory |-> TRUE, sectors |-> 0]
Name == [path |-> <<"etc", "hostname">>, directory |-> FALSE, sectors |-> 2]
Etc == [path |-> <<"etc">>, directory |-> TRUE, sectors |-> 0]
Program == [path |-> <<"program">>, directory |-> FALSE, sectors |-> 1771]

Asked(sectors, payload, image, account, before, attempts) ==
  [sectors |-> sectors, payload |-> payload, image |-> image, account |-> account,
   before |-> before, attempts |-> attempts]

MCRequests ==
  {Asked(n, p, <<>>, "none", "blank", 1) : n \in MCSizes, p \in {Small, Filling, TooLarge, Absent}}
    \cup {Asked(300000, Small, <<>>, a, "same", 1) : a \in {"invalid", "noEntropy"}}
    \cup {Asked(Least, Small, <<Home, Program>>, "user", b, 1) : b \in {"blank", "same"}}
    \cup {Asked(Least, Small, <<Home, Program>>, "user", b, 2) : b \in {"pending", "larger"}}
    \cup {Asked(300000, Small, image, "user", "blank", 1) :
            image \in {<<>>, <<Home, Home, Etc, Name>>, <<Program, Program>>}}
    \cup {Asked(Least, Small, <<Home, Etc, Name, Program>>, "user", "blank", 1)}
=============================================================================
