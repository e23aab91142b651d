---------------------------- MODULE MCConnection ----------------------------
(***************************************************************************)
(* Instances of Connection for TLC.                                        *)
(***************************************************************************)
EXTENDS ConnectionQuiet, TLC

CONSTANTS alice, bob, pw1, pw2, ip1, ip2, c1, c2

Cmd(op, n, p, port) == [op |-> op, name |-> n, password |-> p, port |-> port]

(* Everything two connections can do to one account: two passwords, so     *)
(* that REGISTERs conflict, and two ports, one of which does not fit the   *)
(* port of a User; and a second account for a pointer to go astray to.     *)
AllCommands == { Cmd("REGISTER", alice, pw1, 0), Cmd("REGISTER", alice, pw2, 0),
                 Cmd("LOGIN", alice, pw1, 5001), Cmd("LOGIN", alice, pw1, 65536),
                 Cmd("LOGOUT", alice, pw1, 0), Cmd("GETINFO", alice, pw1, 0),
                 Cmd("REGISTER", bob, pw1, 0), Cmd("LOGIN", bob, pw1, 5002),
                 Cmd("UNKNOWN", alice, pw1, 0) }

(* The first connection comes from another host than the others.           *)
HostOf == [c \in Threads |-> IF c = c1 THEN ip1 ELSE ip2]
=============================================================================
