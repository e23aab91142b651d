-------------------------- MODULE ConnectionQuiet --------------------------
(***************************************************************************)
(* Connection, watched: which of the GETINFOs that read a record without   *)
(* the lock were disturbed by a login or a logout of the same user.  It    *)
(* tells how far InfoWasPublished is from being true.                      *)
(***************************************************************************)
EXTENDS Connection

VARIABLE disturbed \* history: threads whose record was written to meanwhile

quietVars == <<vars, disturbed>>

(* Some thread is in loginUser(n, ...) or logoutUser(n), and has the lock. *)
Busy(n) == \E d \in Threads : InFlight(d) /\ cmd[d].name = n

Watch == disturbed' = {c \in Threads : \/ pc'[c] = "fields" /\ Busy(cmd[c].name)'
                                       \/ pc'[c] \in {"fields", "reply"} /\ c \in disturbed}

QuietInit == Init /\ disturbed = {}
QuietNext == Next /\ Watch
QuietSpec == QuietInit /\ [][QuietNext]_quietVars
FairQuietSpec == QuietSpec /\ \A c \in Threads : WF_vars(Serve(c))

(* GETINFO answers with an address of a successful LOGIN, IP and port of   *)
(* the same one, unless a login or a logout of that user was between its   *)
(* first write and its last when isLoggedIn was tested, or later, before   *)
(* both fields were read.  So holding userMutex_ over the read would be    *)
(* enough, and the user may well have been logged out and in again between *)
(* findUser() and the test.                                                *)
UndisturbedInfoWasPublished ==
  \A c \in Threads \ disturbed :
    pc[c] = "reply" /\ reply[c].status = "INFO" =>
       <<cmd[c].name, reply[c].ip, reply[c].port>> \in published
=============================================================================
