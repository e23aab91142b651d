------------------------------ MODULE UserFile ------------------------------
(***************************************************************************)
(* The accounts of the first server, class UserManager of                  *)
(* archive/stage1/server.cpp: a text file with a line "name|password" for  *)
(* every account.  Names and passwords are sequences of characters, since  *)
(* they may hold the separator themselves; a file is a sequence of lines.  *)
(***************************************************************************)
EXTENDS Integers, Sequences

CONSTANTS Char,  \* the characters of a message, the line's end excepted
          Bar    \* '|'

ASSUME UserFileAssumption == Bar \in Char

Text == Seq(Char)

(* line.find('|'): the first one counts.                                   *)
SplitAt(line, i) == i \in DOMAIN line /\ line[i] = Bar /\ \A j \in 1 .. i-1 : line[j] # Bar

(* Does the line carry this dbUsername, this dbPassword?                   *)
HasName(line, n) == \E i \in DOMAIN line : SplitAt(line, i) /\ SubSeq(line, 1, i-1) = n

(* Mutant: loginUser() looks for the last separator of the line.           *)
HasPasswordAfterLast(line, p) ==
  \E i \in DOMAIN line : /\ line[i] = Bar /\ \A j \in i+1 .. Len(line) : line[j] # Bar
                         /\ SubSeq(line, i+1, Len(line)) = p

HasPassword(line, p) ==
  \E i \in DOMAIN line : SplitAt(line, i) /\ SubSeq(line, i+1, Len(line)) = p

(* The line that registerUser() writes.                                    *)
AccountLine(n, p) == n \o <<Bar>> \o p

userExist(file, n) == \E i \in DOMAIN file : HasName(file[i], n)

(* Mutant: the file is opened without ios::app.                            *)
registerUserTruncates(file, n, p) ==
  IF userExist(file, n) THEN file ELSE <<AccountLine(n, p)>>

(* The file after registerUser(); it succeeds iff the user did not exist.  *)
registerUser(file, n, p) ==
  IF userExist(file, n) THEN file ELSE Append(file, AccountLine(n, p))

(* The line that loginUser() stops at.                                     *)
FirstLine(file, n, i) == /\ i \in DOMAIN file /\ HasName(file[i], n)
                         /\ \A j \in 1 .. i-1 : ~HasName(file[j], n)

loginUser(file, n, p) ==
  IF ~userExist(file, n) THEN 0
  ELSE IF \E i \in DOMAIN file : FirstLine(file, n, i) /\ HasPassword(file[i], p) THEN 1
  ELSE -1
=============================================================================
