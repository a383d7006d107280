----------------------------- MODULE KeyTransfer -----------------------------
(***************************************************************************)
(* The transfer of the user's keys, which iOS offers once before each      *)
(* connection: ios_connect (main.c) opens an ssh session without a shell,  *)
(* ssh_getkeys (ssh.c) copies two files, and the session is closed before  *)
(* the terminal's own is opened.  It works on the same handles as the      *)
(* terminal: this module adds it to Session.                               *)
(*                                                                         *)
(* While it runs, pc is the file being copied, or "report".  One step is   *)
(* one call of libssh2.  A file arrives in FileBlocks pieces, one or more  *)
(* of them with a call.  The local file may not open, which nothing looks  *)
(* at, and what is written to it may be lost, which nothing looks at       *)
(* either.                                                                 *)
(***************************************************************************)
EXTENDS Session

CONSTANT FileBlocks   \* the pieces each key arrives in, at most

ASSUME KeyTransferAssumption == FileBlocks \in Nat

VARIABLES
  offered,     \* ios_connect still offers the transfer
  got,         \* pieces of the file read so far; NotOpen before scp_recv
  fid,         \* the local file: "bad" if fopen failed, or if its pointer does
               \* not fit the int it is kept in
  local,       \* the files on the device, against those before the transfer;
               \* "damaged" is one of which a write was lost
  result,      \* what ssh_getfile returned for each
  reported     \* what the user was told

NotOpen == -1
File == {"priv", "pub"}
Next1 == [priv |-> "pub", pub |-> "report"]

keyvars == <<offered, got, fid, local, result, reported>>
allvars == <<vars, keyvars>>

InTransfer == pc \in File \cup {"report"}

KeyInit ==
  /\ Init
  /\ offered = TRUE
  /\ got = NotOpen /\ fid = "none"
  /\ local = [f \in File |-> "old"]
  /\ result = [f \in File |-> "none"]
  /\ reported = "none"

session_vars == <<inbound, hterm_quit, view, events, input, sessions, drawing, userquit>>

-----------------------------------------------------------------------------
(* The choice in ios_connect.  ssh_open_preshell may get nowhere, and its  *)
(* result is not looked at.                                                *)
Transfer ==
  /\ pc = "open" /\ build = "IOS" /\ offered /\ sessions < MaxSessions
  /\ ssh_open_preshell
  /\ pc' = "priv" /\ peer' = "up"
  /\ offered' = FALSE /\ got' = NotOpen /\ fid' = "none"
  /\ result' = [f \in File |-> "none"] /\ reported' = "none"
  /\ UNCHANGED <<session_vars, local>>

Returns(f, code) ==
  /\ result' = [result EXCEPT ![f] = code]
  /\ pc' = Next1[f] /\ got' = NotOpen /\ fid' = "none"
  /\ UNCHANGED <<session_vars, session, sock, offered, reported>>

(* ssh_getfile: libssh2_scp_recv, whose channel takes the place of any     *)
(* that is there.  Without a session what it does is undefined.            *)
Refused(f) ==
  /\ pc = f /\ got = NotOpen /\ session
  /\ channel' = "none"
  /\ Returns(f, "refused")
  /\ UNCHANGED <<peer, local>>

Accepted(f) ==
  /\ pc = f /\ got = NotOpen /\ session /\ peer # "lost"
  /\ channel' = "scp" /\ peer' = "up"
  /\ \/ fid' = "open" /\ local' = [local EXCEPT ![f] = "partial"]   \* it is emptied
     \/ fid' = "bad" /\ local' \in {local, [local EXCEPT ![f] = "partial"]}
  /\ got' = 0
  /\ UNCHANGED <<pc, session_vars, session, sock, offered, result, reported>>

Undefined(f) ==
  /\ pc = f /\ got = NotOpen /\ ~session
  /\ pc' = "undefined"
  /\ UNCHANGED <<conn, peer, session_vars, keyvars>>

(* Its loop: some pieces, which are written; an error, which leaves the    *)
(* channel and the file open; or nothing, for ever, once the remote side   *)
(* has ended the file before its length.                                   *)
ReadBlock(f) ==
  /\ pc = f /\ fid = "open" /\ got \in 0 .. FileBlocks - 1 /\ peer = "up"
  /\ \E n \in 1 .. FileBlocks - got : got' = got + n
  /\ UNCHANGED <<pc, conn, peer, session_vars, offered, fid, local, result, reported>>

EmptyRead(f) ==
  /\ pc = f /\ got \in 0 .. FileBlocks - 1 /\ peer = "eof"
  /\ UNCHANGED allvars

(* fputc and fclose of a file that is not open. *)
BadFile(f) ==
  /\ pc = f /\ fid = "bad"
  /\ got < FileBlocks => peer = "up"
  /\ pc' = "undefined"
  /\ UNCHANGED <<conn, peer, session_vars, keyvars>>

ReadFails_Retries(f) ==
  /\ pc = f /\ got \in 0 .. FileBlocks - 1 /\ peer # "eof"
  /\ UNCHANGED allvars
ReadFails(f) ==
  /\ pc = f /\ got \in 0 .. FileBlocks - 1 /\ peer # "eof"
  /\ Returns(f, "broken")
  /\ UNCHANGED <<channel, peer, local>>

(* All was read.  The results of fputc and fclose are not looked at.       *)
Complete(f) ==
  /\ pc = f /\ fid = "open" /\ got = FileBlocks
  /\ channel' = "none"
  /\ \E written \in {"complete", "damaged"} : local' = [local EXCEPT ![f] = written]
  /\ Returns(f, "ok")
  /\ UNCHANGED peer

getfile(f) == Refused(f) \/ Accepted(f) \/ Undefined(f) \/ ReadBlock(f) \/ EmptyRead(f)
                \/ BadFile(f) \/ ReadFails(f) \/ Complete(f)

(* The end of ssh_getkeys and of ios_connect: the report, and c_close.     *)
Report_Either == IF \E f \in File : result[f] = "ok" THEN "ok" ELSE "fail"
Report == IF \A f \in File : result[f] = "ok" THEN "ok" ELSE "fail"

Finish_NoClose ==
  /\ pc = "report"
  /\ reported' = Report /\ result' = [f \in File |-> "none"]
  /\ UNCHANGED conn
  /\ pc' = "open"
  /\ UNCHANGED <<peer, session_vars, offered, got, fid, local>>
Finish ==
  /\ pc = "report"
  /\ reported' = Report /\ result' = [f \in File |-> "none"]
  /\ ssh_close
  /\ pc' = "open"
  /\ UNCHANGED <<peer, session_vars, offered, got, fid, local>>

(* The remote side ends a file early, or the connection breaks. *)
Remote ==
  /\ pc \in File /\ peer = "up" /\ session
  /\ peer' \in {"eof", "lost"}
  /\ UNCHANGED <<pc, conn, session_vars, keyvars>>

-----------------------------------------------------------------------------
Keys == (\E f \in File : getfile(f)) \/ Finish

(* Session's steps.  ios_connect is over when the terminal's connection is *)
(* opened, with nothing left to tell, and runs again when that is closed.  *)
Connect ==
  /\ Open
  /\ offered' = FALSE
  /\ local' = [f \in File |-> "old"] /\ reported' = "none"
  /\ UNCHANGED <<got, fid, result>>

LoopStep ==
  Loop /\ offered' = (pc = "close") /\ UNCHANGED <<got, fid, local, result, reported>>

Thread == LoopStep \/ (Keys /\ UNCHANGED build)

KeyNext ==
  \/ Connect \/ Thread
  \/ Outside /\ UNCHANGED keyvars
  \/ (Transfer \/ Remote) /\ UNCHANGED build

(* The main thread goes on while it can, in the transfer as in the loop.   *)
KeySpec == KeyInit /\ [][KeyNext]_allvars /\ WF_allvars(Thread)

-----------------------------------------------------------------------------
(* Properties.  Those of Session, too, hold with transfers in between.     *)

(* The types of Session in its own states, and those of ssh_getfile's      *)
(* variables.                                                              *)
KeyTypeOK ==
  /\ IF InTransfer \/ pc = "undefined" THEN channel \in {"none", "scp"} ELSE TypeOK
  /\ got \in {NotOpen} \cup 0 .. FileBlocks
  /\ fid \in {"none", "open", "bad"} /\ (fid = "none" <=> got = NotOpen)
  /\ local \in [File -> {"old", "partial", "complete", "damaged"}]
  /\ result \in [File -> {"none", "ok", "refused", "broken"}]
  /\ reported \in {"none", "ok", "fail"}

(* The user is told that the keys were copied when both files were read to *)
(* their end and written, and only then: a file that was refused, or whose *)
(* connection broke half-way, is never reported as copied, whatever the    *)
(* other one came to.  Each file is then there in full, unless a write was *)
(* lost: "damaged", which the code does not notice (ssh_getfile,           *)
(* ssh_getkeys).                                                           *)
ReportMatchesFiles ==
  reported # "none" =>
    (reported = "ok" <=> \A f \in File : local[f] \in {"complete", "damaged"})

(* A connection that breaks ends the transfer; only a remote side that     *)
(* ends a file before its length does not.                                 *)
LostTransferEnds == InTransfer /\ peer = "lost" ~> ~InTransfer
=============================================================================
