--------------------------------- MODULE Ipc -----------------------------------
(***************************************************************************)
(* lib/ipc: several processes listen on and dial one unix socket path.     *)
(* net.Listen binds, which makes the socket file and fails when any file   *)
(* is there, and then listens, until when a dial is refused.  A process    *)
(* that crashes leaves its file; one that closes its listener unlinks the  *)
(* path.  listenUnix tells a stale file from a served one by dialling it,  *)
(* in four system calls between which the other processes run.             *)
(*                                                                         *)
(* A socket file is the number of the bind that made it.                   *)
(***************************************************************************)
EXTENDS Integers, FiniteSets

CONSTANTS Processes, MaxBinds, MaxCrashes

Nothing == 0      \* no file at the path
PlainFile   == -1     \* a file that is not a socket

VARIABLES file,      \* what is at the path
          ipcAt,     \* per process: where it is in Listen, or after it
          heldFile,      \* per process: the socket file it bound
          ipcErr,    \* per process: the error of its last Listen
          binds,     \* binds made
          crashes,   \* crashes so far
          alone,     \* no two calls of Listen have overlapped
          first      \* what was at the path at the start

ipcVars == <<file, ipcAt, heldFile, ipcErr, binds, crashes, alone, first>>

\* The steps of a call of Listen.
InListen == {"bind", "lstat", "probe", "remove", "rebind", "bound"}

IpcTypeOK ==
  /\ file \in {Nothing, PlainFile} \cup 1..MaxBinds /\ binds \in 0..MaxBinds /\ crashes \in 0..MaxCrashes
  /\ ipcAt \in [Processes -> InListen \cup {"idle", "serving"}] /\ heldFile \in [Processes -> 0..MaxBinds]
  /\ ipcErr \in [Processes -> {"none", "ErrInvalidIPCAddress", "ErrUnsupportedProtocol", "ErrNotSocket",
                               "ErrSocketInUse", "gone", "taken", "os"}]
  /\ alone \in BOOLEAN /\ first \in {Nothing, PlainFile}

IpcInit ==
  /\ first \in {Nothing, PlainFile} /\ file = first /\ binds = 0 /\ crashes = 0 /\ alone = TRUE
  /\ ipcAt = [p \in Processes |-> "idle"] /\ heldFile = [p \in Processes |-> 0]
  /\ ipcErr = [p \in Processes |-> "none"]

\* The call of p goes on at step a, and it fails with e.
Goes(p, a) == ipcAt' = [ipcAt EXCEPT ![p] = a] /\ UNCHANGED ipcErr
Fails(p, e) == ipcAt' = [ipcAt EXCEPT ![p] = "idle"] /\ ipcErr' = [ipcErr EXCEPT ![p] = e]

-----------------------------------------------------------------------------
\* An address without a protocol, or of none that is known, is refused.
Listen(p) ==
  /\ ipcAt[p] = "idle" /\ heldFile[p] = 0
  /\ \/ /\ ipcAt' = [ipcAt EXCEPT ![p] = "bind"] /\ ipcErr' = [ipcErr EXCEPT ![p] = "none"]
        /\ alone' = (alone /\ \A q \in Processes : ipcAt[q] \notin InListen)
     \/ \E e \in {"ErrInvalidIPCAddress", "ErrUnsupportedProtocol"} : Fails(p, e) /\ UNCHANGED alone
  /\ UNCHANGED <<file, heldFile, binds, crashes, first>>

\* bind(2), the first time and after the stale file was removed.
Bind(p) ==
  /\ ipcAt[p] \in {"bind", "rebind"} /\ binds < MaxBinds
  /\ \/ /\ file = Nothing /\ file' = binds + 1 /\ binds' = binds + 1
        /\ heldFile' = [heldFile EXCEPT ![p] = binds + 1] /\ Goes(p, "bound")
     \/ file # Nothing /\ ipcAt[p] = "bind" /\ Goes(p, "lstat") /\ UNCHANGED <<file, binds, heldFile>>
     \/ file # Nothing /\ ipcAt[p] = "rebind" /\ Fails(p, "taken") /\ UNCHANGED <<file, binds, heldFile>>
     \/ Fails(p, "os") /\ UNCHANGED <<file, binds, heldFile>>
  /\ UNCHANGED <<crashes, alone, first>>

\* listen(2): from now on a dial is accepted.
Accepting(p) == ipcAt[p] = "bound" /\ Goes(p, "serving") /\ UNCHANGED <<file, heldFile, binds, crashes, alone, first>>

Lstat(p) ==
  /\ ipcAt[p] = "lstat"
  /\ \/ file = Nothing /\ Fails(p, "gone")
     \/ file = PlainFile /\ Fails(p, "ErrNotSocket")
     \/ file > 0 /\ Goes(p, "probe")
  /\ UNCHANGED <<file, heldFile, binds, crashes, alone, first>>

\* The socket file at the path is one that a process accepts on.
Served == \E q \in Processes : ipcAt[q] = "serving" /\ heldFile[q] = file

\* Mutant form: a probe that is answered is taken for a stale file.
ProbeBlind(p) ==
  /\ ipcAt[p] = "probe" /\ Goes(p, "remove")
  /\ UNCHANGED <<file, heldFile, binds, crashes, alone, first>>
\* The dial of removeStaleSocket: answered, refused, or it cannot tell and keeps the file.
Probe(p) ==
  /\ ipcAt[p] = "probe"
  /\ \/ file = Nothing /\ Fails(p, "gone")
     \/ Served /\ Fails(p, "ErrSocketInUse")
     \/ file > 0 /\ ~Served /\ Goes(p, "remove")
     \/ Fails(p, "os")
  /\ UNCHANGED <<file, heldFile, binds, crashes, alone, first>>

\* os.Remove takes whatever is at the path by now.
RemoveStale(p) ==
  /\ ipcAt[p] = "remove" /\ file' = Nothing
  /\ IF file = Nothing THEN Fails(p, "gone") ELSE Goes(p, "rebind")
  /\ UNCHANGED <<heldFile, binds, crashes, alone, first>>

-----------------------------------------------------------------------------
\* Closing a listener unlinks the path, whoever's file is there, and closes its socket:
\* two steps of package net, here one.
CloseListener(p) ==
  /\ ipcAt[p] = "serving" /\ Goes(p, "idle") /\ heldFile' = [heldFile EXCEPT ![p] = 0] /\ file' = Nothing
  /\ UNCHANGED <<binds, crashes, alone, first>>

\* A process dies at any point and is started again: its socket file stays.
Crash(p) ==
  /\ ipcAt[p] # "idle" /\ crashes < MaxCrashes /\ crashes' = crashes + 1
  /\ Goes(p, "idle") /\ heldFile' = [heldFile EXCEPT ![p] = 0]
  /\ UNCHANGED <<file, binds, alone, first>>

IpcNext == \E p \in Processes :
  Listen(p) \/ Bind(p) \/ Accepting(p) \/ Lstat(p) \/ Probe(p) \/ RemoveStale(p) \/ CloseListener(p) \/ Crash(p)

IpcSpec == IpcInit /\ [][IpcNext]_ipcVars

-----------------------------------------------------------------------------
\* While calls of Listen do not overlap, through any crashes and restarts: a process that
\* serves has its socket at the path, so there is one server and every dial reaches it; a
\* Listen that removed a stale socket gets the path.  Overlapping or not, a file that is
\* not a socket is never removed (Listen, listenUnix, removeStaleSocket).
IpcCorrect ==
  /\ IpcTypeOK
  /\ alone => \A p \in Processes : /\ ipcAt[p] = "serving" => file = heldFile[p]
                                   /\ ipcErr[p] # "taken"
  /\ first = PlainFile => file = PlainFile

\* A socket that a process serves stays at the path: another Listen fails instead of
\* replacing it (the comment of Listen).
ServedIsKept == \A p \in Processes : ipcAt[p] = "serving" => file = heldFile[p]
=============================================================================
