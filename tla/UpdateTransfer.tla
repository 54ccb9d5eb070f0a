--------------------------- MODULE UpdateTransfer ---------------------------
(***************************************************************************)
(* How a client brings its resource files up to date: Updater              *)
(* (Source/Client/Updater.cpp) on the client's main loop, the handlers     *)
(* Process_Handshake, Process_UpdateFile and Process_UpdateFileData of     *)
(* FOServer (Source/Server/Server.cpp), and the connection between them,   *)
(* which keeps the order of the messages and may break at any moment.      *)
(*                                                                         *)
(* A byte is <<i, n>>, the n-th byte of the server's file i, or Old, a     *)
(* byte of a file the client had before.  File indexes start at 1 here and *)
(* at 0 in the code; updFile = 0 stands for UpdateFileIndex = -1.          *)
(***************************************************************************)
EXTENDS Integers, Sequences

CONSTANTS Sizes,         \* the sizes of the server's files, in the order of the list
          SendSize,      \* Settings.UpdateFileSendSize
          OldSizes,      \* the sizes the client's old files may have
          NoFile,        \* there is no such file
          Old,           \* a byte of an old file
          MaxBreaks,     \* bound of the breaks of the connection
          MaxFsErrors,   \* bound of the errors of the client's file system
          MaxRestarts    \* bound of the restarts of the client

ASSUME SizesAssumption == Sizes \in Seq(Nat)
ASSUME SendSizeAssumption == SendSize \in Nat \ {0}
ASSUME OldSizesAssumption == OldSizes \subseteq Nat
ASSUME BoundsAssumption == {MaxBreaks, MaxFsErrors, MaxRestarts} \subseteq Nat

VARIABLES
    link,       \* the connection is up
    toServer,   \* messages on their way to the server
    toClient,   \* messages on their way to the client
    handshake,  \* server: connection->WasHandshake
    updFile,    \* server: connection->UpdateFileIndex
    portion,    \* server: connection->UpdateFilePortion
    graceful,   \* server: connection->IsGracefulDisconnected()
    phase,      \* client: start, connected, rename (inside GetNextFile), aborted, ended
    listed,     \* client: _fileListReceived
    toUpdate,   \* client: the indexes in _filesToUpdate, which is in their order
    remaining,  \* client: RemaningSize of its front; of the others it is the size
    temp,       \* client: the bytes in _tempFile, or NoFile
    local,      \* the client's files
    origin,     \* history: the client's files at first
    breaks, fsErrors, restarts  \* what has happened so far

server == <<handshake, updFile, portion, graceful>>
counters == <<breaks, fsErrors, restarts>>
vars == <<link, toServer, toClient, server, phase, listed, toUpdate, remaining, temp, local, origin,
          counters>>

Files == DOMAIN Sizes
Content(i) == [n \in 1..Sizes[i] |-> <<i, n>>]
OldFile(size) == [n \in 1..size |-> Old]
Bytes == {Old} \cup (Files \X Nat)
LeastOf(a, b) == IF a < b THEN a ELSE b

ASSUME NoFileAssumption == NoFile \notin Seq(Bytes)

(* _filesToUpdate.front()                                                  *)
Front(q) == CHOOSE i \in q : \A j \in q : i <= j

Init ==
    /\ link = FALSE /\ toServer = <<>> /\ toClient = <<>>
    /\ handshake = FALSE /\ updFile = 0 /\ portion = 0 /\ graceful = FALSE
    /\ phase = "start" /\ listed = FALSE /\ toUpdate = {} /\ remaining = 0
    /\ temp = NoFile
    /\ local \in [Files -> {NoFile} \cup {OldFile(size) : size \in OldSizes}]
    /\ origin = local
    /\ breaks = 0 /\ fsErrors = 0 /\ restarts = 0

-----------------------------------------------------------------------------
(* The server, for one connection.                                         *)

(* The handshake is expected first and only once; a connection that is     *)
(* being closed gracefully is not listened to.                             *)
ToServer(type) ==
    /\ link /\ ~graceful
    /\ toServer # <<>> /\ Head(toServer).type = type
    /\ handshake <=> type # "handshake"

(* Process_Handshake sends the list of the files.                          *)
Process_Handshake ==
    /\ ToServer("handshake")
    /\ \E outdated \in BOOLEAN :
          toClient' = Append(toClient, [type |-> "list", outdated |-> outdated])
    /\ handshake' = TRUE
    /\ toServer' = Tail(toServer)
    /\ UNCHANGED <<link, updFile, portion, graceful, phase, listed, toUpdate, remaining, temp, local,
                   origin, counters>>

SendPortion_NoAdvance(i, p) ==
    LET offset == p * SendSize
        last == offset + SendSize >= Sizes[i]
        size == IF last THEN Sizes[i] % SendSize ELSE SendSize
    IN  /\ toClient' = Append(toClient, [type |-> "data",
                                 bytes |-> SubSeq(Content(i), offset + 1, offset + size)])
        /\ updFile' = IF last THEN 0 ELSE i
        /\ portion' = p

(* The end of Process_UpdateFileData: portion p of file i is sent.  The    *)
(* last portion has what is left of the size after the whole portions.     *)
SendPortion(i, p) ==
    LET offset == p * SendSize
        last == offset + SendSize >= Sizes[i]
        size == IF last THEN Sizes[i] % SendSize ELSE SendSize
    IN  /\ toClient' = Append(toClient, [type |-> "data",
                                 bytes |-> SubSeq(Content(i), offset + 1, offset + size)])
        /\ updFile' = IF last THEN 0 ELSE i
        /\ portion' = IF last THEN p ELSE p + 1

GracefulDisconnect ==
    /\ graceful' = TRUE
    /\ toClient' = Append(toClient, [type |-> "disconnect"])
    /\ UNCHANGED <<updFile, portion>>

Process_UpdateFile ==
    /\ ToServer("getFile")
    /\ LET i == Head(toServer).index
       IN  IF i \in Files THEN SendPortion(i, 0) /\ UNCHANGED graceful ELSE GracefulDisconnect
    /\ toServer' = Tail(toServer)
    /\ UNCHANGED <<link, handshake, phase, listed, toUpdate, remaining, temp, local, origin, counters>>

WrongUpdateCall == ToServer("getData") /\ updFile = 0

Process_UpdateFileData_Silent ==
    /\ ToServer("getData")
    /\ IF updFile = 0
       THEN UNCHANGED <<toClient, updFile, portion, graceful>>
       ELSE SendPortion(updFile, portion) /\ UNCHANGED graceful
    /\ toServer' = Tail(toServer)
    /\ UNCHANGED <<link, handshake, phase, listed, toUpdate, remaining, temp, local, origin, counters>>

Process_UpdateFileData ==
    /\ ToServer("getData")
    /\ IF updFile = 0 THEN GracefulDisconnect ELSE SendPortion(updFile, portion) /\ UNCHANGED graceful
    /\ toServer' = Tail(toServer)
    /\ UNCHANGED <<link, handshake, phase, listed, toUpdate, remaining, temp, local, origin, counters>>

-----------------------------------------------------------------------------
(* The client.                                                             *)

(* Abort: the connection is closed and the temporary file forgotten.       *)
Abort ==
    /\ phase' = "aborted"
    /\ temp' = NoFile
    /\ link' = FALSE /\ toServer' = <<>> /\ toClient' = <<>>

(* Connect, and the handshake that Net_OnConnect's caller has sent; or it  *)
(* fails.                                                                  *)
Connect ==
    /\ phase = "start"
    /\ link' = TRUE
    /\ toServer' = <<[type |-> "handshake"]>> /\ toClient' = <<>>
    /\ handshake' = FALSE /\ updFile' = 0 /\ portion' = 0 /\ graceful' = FALSE
    /\ phase' = "connected"
    /\ UNCHANGED <<listed, toUpdate, remaining, temp, local, origin, counters>>

CantConnect ==
    /\ phase = "start"
    /\ breaks < MaxBreaks
    /\ breaks' = breaks + 1
    /\ Abort
    /\ UNCHANGED <<server, listed, toUpdate, remaining, local, origin, fsErrors, restarts>>

ToClient(type) == phase = "connected" /\ link /\ toClient # <<>> /\ Head(toClient).type = type

RequestFile_OpensOne(q) ==
    /\ toUpdate' = q
    /\ remaining' = IF q = {} THEN 0 ELSE Sizes[Front(q)]
    /\ toServer' = IF q = {} THEN toServer
                   ELSE Append(toServer, [type |-> "getFile", index |-> Front(q)])
    /\ temp' = IF q = {} THEN NoFile ELSE temp
    /\ phase' = "connected"

(* The end of GetNextFile for the files q: ask for the first of them and   *)
(* open the temporary file, which starts empty; or all is done.            *)
RequestFile(q) ==
    /\ toUpdate' = q
    /\ remaining' = IF q = {} THEN 0 ELSE Sizes[Front(q)]
    /\ toServer' = IF q = {} THEN toServer
                   ELSE Append(toServer, [type |-> "getFile", index |-> Front(q)])
    /\ temp' = IF q = {} THEN NoFile ELSE <<>>
    /\ phase' = "connected"

Wanted_OnlyMissing(i) == local[i] = NoFile

(* A file is asked for when it is missing or has another size; the hash    *)
(* that the server sends is not looked at.                                 *)
Wanted(i) == local[i] = NoFile \/ Len(local[i]) # Sizes[i]

FilesToUpdate == {i \in Files : Wanted(i)}

Net_OnUpdateFilesResponse ==
    /\ ToClient("list")
    /\ IF Head(toClient).outdated
       THEN Abort /\ UNCHANGED <<listed, toUpdate, remaining>>
       ELSE /\ listed' = TRUE
            /\ RequestFile(FilesToUpdate)
            /\ toClient' = Tail(toClient)
            /\ UNCHANGED link
    /\ UNCHANGED <<server, local, origin, counters>>

GotAll_Early(rest) == rest < SendSize

GotAll(rest) == rest = 0

(* A portion arrives: it goes to the temporary file, and the next one is   *)
(* asked for or the file is finished.  The first step of GetNextFile then  *)
(* deletes the old file.  More than was left is an assertion that fails:   *)
(* the connection is closed, Net_OnDisconnect aborts.                      *)
Net_OnUpdateFileData ==
    /\ ToClient("data")
    /\ LET bytes == Head(toClient).bytes
           rest == remaining - Len(bytes)
       IN  IF rest < 0
           THEN Abort /\ UNCHANGED <<remaining, local>>
           ELSE /\ temp' = temp \o SubSeq(bytes, 1, LeastOf(remaining, Len(bytes)))
                /\ remaining' = rest
                /\ toClient' = Tail(toClient)
                /\ UNCHANGED link
                /\ IF ~GotAll(rest)
                   THEN /\ toServer' = Append(toServer, [type |-> "getData"])
                        /\ UNCHANGED <<phase, local>>
                   ELSE /\ phase' = "rename"
                        /\ local' = [local EXCEPT ![Front(toUpdate)] = NoFile]
                        /\ UNCHANGED toServer
    /\ UNCHANGED <<server, listed, toUpdate, origin, counters>>

(* The second step of GetNextFile: the temporary file takes the name.      *)
RenameTempFile ==
    /\ phase = "rename"
    /\ local' = [local EXCEPT ![Front(toUpdate)] = temp]
    /\ RequestFile(toUpdate \ {Front(toUpdate)})
    /\ UNCHANGED <<link, toClient, server, listed, origin, counters>>

(* Opening the first temporary file fails, or writing a portion or deleting *)
(* the old file, or renaming the temporary file, or opening the next one.  *)
FileSystemError ==
    /\ fsErrors < MaxFsErrors
    /\ fsErrors' = fsErrors + 1
    /\ \/ /\ ToClient("list") /\ ~Head(toClient).outdated /\ FilesToUpdate # {}
          /\ listed' = TRUE /\ toUpdate' = FilesToUpdate /\ remaining' = Sizes[Front(FilesToUpdate)]
          /\ UNCHANGED local
       \/ ToClient("data") /\ UNCHANGED <<listed, toUpdate, remaining, local>>
       \/ phase = "rename" /\ UNCHANGED <<listed, toUpdate, remaining, local>>
       \/ /\ phase = "rename" /\ toUpdate # {Front(toUpdate)}
          /\ local' = [local EXCEPT ![Front(toUpdate)] = temp]
          /\ toUpdate' = toUpdate \ {Front(toUpdate)} /\ remaining' = Sizes[Front(toUpdate')]
          /\ UNCHANGED listed
    /\ Abort
    /\ UNCHANGED <<server, origin, breaks, restarts>>

(* NETMSG_DISCONNECT, or the connection is found broken: Net_OnDisconnect. *)
Net_OnDisconnect ==
    /\ phase = "connected"
    /\ ToClient("disconnect") \/ ~link
    /\ IF ~listed \/ toUpdate # {}
       THEN Abort
       ELSE UNCHANGED <<link, toServer, toClient, temp>> /\ phase' = "ended"
    /\ UNCHANGED <<server, listed, toUpdate, remaining, local, origin, counters>>

(* Process returns true: the client goes on without the updater.           *)
Ready == phase = "connected" /\ listed /\ toUpdate = {}

Process ==
    /\ Ready
    /\ phase' = "ended"
    /\ UNCHANGED <<link, toServer, toClient, server, listed, toUpdate, remaining, temp, local, origin,
                   counters>>

-----------------------------------------------------------------------------
(* The environment.                                                        *)

ConnectionBreaks ==
    /\ link
    /\ breaks < MaxBreaks
    /\ breaks' = breaks + 1
    /\ link' = FALSE /\ toServer' = <<>> /\ toClient' = <<>>
    /\ UNCHANGED <<server, phase, listed, toUpdate, remaining, temp, local, origin, fsErrors, restarts>>

(* The client is closed or dies, at any moment, and is started again.      *)
Restart ==
    /\ restarts < MaxRestarts
    /\ restarts' = restarts + 1
    /\ phase' = "start" /\ listed' = FALSE /\ toUpdate' = {} /\ remaining' = 0
    /\ temp' = NoFile
    /\ link' = FALSE /\ toServer' = <<>> /\ toClient' = <<>>
    /\ UNCHANGED <<server, local, origin, breaks, fsErrors>>

-----------------------------------------------------------------------------
Server == Process_Handshake \/ Process_UpdateFile \/ Process_UpdateFileData

Client == \/ Connect \/ Net_OnUpdateFilesResponse \/ Net_OnUpdateFileData
          \/ RenameTempFile \/ Net_OnDisconnect \/ Process

Next == \/ Server \/ Client
        \/ CantConnect \/ FileSystemError \/ ConnectionBreaks \/ Restart

Spec == Init /\ [][Next]_vars

(* Both programs go on handling what arrives.                              *)
FairSpec == Spec /\ WF_vars(Server) /\ WF_vars(Client)

-----------------------------------------------------------------------------
(* Properties.                                                             *)

(* Type correctness of the connection's and the updater's state; a file    *)
(* that is being fetched has its temporary file open.                      *)
TypeOK ==
    /\ {link, handshake, graceful, listed} \subseteq BOOLEAN
    /\ \A n \in DOMAIN toServer : toServer[n].type \in {"handshake", "getFile", "getData"}
    /\ \A n \in DOMAIN toClient : toClient[n].type \in {"list", "data", "disconnect"}
    /\ updFile \in {0} \cup Files /\ portion \in Nat
    /\ phase \in {"start", "connected", "rename", "aborted", "ended"}
    /\ toUpdate \subseteq Files /\ remaining \in Nat
    /\ phase \in {"connected", "rename"} => (temp # NoFile <=> toUpdate # {})
    /\ DOMAIN local = Files /\ DOMAIN origin = Files

(* A file under its real name is what it was, or missing, or exactly the   *)
(* server's: a break of the connection, an error or a restart in the       *)
(* middle of the update never leaves a torn file that a later session      *)
(* would take for the right one.                                           *)
NeverTorn == \A i \in Files : local[i] \in {origin[i], NoFile, Content(i)}

(* When the updater says it is ready, every file has the server's size,    *)
(* and those that were fetched have the server's bytes.                    *)
ReadyIsComplete ==
    Ready => \A i \in Files : /\ local[i] # NoFile
                              /\ Len(local[i]) = Sizes[i]
                              /\ local[i] \in {origin[i], Content(i)}

(* The client's record of what is missing agrees with the server's         *)
(* position: nothing is sent twice, left out or sent beyond the end.       *)
PortionsInStep ==
    phase = "connected" /\ link /\ toUpdate # {} =>
        LET i == Front(toUpdate)
            inFlight == {n \in DOMAIN toClient : toClient[n].type = "data"}
        IN  /\ Len(temp) + remaining = Sizes[i]
            /\ \A n \in inFlight :
                  toClient[n].bytes = SubSeq(Content(i), Len(temp) + 1,
                                             Len(temp) + Len(toClient[n].bytes))

(* The client asks for another portion only of a file that the server is   *)
(* sending: "Wrong update call" is never the answer to an updater.         *)
NoWrongCall == ~WrongUpdateCall

(* A size that the server takes for one portion more than there is.        *)
WholePortions(i) == Sizes[i] > 0 /\ Sizes[i] % SendSize = 0

(* The same for all files but those of whole portions, and with any        *)
(* history of breaks, errors and restarts: those are the only files in the *)
(* middle of which an updater is sent away.                                *)
WrongCallOnlyOnWholePortions ==
    WrongUpdateCall => toUpdate # {} /\ WholePortions(Front(toUpdate))

(* Server and client stay in step, with the one exception of portions.     *)
InStep == PortionsInStep /\ WrongCallOnlyOnWholePortions

(* The updater does not wait for ever: it gets ready or aborts, also when  *)
(* the connection breaks or a file operation fails.                        *)
Settles == phase = "connected" ~> phase \in {"aborted", "ended", "start"}
=============================================================================
