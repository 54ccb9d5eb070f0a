----------------------------- MODULE Connection -----------------------------
(***************************************************************************)
(* One client's connection as the server drives it, from the accepted      *)
(* socket to the removal of its player: ClientConnection, NetConnectionImpl*)
(* and NetConnectionAsio (Source/Server), the jobs of FOServer's main      *)
(* worker that serve it, and the client's ServerConnection at the far end. *)
(*                                                                         *)
(* Two threads of the server share the connection: "main" runs the jobs,   *)
(* "io" runs the completion handlers of asio.  A step is a critical        *)
(* section of OutBufLocker or InBufLocker, one access of an atomic flag,   *)
(* or one event of the network, the clock or the client.  Messages are     *)
(* their kinds; sizes are counted in messages.                             *)
(***************************************************************************)
EXTENDS Integers, Sequences, SequencesExt

CONSTANTS FloodSize,  \* Settings.FloodSize
          Window,     \* what the network holds for a client that does not read
          MaxSends,   \* bound of the messages the client sends on its own
          MaxWrites   \* bound of what other jobs do to a player: writes and kicks

ASSUME BoundsAssumption == {FloodSize, Window, MaxSends, MaxWrites} \subseteq Nat

VARIABLES
    \* ClientConnection and its player, used by main only
    stage,           \* jobs (up to ProcessConnection), player (ProcessUnloginedPlayer,
                     \* ProcessPlayer), loop (the while of ProcessPlayer)
    todo,            \* what the job under way has yet to write; "hard" stands for HardDisconnect
    handling,        \* a message is being handled, with InBufLocker locked
    hung,            \* main waits for OutBufLocker, which it holds itself
    handshaken,      \* WasHandshake
    loggedIn,        \* the player is in the game
    graceful,        \* _gracefulDisconnected
    pingOk,          \* PingOk
    pingDue,         \* PingNextTime has come
    removed,         \* the player and its ClientConnection are gone
    \* NetConnection, used by both threads
    at,              \* where each thread is in Dispatch
    outBuf,          \* OutBuf
    inBuf,           \* InBuf from its read position on
    inRead,          \* what lies before the read position
    isDisconnected,  \* _isDisconnected
    writePending,    \* _writePending
    \* asio and the network
    sending,         \* what the outstanding async_write has yet to send
    written,         \* its result, until AsyncWrite runs: none, ok, error
    reading,         \* an async_read is outstanding
    link,            \* the socket is connected
    toClient,        \* sent, and not yet read by the client
    toServer,        \* sent by the client, and not yet read
    \* the client, and what is bounded
    clientUp,        \* the client reads and writes
    sends, writes

session == <<handshaken, loggedIn, graceful, pingOk, pingDue, removed>>
main == <<stage, todo, handling, hung>>
input == <<inBuf, inRead>>
write == <<writePending, sending, written>>
client == <<clientUp, sends>>
wires == <<link, toClient, toServer>>
vars == <<main, session, at, outBuf, input, isDisconnected, write, reading, wires, client, writes>>

Threads == {"main", "io"}
Asked == {"status", "handshake", "ping", "login", "call", "unknown"}
Written == {"files", "login", "data", "ping", "pong", "bye", "status"}

Init ==
    /\ stage = "jobs" /\ todo = <<>> /\ handling = FALSE /\ hung = FALSE
    /\ handshaken = FALSE /\ loggedIn = FALSE /\ graceful = FALSE
    /\ pingOk = TRUE /\ pingDue = TRUE /\ removed = FALSE
    /\ at = [t \in Threads |-> "idle"]
    /\ outBuf = <<>> /\ inBuf = <<>> /\ inRead = 0
    /\ isDisconnected = FALSE
    /\ writePending = FALSE /\ sending = <<>> /\ written = "none"
    /\ reading = TRUE
    /\ link = TRUE /\ toClient = <<>> /\ toServer = <<>>
    /\ clientUp = TRUE
    /\ sends = 0 /\ writes = 0

-----------------------------------------------------------------------------
(* NetConnection::Disconnect: the first call closes the socket, and what   *)
(* the client has not got yet may be lost.                                 *)
Disconnect ==
    /\ isDisconnected' = TRUE
    /\ link' = FALSE
    /\ toServer' = <<>>
    /\ IF isDisconnected THEN UNCHANGED toClient ELSE toClient' \in Prefixes(toClient)

(* NetConnectionImpl::Dispatch, up to DispatchImpl.  Only main enters here. *)
Dispatch ==
    /\ at["main"] = "dispatch"
    /\ at' = [at EXCEPT !["main"] = IF isDisconnected \/ outBuf = <<>> THEN "idle" ELSE "claim"]
    /\ UNCHANGED <<main, session, outBuf, input, isDisconnected, write, reading, wires, client, writes>>

Claim_Unchecked(t) ==
    /\ at[t] = "claim"
    /\ writePending' = TRUE
    /\ at' = [at EXCEPT ![t] = "send"]
    /\ UNCHANGED <<main, session, outBuf, input, isDisconnected, sending, written, reading, wires,
                   client, writes>>

(* DispatchImpl: one thread at a time may write.                           *)
Claim(t) ==
    /\ at[t] = "claim"
    /\ writePending' = TRUE
    /\ at' = [at EXCEPT ![t] = IF writePending THEN "idle" ELSE "send"]
    /\ UNCHANGED <<main, session, outBuf, input, isDisconnected, sending, written, reading, wires,
                   client, writes>>

Send_CutsOne(t) ==
    /\ at[t] = "send" /\ ~hung
    /\ outBuf # <<>>
    /\ outBuf' = Tail(outBuf)
    /\ sending' = IF isDisconnected THEN <<>> ELSE outBuf
    /\ written' = IF isDisconnected THEN "error" ELSE "none"
    /\ at' = [at EXCEPT ![t] = "idle"]
    /\ UNCHANGED <<main, session, input, isDisconnected, writePending, reading, wires, client, writes>>

(* SendCallback and async_write.  The compressor may leave the end of the  *)
(* buffer for the next time.  On a closed socket the write fails.          *)
Send(t) ==
    /\ at[t] = "send" /\ ~hung
    /\ \/ /\ outBuf = <<>>
          /\ at' = [at EXCEPT ![t] = "release"]
          /\ UNCHANGED <<outBuf, sending, written>>
       \/ \E n \in 1..Len(outBuf) :
             /\ outBuf' = SubSeq(outBuf, n + 1, Len(outBuf))
             /\ sending' = IF isDisconnected THEN <<>> ELSE SubSeq(outBuf, 1, n)
             /\ written' = IF isDisconnected THEN "error" ELSE "none"
             /\ at' = [at EXCEPT ![t] = "idle"]
    /\ UNCHANGED <<main, session, input, isDisconnected, writePending, reading, wires, client, writes>>

(* Nothing to send.  A disconnected socket is closed, once more.           *)
Release(t) ==
    /\ at[t] = "release"
    /\ writePending' = FALSE
    /\ at' = [at EXCEPT ![t] = "idle"]
    /\ UNCHANGED <<main, session, outBuf, input, isDisconnected, sending, written, reading, wires,
                   client, writes>>

-----------------------------------------------------------------------------
(* The io thread.                                                          *)

AsyncWrite ==
    /\ at["io"] = "idle" /\ written # "none"
    /\ writePending' = FALSE
    /\ written' = "none"
    /\ IF written = "ok"
       THEN at' = [at EXCEPT !["io"] = "claim"] /\ UNCHANGED <<isDisconnected, wires>>
       ELSE Disconnect /\ UNCHANGED at
    /\ UNCHANGED <<main, session, outBuf, input, sending, reading, client, writes>>

(* ReceiveCallback for n messages.  The flood test adds them to the read   *)
(* position, not to the end of what is already there.                      *)
Receive(n) ==
    IF inRead + n < FloodSize
    THEN /\ inBuf' = inBuf \o SubSeq(toServer, 1, n)
         /\ toServer' = SubSeq(toServer, n + 1, Len(toServer))
         /\ UNCHANGED <<inRead, isDisconnected, link, toClient>>
    ELSE inBuf' = <<>> /\ inRead' = 0 /\ Disconnect

AsyncRead ==
    /\ at["io"] = "idle" /\ reading /\ ~isDisconnected /\ ~handling
    /\ \E n \in 1..Len(toServer) : Receive(n)
    /\ UNCHANGED <<main, session, at, outBuf, write, reading, client, writes>>

AsyncReadError_Ignored ==
    /\ at["io"] = "idle" /\ reading /\ ~link
    /\ isDisconnected \/ toServer = <<>>
    /\ reading' = FALSE
    /\ UNCHANGED <<main, session, at, outBuf, input, isDisconnected, write, wires, client, writes>>

(* The peer has closed and all it sent is read, or the connection is lost, *)
(* or this side has closed the socket.                                     *)
AsyncReadError ==
    /\ at["io"] = "idle" /\ reading /\ ~link
    /\ isDisconnected \/ toServer = <<>>
    /\ reading' = FALSE
    /\ isDisconnected' = TRUE
    /\ UNCHANGED <<main, session, at, outBuf, input, write, wires, client, writes>>

-----------------------------------------------------------------------------
(* The main worker.                                                        *)

Free == at["main"] = "idle" /\ todo = <<>> /\ ~handling /\ ~hung /\ ~removed

Goto(s) == Free /\ stage' = s /\ UNCHANGED <<handling, hung>>

(* A block between CONNECTION_OUTPUT_BEGIN and CONNECTION_OUTPUT_END, which *)
(* writes one message and calls Dispatch.                                  *)
Output ==
    /\ at["main"] = "idle"
    /\ todo # <<>> /\ Head(todo) # "hard"
    /\ outBuf' = Append(outBuf, Head(todo))
    /\ todo' = Tail(todo)
    /\ at' = [at EXCEPT !["main"] = "dispatch"]
    /\ UNCHANGED <<stage, handling, hung, session, input, isDisconnected, write, reading, wires,
                   client, writes>>

HardDisconnect ==
    /\ at["main"] = "idle"
    /\ todo # <<>> /\ Head(todo) = "hard"
    /\ todo' = Tail(todo)
    /\ Disconnect
    /\ UNCHANGED <<stage, handling, hung, session, at, outBuf, input, write, reading, client, writes>>

(* The handler returns and InBufLocker is unlocked.                        *)
Handled ==
    /\ at["main"] = "idle" /\ handling /\ todo = <<>> /\ ~hung
    /\ handling' = FALSE
    /\ UNCHANGED <<stage, todo, hung, session, at, outBuf, input, isDisconnected, write, reading,
                   wires, client, writes>>

(* The other jobs write to the player.                                     *)
JobWrites ==
    /\ stage = "jobs" /\ loggedIn /\ writes < MaxWrites
    /\ Goto("jobs")
    /\ todo' = <<"data">>
    /\ writes' = writes + 1
    /\ UNCHANGED <<session, at, outBuf, input, isDisconnected, write, reading, wires, client>>

(* Another player's command kicks this one out.                            *)
KickedByCommand ==
    /\ stage = "jobs" /\ loggedIn /\ writes < MaxWrites
    /\ Goto("jobs")
    /\ todo' = <<"data", "bye">>
    /\ graceful' = TRUE
    /\ writes' = writes + 1
    /\ UNCHANGED <<handshaken, loggedIn, pingOk, pingDue, removed, at, outBuf, input, isDisconnected,
                   write, reading, wires, client>>

(* The same player has logged in through a new connection, which takes the *)
(* place of this one.                                                      *)
KickedByLogin ==
    /\ stage = "jobs" /\ loggedIn
    /\ Goto("jobs")
    /\ Disconnect
    /\ removed' = TRUE
    /\ UNCHANGED <<todo, handshaken, loggedIn, graceful, pingOk, pingDue, at, outBuf, input, write,
                   reading, client, writes>>

ProcessConnection_WaitsForAnswer ==
    /\ stage = "jobs"
    /\ Goto("player")
    /\ IF handshaken /\ pingDue /\ pingOk /\ ~isDisconnected
       THEN todo' = <<"ping">> /\ pingOk' = FALSE /\ pingDue' = FALSE
       ELSE UNCHANGED <<todo, pingOk, pingDue>>
    /\ UNCHANGED <<handshaken, loggedIn, graceful, removed, at, outBuf, input, isDisconnected,
                   write, reading, wires, client, writes>>

ProcessConnection_SparesGoodbye ==
    /\ stage = "jobs"
    /\ Goto("player")
    /\ IF handshaken /\ pingDue /\ ~isDisconnected /\ ~graceful
       THEN IF pingOk
            THEN todo' = <<"ping">> /\ pingOk' = FALSE /\ pingDue' = FALSE
            ELSE todo' = <<"hard">> /\ UNCHANGED <<pingOk, pingDue>>
       ELSE UNCHANGED <<todo, pingOk, pingDue>>
    /\ UNCHANGED <<handshaken, loggedIn, graceful, removed, at, outBuf, input, isDisconnected,
                   write, reading, wires, client, writes>>

(* ProcessConnection: a client that has said nothing of use for too long is *)
(* dropped, where the settings ask for it, and so is one whose last ping   *)
(* has not been answered when the next one is due.                         *)
ProcessConnection ==
    /\ stage = "jobs"
    /\ Goto("player")
    /\ \/ ~isDisconnected /\ todo' = <<"hard">> /\ UNCHANGED <<pingOk, pingDue>>
       \/ IF handshaken /\ pingDue /\ ~isDisconnected
          THEN IF pingOk
               THEN todo' = <<"ping">> /\ pingOk' = FALSE /\ pingDue' = FALSE
               ELSE todo' = <<"hard">> /\ UNCHANGED <<pingOk, pingDue>>
          ELSE UNCHANGED <<todo, pingOk, pingDue>>
    /\ UNCHANGED <<handshaken, loggedIn, graceful, removed, at, outBuf, input, isDisconnected,
                   write, reading, wires, client, writes>>

(* The player of a disconnected connection goes away.                      *)
RemovePlayer ==
    /\ stage = "player" /\ isDisconnected
    /\ Goto("jobs")
    /\ removed' = TRUE
    /\ UNCHANGED <<todo, handshaken, loggedIn, graceful, pingOk, pingDue, at, outBuf, input,
                   isDisconnected, write, reading, wires, client, writes>>

(* A connection that is being closed gracefully is not listened to.        *)
DropInput ==
    /\ stage = "player" /\ ~isDisconnected /\ graceful
    /\ Goto("jobs")
    /\ inBuf' = <<>> /\ inRead' = 0
    /\ UNCHANGED <<todo, session, at, outBuf, isDisconnected, write, reading, wires, client, writes>>

(* InBuf has nothing more, or the loop of ProcessPlayer ends because the   *)
(* last message has disconnected the player.                               *)
InputDone ==
    /\ \/ stage = "player" /\ ~isDisconnected /\ ~graceful /\ inBuf = <<>>
       \/ stage = "loop" /\ (isDisconnected \/ graceful \/ inBuf = <<>>)
    /\ Goto("jobs")
    /\ inRead' = IF isDisconnected \/ graceful THEN inRead ELSE 0
    /\ UNCHANGED <<todo, session, at, outBuf, inBuf, isDisconnected, write, reading, wires, client, writes>>

-----------------------------------------------------------------------------
(* The messages, each handled with InBufLocker locked.  An unlogined       *)
(* player's connection gets one message per pass, a player's all.          *)

Listens_Always == stage \in {"player", "loop"} /\ ~isDisconnected

Listens == stage \in {"player", "loop"} /\ ~isDisconnected /\ ~graceful

TakeMessage_NoShrink(kinds) ==
    /\ Free /\ Listens
    /\ inBuf # <<>> /\ Head(inBuf) \in kinds
    /\ inBuf' = Tail(inBuf)
    /\ inRead' = inRead + 1
    /\ handling' = TRUE
    /\ stage' = IF loggedIn THEN "loop" ELSE "jobs"

(* The buffer is shrunk, and the message read.                             *)
TakeMessage(kinds) ==
    /\ Free /\ Listens
    /\ inBuf # <<>> /\ Head(inBuf) \in kinds
    /\ inBuf' = Tail(inBuf)
    /\ inRead' = 1
    /\ handling' = TRUE
    /\ stage' = IF loggedIn THEN "loop" ELSE "jobs"

(* Process_Handshake.                                                      *)
Process_Handshake ==
    /\ TakeMessage({"handshake"}) /\ ~handshaken
    /\ todo' = <<"files">>
    /\ handshaken' = TRUE
    /\ UNCHANGED <<hung, loggedIn, graceful, pingOk, pingDue, removed, at, outBuf, isDisconnected,
                   write, reading, wires, client, writes>>

(* Process_Ping.                                                           *)
ClientAnswers ==
    /\ TakeMessage({"pong"}) /\ handshaken
    /\ pingOk' = TRUE /\ pingDue' = FALSE
    /\ UNCHANGED <<todo, hung, handshaken, loggedIn, graceful, removed, at, outBuf, isDisconnected,
                   write, reading, wires, client, writes>>

ClientAsks ==
    /\ TakeMessage({"ping"}) /\ handshaken
    /\ todo' = <<"pong">>
    /\ UNCHANGED <<hung, session, at, outBuf, isDisconnected, write, reading, wires, client, writes>>

(* Process_Login: accepted, refused, or accepted and then refused by the   *)
(* scripts.                                                                *)
Process_Login ==
    /\ TakeMessage({"login"}) /\ handshaken /\ ~loggedIn
    /\ \/ todo' = <<"login">> /\ loggedIn' = TRUE /\ UNCHANGED graceful
       \/ todo' \in {<<"bye">>, <<"data", "bye">>} /\ graceful' = TRUE /\ UNCHANGED loggedIn
       \/ todo' = <<"login", "data", "bye">> /\ graceful' = TRUE /\ loggedIn' = TRUE
    /\ UNCHANGED <<hung, handshaken, pingOk, pingDue, removed, at, outBuf, isDisconnected, write,
                   reading, wires, client, writes>>

(* The other handlers answer, stay silent, disconnect the player, or say   *)
(* goodbye, to which a command of the player himself adds a line.          *)
Process_Call ==
    /\ TakeMessage({"call"}) /\ handshaken
    /\ \/ todo' \in {<<>>, <<"data">>, <<"hard">>} /\ UNCHANGED graceful
       \/ todo' \in {<<"bye">>, <<"data", "bye", "data">>} /\ graceful' = TRUE
    /\ UNCHANGED <<hung, handshaken, loggedIn, pingOk, pingDue, removed, at, outBuf, isDisconnected,
                   write, reading, wires, client, writes>>

(* The query of the server's status.  OutBufLocker is locked when          *)
(* DisableCompression calls Dispatch, which locks it again: the mutex      *)
(* blocks for ever, or lets its owner in as some libraries do.  A          *)
(* disconnected connection returns before that.                            *)
Process_Status ==
    /\ TakeMessage({"status"}) /\ ~handshaken
    /\ \/ hung' = TRUE /\ UNCHANGED todo
       \/ todo' = <<"status", "hard">> /\ UNCHANGED hung
    /\ UNCHANGED <<session, at, outBuf, isDisconnected, write, reading, wires, client, writes>>

SkipMsg ==
    /\ TakeMessage(IF handshaken THEN {"status", "handshake"} \cup (IF loggedIn THEN {"login"} ELSE {})
                   ELSE {"ping", "pong", "login", "call"})
    /\ UNCHANGED <<todo, hung, session, at, outBuf, isDisconnected, write, reading, wires, client, writes>>

(* NeedProcess throws, for a message that is not one.                      *)
UnknownMessage ==
    /\ Free /\ Listens
    /\ inBuf # <<>> /\ Head(inBuf) = "unknown"
    /\ inBuf' = <<>> /\ inRead' = 0
    /\ stage' = "jobs"
    /\ todo' = <<"hard">>
    /\ UNCHANGED <<handling, hung, session, at, outBuf, isDisconnected, write, reading, wires,
                   client, writes>>

-----------------------------------------------------------------------------
(* The clock and the network.                                              *)

PingTimeComes ==
    /\ ~pingDue
    /\ pingDue' = TRUE
    /\ UNCHANGED <<main, handshaken, loggedIn, graceful, pingOk, removed, at, outBuf, input,
                   isDisconnected, write, reading, wires, client, writes>>

Transmit ==
    /\ sending # <<>> /\ link /\ Len(toClient) < Window
    /\ toClient' = Append(toClient, Head(sending))
    /\ sending' = Tail(sending)
    /\ written' = IF Len(sending) = 1 THEN "ok" ELSE "none"
    /\ UNCHANGED <<main, session, at, outBuf, input, isDisconnected, writePending, reading, link,
                   toServer, client, writes>>

(* A write to a peer that has gone is lost, and its failure may not show   *)
(* at once; on this side's closed socket it is aborted.                    *)
WriteFails ==
    /\ sending # <<>> /\ ~link
    /\ sending' = <<>>
    /\ written' \in (IF isDisconnected THEN {"error"} ELSE {"ok", "error"})
    /\ UNCHANGED <<main, session, at, outBuf, input, isDisconnected, writePending, reading, wires,
                   client, writes>>

(* The connection is lost, or the client closes it: something of what is   *)
(* under way may still arrive.                                             *)
LinkBreaks ==
    /\ link
    /\ link' = FALSE
    /\ toClient' \in Prefixes(toClient)
    /\ toServer' \in Prefixes(toServer)
    /\ UNCHANGED <<main, session, at, outBuf, input, isDisconnected, write, reading, client, writes>>

-----------------------------------------------------------------------------
(* The client.                                                             *)

ClientSends ==
    /\ clientUp /\ link /\ sends < MaxSends
    /\ \E m \in Asked : toServer' = Append(toServer, m)
    /\ sends' = sends + 1
    /\ UNCHANGED <<main, session, at, outBuf, input, isDisconnected, write, reading, link, toClient,
                   clientUp, writes>>

(* Net_OnPing, NETMSG_DISCONNECT, and the handlers that do not write.      *)
ClientReads ==
    /\ clientUp /\ toClient # <<>>
    /\ LET m == Head(toClient)
       IN  /\ toServer' = IF m = "ping" /\ link THEN Append(toServer, "pong") ELSE toServer
           /\ IF m = "bye"
              THEN link' = FALSE /\ toClient' = <<>> /\ clientUp' = FALSE
              ELSE toClient' = Tail(toClient) /\ UNCHANGED <<link, clientUp>>
    /\ UNCHANGED <<main, session, at, outBuf, input, isDisconnected, write, reading, sends, writes>>

(* The client's program stops answering, and its socket stays open.        *)
ClientStops ==
    /\ clientUp
    /\ clientUp' = FALSE
    /\ UNCHANGED <<main, session, at, outBuf, input, isDisconnected, write, reading, wires,
                   sends, writes>>

-----------------------------------------------------------------------------
Writing(t) == Claim(t) \/ Send(t) \/ Release(t)

Messages == \/ Process_Handshake \/ ClientAnswers \/ ClientAsks \/ Process_Login \/ Process_Call
            \/ Process_Status \/ SkipMsg \/ UnknownMessage

Jobs == \/ JobWrites \/ KickedByCommand \/ KickedByLogin \/ ProcessConnection
        \/ RemovePlayer \/ DropInput \/ InputDone \/ Messages

Main == Jobs \/ Output \/ HardDisconnect \/ Handled \/ Dispatch \/ Writing("main")

Io == AsyncRead \/ AsyncReadError \/ AsyncWrite \/ Writing("io")

Client == ClientSends \/ ClientReads \/ ClientStops

Next == Main \/ Io \/ Client \/ PingTimeComes \/ Transmit \/ WriteFails \/ LinkBreaks

Spec == Init /\ [][Next]_vars

(* Both threads go on, time passes, and the operating system reports the   *)
(* failure of a write.  Nothing is assumed of the client, nor of the       *)
(* network while it holds.                                                 *)
FairSpec == /\ Spec
            /\ WF_vars(Main) /\ WF_vars(Io)
            /\ WF_vars(PingTimeComes) /\ WF_vars(WriteFails)

-----------------------------------------------------------------------------
(* Properties.                                                             *)

MainType == /\ stage \in {"jobs", "player", "loop"}
            /\ todo \in Seq(Written \cup {"hard"})
            /\ handling \in BOOLEAN /\ hung \in BOOLEAN

SessionType == /\ handshaken \in BOOLEAN /\ loggedIn \in BOOLEAN /\ graceful \in BOOLEAN
               /\ pingOk \in BOOLEAN /\ pingDue \in BOOLEAN /\ removed \in BOOLEAN

InputType == inBuf \in Seq(Asked \cup {"pong"}) /\ inRead \in {0, 1} /\ reading \in BOOLEAN

OutputType == /\ at \in [Threads -> {"idle", "dispatch", "claim", "send", "release"}]
              /\ outBuf \in Seq(Written)
              /\ writePending \in BOOLEAN
              /\ sending \in Seq(Written) /\ written \in {"none", "ok", "error"}

WiresType == /\ isDisconnected \in BOOLEAN /\ link \in BOOLEAN
             /\ toClient \in Seq(Written) /\ toServer \in Seq(Asked \cup {"pong"})

ClientType == clientUp \in BOOLEAN /\ sends \in Nat /\ writes \in Nat

(* Type correctness of the connection, the network and the client.         *)
TypeOK == MainType /\ SessionType /\ InputType /\ OutputType /\ WiresType /\ ClientType

(* _writePending is raised exactly while one party has the buffer that     *)
(* goes to the socket: the thread that fills it, or the write under way.   *)
(* Never two of them: bytes would be mixed on the wire.                    *)
Owns(t) == at[t] \in {"send", "release"}
WriteUnderWay == sending # <<>> \/ written # "none"

OneWriter ==
    /\ writePending <=> WriteUnderWay \/ \E t \in Threads : Owns(t)
    /\ \A t \in Threads : Owns(t) => ~WriteUnderWay
    /\ ~(Owns("main") /\ Owns("io"))
    /\ sending = <<>> \/ written = "none"

(* What is written and not read by the client, while it can still get there. *)
Queue == toClient \o (IF link THEN sending \o outBuf ELSE <<>>)

(* The messages reach the client as MessageChannel promises, whichever     *)
(* thread sends them and wherever the connection breaks.                   *)
Channel == INSTANCE MessageChannel WITH Messages <- Written, queue <- Queue, open <- link

ChannelSpec == Channel!Spec

(* Once the server has said goodbye, or is about to, no message of the     *)
(* client has any effect: none is handled, nobody logs in by one, and none *)
(* passes for a sign of life.                                              *)
GoodbyeIsFinal == [][graceful => /\ handling' => handling
                                 /\ loggedIn' = loggedIn
                                 /\ pingOk' => pingOk]_vars

(* What is written leaves OutBuf, also when the thread that wrote it finds *)
(* the other one in the middle of giving up the right to send: the next    *)
(* ping carries it along, or the connection is found dead.  While new      *)
(* messages keep coming OutBuf need not get empty, but a part of it goes   *)
(* out again and again.                                                    *)
NothingStays ==
    \/ []<>(outBuf = <<>> \/ isDisconnected)
    \/ []<><<Len(outBuf') < Len(outBuf)>>_vars

(* A client that is of no more use is removed: one that has said hello and *)
(* hangs, and one that was said goodbye, even when it never reads the      *)
(* message and goes on sending.                                            *)
UselessIsRemoved == (graceful \/ (handshaken /\ ~clientUp)) ~> removed

(* A broken connection is noticed, whatever was under way, and its player  *)
(* removed; a server that hangs on itself removes nobody.                  *)
BrokenIsRemoved == ~link ~> removed \/ hung

(* No dead connection stays, whichever end it died of.                     *)
DeadAreRemoved == UselessIsRemoved /\ BrokenIsRemoved

(* A status query that has arrived is answered, or its connection breaks.  *)
StatusAnswered ==
    (inBuf # <<>> /\ Head(inBuf) = "status" /\ ~handshaken)
        ~> (Contains(outBuf, "status") \/ isDisconnected)
=============================================================================
