-------------------------- MODULE ConnectionProofs --------------------------
(***************************************************************************)
(* Proofs about Connection for any limits of the input, of the network and *)
(* of what client and server write.                                        *)
(***************************************************************************)
EXTENDS Connection, SequenceTheorems, TLAPS

(* A connection that this side has given up is closed.                     *)
IInv == TypeOK /\ OneWriter /\ (isDisconnected => ~link)

-----------------------------------------------------------------------------
(* Pieces of well-typed sequences.                                         *)

LEMMA PrefixLemma == ASSUME NEW S, NEW s \in Seq(S), NEW t \in Prefixes(s)
                     PROVE  t \in Seq(S)
<1>1. PICK n \in 0..Len(s) : t = SubSeq(s, 1, n)
  BY DEF Prefixes
<1>2. QED
  BY <1>1, SubSeqProperties

LEMMA RestLemma == ASSUME NEW S, NEW s \in Seq(S), NEW n \in 1..Len(s)
                   PROVE  /\ SubSeq(s, 1, n) \in Seq(S)
                          /\ SubSeq(s, n + 1, Len(s)) \in Seq(S)
                          /\ SubSeq(s, 1, n) # <<>>
                          /\ s # <<>>
BY SubSeqProperties, LenProperties

LEMMA HeadTailLemma == ASSUME NEW S, NEW s \in Seq(S), s # <<>>
                       PROVE  Head(s) \in S /\ Tail(s) \in Seq(S)
BY HeadTailProperties

(* What a job may have to write.                                           *)
LEMMA ScriptLemma ==
    LET S == Written \cup {"hard"}
    IN  /\ <<>> \in Seq(S)
        /\ \A a \in S : <<a>> \in Seq(S)
        /\ \A a, b \in S : <<a, b>> \in Seq(S)
        /\ \A a, b, c \in S : <<a, b, c>> \in Seq(S)
OBVIOUS

-----------------------------------------------------------------------------
(* A part of the state that a step leaves alone keeps its types.           *)
LEMMA FrameLemma ==
    ASSUME TypeOK
    PROVE  /\ UNCHANGED main => MainType'
           /\ UNCHANGED session => SessionType'
           /\ UNCHANGED <<input, reading>> => InputType'
           /\ UNCHANGED <<at, outBuf, write>> => OutputType'
           /\ UNCHANGED <<isDisconnected, wires>> => WiresType'
           /\ UNCHANGED <<client, writes>> => ClientType'
<1>1. UNCHANGED main => MainType'
  BY DEF TypeOK, MainType, main
<1>2. UNCHANGED session => SessionType'
  BY DEF TypeOK, SessionType, session
<1>3. UNCHANGED <<input, reading>> => InputType'
  BY DEF TypeOK, InputType, input
<1>4. UNCHANGED <<at, outBuf, write>> => OutputType'
  BY DEF TypeOK, OutputType, write
<1>5. UNCHANGED <<isDisconnected, wires>> => WiresType'
  BY DEF TypeOK, WiresType, wires
<1>6. UNCHANGED <<client, writes>> => ClientType'
  BY DEF TypeOK, ClientType, client
<1>7. QED
  BY <1>1, <1>2, <1>3, <1>4, <1>5, <1>6

LEMMA InitLemma == Init => IInv
<1> SUFFICES ASSUME Init PROVE IInv
  OBVIOUS
<1>1. \A t \in Threads : at[t] = "idle"
  BY DEF Init
<1>2. MainType /\ SessionType /\ InputType /\ OutputType /\ WiresType /\ ClientType
  BY EmptySeq DEF Init, MainType, SessionType, InputType, OutputType, WiresType, ClientType
<1>3. OneWriter
  BY <1>1 DEF Init, OneWriter, Owns, WriteUnderWay, Threads
<1>4. QED
  BY <1>2, <1>3 DEF Init, IInv, TypeOK

LEMMA TypeDisconnect == ASSUME TypeOK, Disconnect PROVE WiresType'
BY PrefixLemma, EmptySeq DEF TypeOK, WiresType, Disconnect

LEMMA TypeWriting == ASSUME TypeOK, NEW t \in Threads, Writing(t) PROVE TypeOK'
<1>1. CASE Claim(t)
  <2>1. OutputType'
    BY <1>1 DEF Claim, TypeOK, OutputType
  <2>2. MainType' /\ SessionType' /\ InputType' /\ WiresType' /\ ClientType'
    BY <1>1, FrameLemma DEF Claim
  <2>3. QED
    BY <2>1, <2>2 DEF TypeOK
<1>2. CASE Release(t)
  <2>1. OutputType'
    BY <1>2 DEF Release, TypeOK, OutputType
  <2>2. MainType' /\ SessionType' /\ InputType' /\ WiresType' /\ ClientType'
    BY <1>2, FrameLemma DEF Release
  <2>3. QED
    BY <2>1, <2>2 DEF TypeOK
<1>3. CASE Send(t)
  <2>1. ASSUME outBuf = <<>>, at' = [at EXCEPT ![t] = "release"],
               UNCHANGED <<outBuf, sending, written>>
        PROVE  OutputType'
    BY <1>3, <2>1 DEF Send, TypeOK, OutputType
  <2>2. ASSUME NEW n \in 1..Len(outBuf),
               outBuf' = SubSeq(outBuf, n + 1, Len(outBuf)),
               sending' = IF isDisconnected THEN <<>> ELSE SubSeq(outBuf, 1, n),
               written' = IF isDisconnected THEN "error" ELSE "none",
               at' = [at EXCEPT ![t] = "idle"]
        PROVE  OutputType'
    <3>1. outBuf' \in Seq(Written) /\ sending' \in Seq(Written)
      BY <2>2, RestLemma, EmptySeq DEF TypeOK, OutputType
    <3>2. QED
      BY <1>3, <2>2, <3>1 DEF Send, TypeOK, OutputType
  <2>3. OutputType'
    BY <1>3, <2>1, <2>2 DEF Send
  <2>4. MainType' /\ SessionType' /\ InputType' /\ WiresType' /\ ClientType'
    BY <1>3, FrameLemma DEF Send
  <2>5. QED
    BY <2>3, <2>4 DEF TypeOK
<1>4. QED
  BY <1>1, <1>2, <1>3 DEF Writing

LEMMA TypeIo == ASSUME TypeOK, Io PROVE TypeOK'
<1>1. CASE AsyncRead
  <2>1. PICK n \in 1..Len(toServer) : Receive(n)
    BY <1>1 DEF AsyncRead
  <2>2. /\ SubSeq(toServer, 1, n) \in Seq(Asked \cup {"pong"})
        /\ SubSeq(toServer, n + 1, Len(toServer)) \in Seq(Asked \cup {"pong"})
    BY RestLemma DEF TypeOK, WiresType
  <2>3. InputType'
    <3>1. inBuf \o SubSeq(toServer, 1, n) \in Seq(Asked \cup {"pong"})
      BY <2>2, ConcatProperties DEF TypeOK, InputType
    <3>2. inBuf' \in Seq(Asked \cup {"pong"}) /\ inRead' \in {0, 1}
      BY <2>1, <3>1, EmptySeq DEF Receive, TypeOK, InputType
    <3>3. QED
      BY <1>1, <3>2 DEF AsyncRead, TypeOK, InputType
  <2>4. WiresType'
    BY <2>1, <2>2, TypeDisconnect DEF Receive, TypeOK, WiresType
  <2>5. MainType' /\ SessionType' /\ OutputType' /\ ClientType'
    BY <1>1, FrameLemma DEF AsyncRead
  <2>6. QED
    BY <2>3, <2>4, <2>5 DEF TypeOK
<1>2. CASE AsyncReadError
  <2>1. InputType'
    BY <1>2 DEF AsyncReadError, TypeOK, InputType, input
  <2>2. WiresType'
    BY <1>2 DEF AsyncReadError, TypeOK, WiresType, wires
  <2>3. MainType' /\ SessionType' /\ OutputType' /\ ClientType'
    BY <1>2, FrameLemma DEF AsyncReadError
  <2>4. QED
    BY <2>1, <2>2, <2>3 DEF TypeOK
<1>3. CASE AsyncWrite
  <2>1. OutputType'
    BY <1>3 DEF AsyncWrite, TypeOK, OutputType
  <2>2. WiresType'
    BY <1>3, TypeDisconnect DEF AsyncWrite, TypeOK, WiresType, wires
  <2>3. MainType' /\ SessionType' /\ InputType' /\ ClientType'
    BY <1>3, FrameLemma DEF AsyncWrite
  <2>4. QED
    BY <2>1, <2>2, <2>3 DEF TypeOK
<1>4. QED
  BY <1>1, <1>2, <1>3, TypeWriting DEF Io, Threads

LEMMA TypeMessages == ASSUME TypeOK, Messages PROVE TypeOK'
<1>1. inBuf # <<>> => Tail(inBuf) \in Seq(Asked \cup {"pong"})
  BY HeadTailLemma DEF TypeOK, InputType
<1>2. ASSUME NEW kinds, TakeMessage(kinds), UNCHANGED reading PROVE InputType'
  BY <1>1, <1>2 DEF TakeMessage, TypeOK, InputType
<1>3. ASSUME NEW kinds, TakeMessage(kinds)
      PROVE  stage' \in {"jobs", "player", "loop"} /\ handling' \in BOOLEAN
  BY <1>3 DEF TakeMessage
<1>4. CASE Process_Handshake
  <2>1. InputType'
    BY <1>4, <1>2 DEF Process_Handshake
  <2>2. MainType'
    BY <1>4, <1>3 DEF Process_Handshake, TypeOK, MainType, Written
  <2>3. SessionType'
    BY <1>4 DEF Process_Handshake, TypeOK, SessionType, session
  <2>4. OutputType' /\ WiresType' /\ ClientType'
    BY <1>4, FrameLemma DEF Process_Handshake
  <2>5. QED
    BY <2>1, <2>2, <2>3, <2>4 DEF TypeOK
<1>5. CASE ClientAnswers
  <2>1. InputType'
    BY <1>5, <1>2 DEF ClientAnswers
  <2>2. MainType'
    BY <1>5, <1>3 DEF ClientAnswers, TypeOK, MainType, Written
  <2>3. SessionType'
    BY <1>5 DEF ClientAnswers, TypeOK, SessionType, session
  <2>4. OutputType' /\ WiresType' /\ ClientType'
    BY <1>5, FrameLemma DEF ClientAnswers
  <2>5. QED
    BY <2>1, <2>2, <2>3, <2>4 DEF TypeOK
<1>6. CASE ClientAsks
  <2>1. InputType'
    BY <1>6, <1>2 DEF ClientAsks
  <2>2. MainType'
    BY <1>6, <1>3 DEF ClientAsks, TypeOK, MainType, Written
  <2>3. SessionType' /\ OutputType' /\ WiresType' /\ ClientType'
    BY <1>6, FrameLemma DEF ClientAsks
  <2>4. QED
    BY <2>1, <2>2, <2>3 DEF TypeOK
<1>7. CASE Process_Login
  <2>1. InputType'
    BY <1>7, <1>2 DEF Process_Login
  <2>2. MainType'
    <3>1. todo' \in Seq(Written \cup {"hard"})
      BY <1>7, ScriptLemma DEF Process_Login, TypeOK, MainType, Written
    <3>2. QED
      BY <1>7, <1>3, <3>1 DEF Process_Login, TypeOK, MainType
  <2>3. SessionType'
    BY <1>7 DEF Process_Login, TypeOK, SessionType, session
  <2>4. OutputType' /\ WiresType' /\ ClientType'
    BY <1>7, FrameLemma DEF Process_Login
  <2>5. QED
    BY <2>1, <2>2, <2>3, <2>4 DEF TypeOK
<1>8. CASE Process_Call
  <2>1. InputType'
    BY <1>8, <1>2 DEF Process_Call
  <2>2. MainType'
    <3>1. todo' \in Seq(Written \cup {"hard"})
      BY <1>8, ScriptLemma DEF Process_Call, TypeOK, MainType, Written
    <3>2. QED
      BY <1>8, <1>3, <3>1 DEF Process_Call, TypeOK, MainType
  <2>3. SessionType'
    BY <1>8 DEF Process_Call, TypeOK, SessionType, session
  <2>4. OutputType' /\ WiresType' /\ ClientType'
    BY <1>8, FrameLemma DEF Process_Call
  <2>5. QED
    BY <2>1, <2>2, <2>3, <2>4 DEF TypeOK
<1>9. CASE Process_Status
  <2>1. InputType'
    BY <1>9, <1>2 DEF Process_Status
  <2>2. MainType'
    <3>1. todo' \in Seq(Written \cup {"hard"})
      BY <1>9, ScriptLemma DEF Process_Status, TypeOK, MainType, Written
    <3>2. QED
      BY <1>9, <1>3, <3>1 DEF Process_Status, TypeOK, MainType
  <2>3. SessionType' /\ OutputType' /\ WiresType' /\ ClientType'
    BY <1>9, FrameLemma DEF Process_Status
  <2>4. QED
    BY <2>1, <2>2, <2>3 DEF TypeOK
<1>10. CASE SkipMsg
  <2>1. InputType'
    BY <1>10, <1>2 DEF SkipMsg
  <2>2. MainType'
    BY <1>10, <1>3 DEF SkipMsg, TypeOK, MainType, Written
  <2>3. SessionType' /\ OutputType' /\ WiresType' /\ ClientType'
    BY <1>10, FrameLemma DEF SkipMsg
  <2>4. QED
    BY <2>1, <2>2, <2>3 DEF TypeOK
<1>11. CASE UnknownMessage
  <2>1. InputType'
    BY <1>11, EmptySeq DEF UnknownMessage, TypeOK, InputType, input
  <2>2. MainType'
    BY <1>11 DEF UnknownMessage, TypeOK, MainType, Written
  <2>3. SessionType' /\ OutputType' /\ WiresType' /\ ClientType'
    BY <1>11, FrameLemma DEF UnknownMessage
  <2>4. QED
    BY <2>1, <2>2, <2>3 DEF TypeOK
<1>12. QED
  BY <1>4, <1>5, <1>6, <1>7, <1>8, <1>9, <1>10, <1>11 DEF Messages

LEMMA TypeMain == ASSUME TypeOK, Main PROVE TypeOK'
<1>1. CASE JobWrites
  <2>1. MainType'
    BY <1>1 DEF JobWrites, TypeOK, MainType, Goto, Written
  <2>2. ClientType'
    BY <1>1 DEF JobWrites, TypeOK, ClientType, client
  <2>3. SessionType' /\ InputType' /\ OutputType' /\ WiresType'
    BY <1>1, FrameLemma DEF JobWrites
  <2>4. QED
    BY <2>1, <2>2, <2>3 DEF TypeOK
<1>2. CASE KickedByCommand
  <2>1. MainType'
    BY <1>2 DEF KickedByCommand, TypeOK, MainType, Goto, Written
  <2>2. SessionType'
    BY <1>2 DEF KickedByCommand, TypeOK, SessionType
  <2>3. ClientType'
    BY <1>2 DEF KickedByCommand, TypeOK, ClientType, client
  <2>4. InputType' /\ OutputType' /\ WiresType'
    BY <1>2, FrameLemma DEF KickedByCommand
  <2>5. QED
    BY <2>1, <2>2, <2>3, <2>4 DEF TypeOK
<1>3. CASE KickedByLogin
  <2>1. MainType'
    BY <1>3 DEF KickedByLogin, TypeOK, MainType, Goto
  <2>2. SessionType'
    BY <1>3 DEF KickedByLogin, TypeOK, SessionType
  <2>3. WiresType'
    BY <1>3, TypeDisconnect DEF KickedByLogin, TypeOK, WiresType
  <2>4. InputType' /\ OutputType' /\ ClientType'
    BY <1>3, FrameLemma DEF KickedByLogin
  <2>5. QED
    BY <2>1, <2>2, <2>3, <2>4 DEF TypeOK
<1>4. CASE ProcessConnection
  <2>1. MainType'
    <3>1. todo' \in Seq(Written \cup {"hard"})
      BY <1>4, ScriptLemma DEF ProcessConnection, TypeOK, MainType, Written
    <3>2. QED
      BY <1>4, <3>1 DEF ProcessConnection, TypeOK, MainType, Goto
  <2>2. SessionType'
    BY <1>4 DEF ProcessConnection, TypeOK, SessionType
  <2>3. InputType' /\ OutputType' /\ WiresType' /\ ClientType'
    BY <1>4, FrameLemma DEF ProcessConnection
  <2>4. QED
    BY <2>1, <2>2, <2>3 DEF TypeOK
<1>5. CASE RemovePlayer
  <2>1. MainType'
    BY <1>5 DEF RemovePlayer, TypeOK, MainType, Goto
  <2>2. SessionType'
    BY <1>5 DEF RemovePlayer, TypeOK, SessionType
  <2>3. InputType' /\ OutputType' /\ WiresType' /\ ClientType'
    BY <1>5, FrameLemma DEF RemovePlayer
  <2>4. QED
    BY <2>1, <2>2, <2>3 DEF TypeOK
<1>6. CASE DropInput
  <2>1. MainType'
    BY <1>6 DEF DropInput, TypeOK, MainType, Goto
  <2>2. InputType'
    BY <1>6, EmptySeq DEF DropInput, TypeOK, InputType
  <2>3. SessionType' /\ OutputType' /\ WiresType' /\ ClientType'
    BY <1>6, FrameLemma DEF DropInput
  <2>4. QED
    BY <2>1, <2>2, <2>3 DEF TypeOK
<1>7. CASE InputDone
  <2>1. MainType'
    BY <1>7 DEF InputDone, TypeOK, MainType, Goto
  <2>2. InputType'
    BY <1>7 DEF InputDone, TypeOK, InputType
  <2>3. SessionType' /\ OutputType' /\ WiresType' /\ ClientType'
    BY <1>7, FrameLemma DEF InputDone
  <2>4. QED
    BY <2>1, <2>2, <2>3 DEF TypeOK
<1>8. CASE Output
  <2>1. todo # <<>> /\ Head(todo) \in Written /\ Tail(todo) \in Seq(Written \cup {"hard"})
    BY <1>8, HeadTailLemma DEF Output, TypeOK, MainType
  <2>2. outBuf' \in Seq(Written)
    BY <1>8, <2>1, AppendProperties DEF Output, TypeOK, OutputType
  <2>3. MainType'
    BY <1>8, <2>1 DEF Output, TypeOK, MainType
  <2>4. OutputType'
    BY <1>8, <2>2 DEF Output, TypeOK, OutputType, write
  <2>5. SessionType' /\ InputType' /\ WiresType' /\ ClientType'
    BY <1>8, FrameLemma DEF Output
  <2>6. QED
    BY <2>3, <2>4, <2>5 DEF TypeOK
<1>9. CASE HardDisconnect
  <2>1. Tail(todo) \in Seq(Written \cup {"hard"})
    BY <1>9, HeadTailLemma DEF HardDisconnect, TypeOK, MainType
  <2>2. MainType'
    BY <1>9, <2>1 DEF HardDisconnect, TypeOK, MainType
  <2>3. WiresType'
    BY <1>9, TypeDisconnect DEF HardDisconnect
  <2>4. SessionType' /\ InputType' /\ OutputType' /\ ClientType'
    BY <1>9, FrameLemma DEF HardDisconnect
  <2>5. QED
    BY <2>2, <2>3, <2>4 DEF TypeOK
<1>10. CASE Handled
  <2>1. MainType'
    BY <1>10 DEF Handled, TypeOK, MainType
  <2>2. SessionType' /\ InputType' /\ OutputType' /\ WiresType' /\ ClientType'
    BY <1>10, FrameLemma DEF Handled
  <2>3. QED
    BY <2>1, <2>2 DEF TypeOK
<1>11. CASE Dispatch
  <2>1. OutputType'
    BY <1>11 DEF Dispatch, TypeOK, OutputType, write
  <2>2. MainType' /\ SessionType' /\ InputType' /\ WiresType' /\ ClientType'
    BY <1>11, FrameLemma DEF Dispatch
  <2>3. QED
    BY <2>1, <2>2 DEF TypeOK
<1>12. CASE Writing("main")
  BY <1>12, TypeWriting DEF Threads
<1>13. CASE Messages
  BY <1>13, TypeMessages
<1>14. QED
  BY <1>1, <1>2, <1>3, <1>4, <1>5, <1>6, <1>7, <1>8, <1>9, <1>10, <1>11, <1>12, <1>13
  DEF Main, Jobs

LEMMA TypeOutside == ASSUME TypeOK,
                            Client \/ PingTimeComes \/ Transmit \/ WriteFails \/ LinkBreaks
                     PROVE  TypeOK'
<1>1. CASE ClientSends
  <2>1. PICK m \in Asked : toServer' = Append(toServer, m)
    BY <1>1 DEF ClientSends
  <2>2. toServer' \in Seq(Asked \cup {"pong"})
    BY <2>1, AppendProperties DEF TypeOK, WiresType
  <2>3. WiresType' /\ ClientType'
    BY <1>1, <2>2 DEF ClientSends, TypeOK, WiresType, ClientType
  <2>4. MainType' /\ SessionType' /\ InputType' /\ OutputType'
    BY <1>1, FrameLemma DEF ClientSends
  <2>5. QED
    BY <2>3, <2>4 DEF TypeOK
<1>2. CASE ClientReads
  <2>1. toServer' \in Seq(Asked \cup {"pong"})
    BY <1>2, AppendProperties DEF ClientReads, TypeOK, WiresType
  <2>2. toClient' \in Seq(Written)
    BY <1>2, HeadTailLemma, EmptySeq DEF ClientReads, TypeOK, WiresType
  <2>3. link' \in BOOLEAN /\ clientUp' \in BOOLEAN
    BY <1>2 DEF ClientReads, TypeOK, WiresType, ClientType
  <2>4. WiresType' /\ ClientType'
    BY <1>2, <2>1, <2>2, <2>3 DEF ClientReads, TypeOK, WiresType, ClientType
  <2>5. MainType' /\ SessionType' /\ InputType' /\ OutputType'
    BY <1>2, FrameLemma DEF ClientReads
  <2>6. QED
    BY <2>4, <2>5 DEF TypeOK
<1>3. CASE ClientStops
  <2>1. ClientType'
    BY <1>3 DEF ClientStops, TypeOK, ClientType
  <2>2. MainType' /\ SessionType' /\ InputType' /\ OutputType' /\ WiresType'
    BY <1>3, FrameLemma DEF ClientStops
  <2>3. QED
    BY <2>1, <2>2 DEF TypeOK
<1>4. CASE PingTimeComes
  <2>1. SessionType'
    BY <1>4 DEF PingTimeComes, TypeOK, SessionType
  <2>2. MainType' /\ InputType' /\ OutputType' /\ WiresType' /\ ClientType'
    BY <1>4, FrameLemma DEF PingTimeComes
  <2>3. QED
    BY <2>1, <2>2 DEF TypeOK
<1>5. CASE Transmit
  <2>1. Head(sending) \in Written /\ sending' \in Seq(Written)
    BY <1>5, HeadTailLemma DEF Transmit, TypeOK, OutputType
  <2>2. toClient' \in Seq(Written)
    BY <1>5, <2>1, AppendProperties DEF Transmit, TypeOK, WiresType
  <2>3. OutputType'
    BY <1>5, <2>1 DEF Transmit, TypeOK, OutputType
  <2>4. WiresType'
    BY <1>5, <2>2 DEF Transmit, TypeOK, WiresType
  <2>5. MainType' /\ SessionType' /\ InputType' /\ ClientType'
    BY <1>5, FrameLemma DEF Transmit
  <2>6. QED
    BY <2>3, <2>4, <2>5 DEF TypeOK
<1>6. CASE WriteFails
  <2>1. OutputType'
    BY <1>6, EmptySeq DEF WriteFails, TypeOK, OutputType
  <2>2. MainType' /\ SessionType' /\ InputType' /\ WiresType' /\ ClientType'
    BY <1>6, FrameLemma DEF WriteFails
  <2>3. QED
    BY <2>1, <2>2 DEF TypeOK
<1>7. CASE LinkBreaks
  <2>1. toClient' \in Seq(Written) /\ toServer' \in Seq(Asked \cup {"pong"})
    BY <1>7, PrefixLemma DEF LinkBreaks, TypeOK, WiresType
  <2>2. WiresType'
    BY <1>7, <2>1 DEF LinkBreaks, TypeOK, WiresType
  <2>3. MainType' /\ SessionType' /\ InputType' /\ OutputType' /\ ClientType'
    BY <1>7, FrameLemma DEF LinkBreaks
  <2>4. QED
    BY <2>2, <2>3 DEF TypeOK
<1>8. QED
  BY <1>1, <1>2, <1>3, <1>4, <1>5, <1>6, <1>7 DEF Client

LEMMA TypeStep == ASSUME TypeOK, [Next]_vars PROVE TypeOK'
<1>1. CASE UNCHANGED vars
  BY <1>1, FrameLemma DEF vars, TypeOK
<1>2. QED
  BY <1>1, TypeMain, TypeIo, TypeOutside DEF Next

-----------------------------------------------------------------------------
(* The right to write.                                                     *)

LEMMA OneWriterWriting ==
    ASSUME IInv, NEW t \in Threads, Writing(t)
    PROVE  OneWriter' /\ isDisconnected' = isDisconnected /\ link' = link
<1>1. PICK u \in Threads : u # t /\ Threads = {t, u}
  BY DEF Threads
<1>2. DOMAIN at = Threads
  BY DEF IInv, TypeOK, OutputType
<1>3. CASE Claim(t)
  <2>1. Owns(u)' <=> Owns(u)
    BY <1>1, <1>2, <1>3 DEF Claim, Owns
  <2>2. CASE writePending
    <3>1. ~Owns(t) /\ ~Owns(t)'
      BY <1>2, <1>3, <2>2 DEF Claim, Owns
    <3>2. QED
      BY <1>1, <1>3, <2>1, <2>2, <3>1
      DEF Claim, IInv, OneWriter, WriteUnderWay, wires, Threads
  <2>3. CASE ~writePending
    <3>1. ~WriteUnderWay /\ ~Owns(u)
      BY <2>3 DEF IInv, OneWriter
    <3>2. Owns(t)'
      BY <1>2, <1>3, <2>3 DEF Claim, Owns
    <3>3. ~WriteUnderWay'
      BY <1>3, <3>1 DEF Claim, WriteUnderWay
    <3>4. QED
      BY <1>1, <1>3, <2>1, <3>1, <3>2, <3>3
      DEF Claim, IInv, OneWriter, wires, Threads, WriteUnderWay
  <2>4. QED
    BY <2>2, <2>3
<1>4. CASE Send(t)
  <2>1. Owns(t) /\ writePending
    BY <1>4 DEF Send, Owns, IInv, OneWriter
  <2>2. ~Owns(u) /\ ~Owns(u)' /\ ~WriteUnderWay
    BY <1>1, <1>2, <1>4, <2>1 DEF Send, Owns, IInv, OneWriter, Threads
  <2>3. CASE outBuf = <<>>
    <3>1. Owns(t)' /\ ~WriteUnderWay'
      BY <1>2, <1>4, <2>2, <2>3, RestLemma
      DEF Send, Owns, WriteUnderWay, IInv, TypeOK, OutputType
    <3>2. QED
      BY <1>1, <1>4, <2>1, <2>2, <3>1 DEF Send, OneWriter, WriteUnderWay, wires, Threads
  <2>4. CASE outBuf # <<>>
    <3>1. PICK n \in 1..Len(outBuf) :
              /\ sending' = IF isDisconnected THEN <<>> ELSE SubSeq(outBuf, 1, n)
              /\ written' = IF isDisconnected THEN "error" ELSE "none"
              /\ at' = [at EXCEPT ![t] = "idle"]
      BY <1>4, <2>4 DEF Send
    <3>2. SubSeq(outBuf, 1, n) # <<>>
      BY RestLemma DEF IInv, TypeOK, OutputType
    <3>3. ~Owns(t)' /\ WriteUnderWay' /\ (sending' = <<>> \/ written' = "none")
      BY <1>2, <3>1, <3>2 DEF Owns, WriteUnderWay
    <3>4. QED
      BY <1>1, <1>4, <2>1, <2>2, <3>3 DEF Send, OneWriter, wires, Threads
  <2>5. QED
    BY <2>3, <2>4
<1>5. CASE Release(t)
  <2>1. Owns(t)
    BY <1>5 DEF Release, Owns
  <2>2. ~Owns(u) /\ ~Owns(u)' /\ ~Owns(t)' /\ ~WriteUnderWay
    BY <1>1, <1>2, <1>5, <2>1 DEF Release, Owns, IInv, OneWriter, Threads
  <2>3. ~WriteUnderWay'
    BY <1>5, <2>2 DEF Release, WriteUnderWay
  <2>4. QED
    BY <1>1, <1>5, <2>2, <2>3 DEF Release, OneWriter, WriteUnderWay, wires, Threads
<1>6. QED
  BY <1>3, <1>4, <1>5 DEF Writing

(* Steps that start or end nothing in DispatchImpl and in async_write.     *)
LEMMA OneWriterFrame ==
    ASSUME IInv, UNCHANGED write, \A t \in Threads : Owns(t)' <=> Owns(t)
    PROVE  OneWriter'
<1>1. WriteUnderWay' <=> WriteUnderWay
  BY DEF WriteUnderWay, write
<1>2. QED
  BY <1>1 DEF IInv, OneWriter, write, Threads

LEMMA OwnsFrame == UNCHANGED at => \A t \in Threads : Owns(t)' <=> Owns(t)
BY DEF Owns

LEMMA OneWriterMain == ASSUME IInv, Main PROVE OneWriter' /\ (isDisconnected' => ~link')
<1>1. CASE Jobs
  <2>1. UNCHANGED <<at, write>>
    BY <1>1 DEF Jobs, Messages, JobWrites, KickedByCommand, KickedByLogin, ProcessConnection,
                RemovePlayer, DropInput, InputDone, Process_Handshake, ClientAnswers, ClientAsks,
                Process_Login, Process_Call, Process_Status, SkipMsg, UnknownMessage
  <2>2. UNCHANGED <<isDisconnected, link>> \/ ~link'
    BY <1>1 DEF Jobs, Messages, JobWrites, KickedByCommand, KickedByLogin, ProcessConnection,
                RemovePlayer, DropInput, InputDone, Process_Handshake, ClientAnswers, ClientAsks,
                Process_Login, Process_Call, Process_Status, SkipMsg, UnknownMessage,
                Disconnect, wires
  <2>3. QED
    BY <2>1, <2>2, OwnsFrame, OneWriterFrame DEF IInv
<1>2. CASE Output
  <2>1. \A t \in Threads : Owns(t)' <=> Owns(t)
    BY <1>2 DEF Output, Owns, IInv, TypeOK, OutputType
  <2>2. QED
    BY <1>2, <2>1, OneWriterFrame DEF Output, IInv, wires
<1>3. CASE HardDisconnect
  BY <1>3, OwnsFrame, OneWriterFrame DEF HardDisconnect, Disconnect
<1>4. CASE Handled
  BY <1>4, OwnsFrame, OneWriterFrame DEF Handled, IInv, wires
<1>5. CASE Dispatch
  <2>1. \A t \in Threads : Owns(t)' <=> Owns(t)
    BY <1>5 DEF Dispatch, Owns, IInv, TypeOK, OutputType
  <2>2. QED
    BY <1>5, <2>1, OneWriterFrame DEF Dispatch, IInv, wires
<1>6. CASE Writing("main")
  BY <1>6, OneWriterWriting DEF Threads, IInv
<1>7. QED
  BY <1>1, <1>2, <1>3, <1>4, <1>5, <1>6 DEF Main

LEMMA OneWriterIo == ASSUME IInv, Io PROVE OneWriter' /\ (isDisconnected' => ~link')
<1>1. CASE AsyncRead
  <2>1. UNCHANGED <<isDisconnected, link>> \/ ~link'
    BY <1>1 DEF AsyncRead, Receive, Disconnect
  <2>2. QED
    BY <1>1, <2>1, OwnsFrame, OneWriterFrame DEF AsyncRead, IInv
<1>2. CASE AsyncReadError
  BY <1>2, OwnsFrame, OneWriterFrame DEF AsyncReadError, wires
<1>3. CASE AsyncWrite
  <2>1. WriteUnderWay /\ ~Owns("main") /\ ~Owns("io") /\ sending = <<>>
    BY <1>3 DEF AsyncWrite, WriteUnderWay, IInv, OneWriter, Threads
  <2>2. ~Owns("main")' /\ ~Owns("io")'
    BY <1>3, <2>1 DEF AsyncWrite, Owns, IInv, TypeOK, OutputType, Threads
  <2>3. ~WriteUnderWay'
    BY <1>3, <2>1 DEF AsyncWrite, WriteUnderWay
  <2>4. OneWriter'
    BY <1>3, <2>2, <2>3 DEF AsyncWrite, OneWriter, WriteUnderWay, Threads
  <2>5. UNCHANGED <<isDisconnected, link>> \/ ~link'
    BY <1>3 DEF AsyncWrite, Disconnect, wires
  <2>6. QED
    BY <2>4, <2>5 DEF IInv
<1>4. CASE Writing("io")
  BY <1>4, OneWriterWriting DEF Threads, IInv
<1>5. QED
  BY <1>1, <1>2, <1>3, <1>4 DEF Io

LEMMA OneWriterOutside ==
    ASSUME IInv, Client \/ PingTimeComes \/ Transmit \/ WriteFails \/ LinkBreaks
    PROVE  OneWriter' /\ (isDisconnected' => ~link')
<1>1. CASE ClientSends
  BY <1>1, OwnsFrame, OneWriterFrame DEF ClientSends, IInv
<1>2. CASE ClientReads
  <2>1. link' = link \/ ~link'
    BY <1>2 DEF ClientReads
  <2>2. QED
    BY <1>2, <2>1, OwnsFrame, OneWriterFrame DEF ClientReads, IInv
<1>3. CASE ClientStops
  BY <1>3, OwnsFrame, OneWriterFrame DEF ClientStops, IInv, wires
<1>4. CASE PingTimeComes
  BY <1>4, OwnsFrame, OneWriterFrame DEF PingTimeComes, IInv, wires
<1>5. CASE Transmit
  <2>1. WriteUnderWay /\ writePending /\ ~Owns("main") /\ ~Owns("io")
    BY <1>5 DEF Transmit, WriteUnderWay, IInv, OneWriter, Threads
  <2>2. ~Owns("main")' /\ ~Owns("io")'
    BY <1>5, <2>1 DEF Transmit, Owns
  <2>3. WriteUnderWay' /\ (sending' = <<>> \/ written' = "none")
    <3>1. Len(Tail(sending)) = Len(sending) - 1 /\ Len(sending) \in Nat
      BY <1>5, HeadTailProperties, LenProperties DEF Transmit, IInv, TypeOK, OutputType
    <3>2. CASE Len(sending) = 1
      <4>1. Len(Tail(sending)) = 0 /\ Tail(sending) \in Seq(Written)
        BY <1>5, <3>1, <3>2, HeadTailLemma DEF Transmit, IInv, TypeOK, OutputType
      <4>2. Tail(sending) = <<>>
        BY <4>1, EmptySeq
      <4>3. QED
        BY <1>5, <3>2, <4>2 DEF Transmit, WriteUnderWay
    <3>3. CASE Len(sending) # 1
      <4>1. Tail(sending) # <<>>
        BY <3>1, <3>3
      <4>2. QED
        BY <1>5, <3>3, <4>1 DEF Transmit, WriteUnderWay
    <3>4. QED
      BY <3>2, <3>3
  <2>4. QED
    BY <1>5, <2>1, <2>2, <2>3 DEF Transmit, IInv, OneWriter, Threads
<1>6. CASE WriteFails
  <2>1. WriteUnderWay /\ writePending /\ ~Owns("main") /\ ~Owns("io")
    BY <1>6 DEF WriteFails, WriteUnderWay, IInv, OneWriter, Threads
  <2>2. ~Owns("main")' /\ ~Owns("io")'
    BY <1>6, <2>1 DEF WriteFails, Owns
  <2>3. WriteUnderWay' /\ sending' = <<>>
    BY <1>6 DEF WriteFails, WriteUnderWay
  <2>4. QED
    BY <1>6, <2>1, <2>2, <2>3 DEF WriteFails, IInv, OneWriter, Threads, wires
<1>7. CASE LinkBreaks
  BY <1>7, OwnsFrame, OneWriterFrame DEF LinkBreaks
<1>8. QED
  BY <1>1, <1>2, <1>3, <1>4, <1>5, <1>6, <1>7 DEF Client

LEMMA StepLemma == IInv /\ [Next]_vars => IInv'
<1> SUFFICES ASSUME IInv, [Next]_vars PROVE IInv'
  OBVIOUS
<1>1. TypeOK'
  BY TypeStep DEF IInv
<1>2. CASE UNCHANGED vars
  BY <1>1, <1>2, OwnsFrame, OneWriterFrame DEF vars, IInv, wires
<1>3. CASE Next
  BY <1>1, <1>3, OneWriterMain, OneWriterIo, OneWriterOutside DEF Next, IInv
<1>4. QED
  BY <1>2, <1>3

LEMMA InvariantLemma == Spec => []IInv
<1>1. QED
  BY InitLemma, StepLemma, PTL DEF Spec

(* Type correctness of the connection, for all limits.                     *)
THEOREM TypeTheorem == Spec => []TypeOK
<1>1. IInv => TypeOK
  BY DEF IInv
<1>2. QED
  BY <1>1, InvariantLemma, PTL

(* The buffer that goes to the socket has one owner at a time.             *)
THEOREM OneWriterTheorem == Spec => []OneWriter
<1>1. IInv => OneWriter
  BY DEF IInv
<1>2. QED
  BY <1>1, InvariantLemma, PTL

-----------------------------------------------------------------------------
(* After the goodbye nothing is heard of the client.                       *)

(* A graceful disconnection is for good, and Listens looks for it before   *)
(* any message is taken.                                                   *)
LEMMA MessagesAreDropped == ASSUME graceful PROVE ~Messages
<1>1. ~Listens
  BY DEF Listens
<1>2. QED
  BY <1>1 DEF Messages, Process_Handshake, ClientAnswers, ClientAsks, Process_Login,
              Process_Call, Process_Status, SkipMsg, UnknownMessage, TakeMessage

LEMMA GoodbyeStep ==
    ASSUME graceful, [Next]_vars
    PROVE  /\ graceful'
           /\ handling' => handling
           /\ loggedIn' = loggedIn
           /\ pingOk' => pingOk
<1> DEFINE same == UNCHANGED <<graceful, handling, loggedIn, pingOk>>
<1>1. CASE UNCHANGED vars
  <2>1. same
    BY <1>1 DEF vars, main, session
  <2>2. QED
    BY <2>1
<1>2. CASE Jobs
  <2>1. \/ JobWrites \/ KickedByCommand \/ KickedByLogin \/ ProcessConnection
        \/ RemovePlayer \/ DropInput \/ InputDone
    BY <1>2, MessagesAreDropped DEF Jobs
  <2>2. CASE ProcessConnection
    <3>1. UNCHANGED <<graceful, handling, loggedIn>>
      BY <2>2 DEF ProcessConnection, Goto
    <3>2. pingOk' = FALSE \/ UNCHANGED pingOk
      BY <2>2 DEF ProcessConnection
    <3>3. QED
      BY <3>1, <3>2
  <2>3. CASE KickedByCommand
    <3>1. graceful' = TRUE /\ UNCHANGED <<handling, loggedIn, pingOk>>
      BY <2>3 DEF KickedByCommand, Goto
    <3>2. QED
      BY <3>1
  <2>4. CASE JobWrites \/ KickedByLogin \/ RemovePlayer \/ DropInput \/ InputDone
    <3>1. same
      BY <2>4 DEF JobWrites, KickedByLogin, RemovePlayer, DropInput, InputDone, Goto, session
    <3>2. QED
      BY <3>1
  <2>5. QED
    BY <2>1, <2>2, <2>3, <2>4
<1>3. CASE Handled
  <2>1. handling' = FALSE /\ UNCHANGED <<graceful, loggedIn, pingOk>>
    BY <1>3 DEF Handled, session
  <2>2. QED
    BY <2>1
<1>4. CASE Output \/ HardDisconnect \/ Dispatch
  <2>1. same
    BY <1>4 DEF Output, HardDisconnect, Dispatch, main, session
  <2>2. QED
    BY <2>1
<1>5. CASE Writing("main") \/ Writing("io")
  <2>1. same
    BY <1>5 DEF Writing, Claim, Send, Release, main, session
  <2>2. QED
    BY <2>1
<1>6. CASE AsyncRead \/ AsyncReadError \/ AsyncWrite
  <2>1. same
    BY <1>6 DEF AsyncRead, AsyncReadError, AsyncWrite, main, session
  <2>2. QED
    BY <2>1
<1>7. CASE Client \/ PingTimeComes \/ Transmit \/ WriteFails \/ LinkBreaks
  <2>1. same
    BY <1>7 DEF Client, ClientSends, ClientReads, ClientStops, PingTimeComes, Transmit,
                WriteFails, LinkBreaks, main, session
  <2>2. QED
    BY <2>1
<1>8. QED
  BY <1>1, <1>2, <1>3, <1>4, <1>5, <1>6, <1>7 DEF Next, Main, Io

(* Once the server has said goodbye no message of the client is handled,   *)
(* logs anybody in or passes for a sign of life (ProcessUnloginedPlayer    *)
(* and ProcessPlayer), and it stays so: the goodbye is never taken back.   *)
THEOREM GoodbyeTheorem == Spec => GoodbyeIsFinal /\ [][graceful => graceful']_vars
<1>1. [Next]_vars =>
        /\ [graceful => /\ handling' => handling
                        /\ loggedIn' = loggedIn
                        /\ pingOk' => pingOk]_vars
        /\ [graceful => graceful']_vars
  BY GoodbyeStep
<1>2. QED
  BY <1>1, PTL DEF Spec, GoodbyeIsFinal

-----------------------------------------------------------------------------
(* The connection as a channel.                                            *)

LEMMA QueueLemma == ASSUME TypeOK
                    PROVE  /\ sending \o outBuf \in Seq(Written)
                           /\ Queue \in Seq(Written)
                           /\ ~link => Queue = toClient
BY ConcatProperties, ConcatEmptySeq, EmptySeq DEF TypeOK, OutputType, WiresType, Queue

(* Nothing moves between the server's buffers and the client.              *)
LEMMA QueueFrame == UNCHANGED <<toClient, link, sending, outBuf>> => UNCHANGED <<Queue, link>>
BY DEF Queue

(* What is lost when the connection is closed is the end of the queue.     *)
LEMMA LoseLemma ==
    ASSUME TypeOK, TypeOK', ~link', toClient' \in Prefixes(toClient)
    PROVE  Channel!Lose
<1>1. PICK n \in 0..Len(toClient) : toClient' = SubSeq(toClient, 1, n)
  BY DEF Prefixes
<1>2. Queue' = SubSeq(toClient, 1, n)
  BY <1>1, QueueLemma DEF Queue, TypeOK, WiresType, OutputType
<1>3. PICK rest \in Seq(Written) : Queue = toClient \o rest
  BY QueueLemma, EmptySeq DEF Queue
<1>4. n \in 0..Len(Queue) /\ SubSeq(toClient, 1, n) = SubSeq(Queue, 1, n)
  <2>1. toClient \in Seq(Written) /\ Len(toClient) \in Nat /\ Len(rest) \in Nat
    BY LenProperties DEF TypeOK, WiresType
  <2>2. Len(Queue) = Len(toClient) + Len(rest)
    BY <1>3, <2>1, ConcatProperties
  <2>3. CASE n = 0
    BY <2>1, <2>2, <2>3, SubSeqEmpty
  <2>4. CASE n # 0
    BY <1>3, <2>1, <2>2, <2>4, SubSeqOfConcat1
  <2>5. QED
    BY <2>3, <2>4
<1>5. QED
  BY <1>2, <1>4 DEF Channel!Lose

(* Nothing and everything are ends that may be lost.                       *)
LEMMA WholePrefix == ASSUME NEW S, NEW s \in Seq(S) PROVE s \in Prefixes(s) /\ <<>> \in Prefixes(s)
<1>1. Len(s) \in Nat /\ 0 \in 0..Len(s) /\ Len(s) \in 0..Len(s)
  BY LenProperties
<1>2. Prefixes(s) = {SubSeq(s, 1, n) : n \in 0..Len(s)}
  BY DEF Prefixes
<1>3. s \in Prefixes(s)
  <2>1. s = SubSeq(s, 1, Len(s))
    BY SubSeqFull
  <2>2. QED
    BY <1>1, <1>2, <2>1, Zenon
<1>4. <<>> \in Prefixes(s)
  <2>1. <<>> = SubSeq(s, 1, 0)
    BY SubSeqEmpty
  <2>2. QED
    BY <1>1, <1>2, <2>1, Zenon
<1>5. QED
  BY <1>3, <1>4

LEMMA DisconnectLoses == ASSUME TypeOK, TypeOK', Disconnect PROVE Channel!Lose
<1>1. ~link' /\ toClient' \in Prefixes(toClient)
  BY WholePrefix DEF Disconnect, TypeOK, WiresType
<1>2. QED
  BY <1>1, LoseLemma

LEMMA PutLemma ==
    ASSUME TypeOK, NEW m \in Written, link,
           outBuf' = Append(outBuf, m), UNCHANGED <<toClient, link, sending>>
    PROVE  Channel!Put(m)
<1>1. Queue' = toClient \o (sending \o (outBuf \o <<m>>))
  BY AppendIsConcat DEF Queue, TypeOK, OutputType
<1>2. <<m>> \in Seq(Written)
  OBVIOUS
<1>3. sending \o (outBuf \o <<m>>) = (sending \o outBuf) \o <<m>>
  BY <1>2, ConcatAssociative DEF TypeOK, OutputType
<1>4. toClient \o ((sending \o outBuf) \o <<m>>) = (toClient \o (sending \o outBuf)) \o <<m>>
  BY <1>2, QueueLemma, ConcatAssociative DEF TypeOK, WiresType
<1>5. Queue' = Append(Queue, m)
  BY <1>1, <1>3, <1>4, QueueLemma, AppendIsConcat DEF Queue
<1>6. QED
  BY <1>5 DEF Channel!Put

LEMMA SendKeepsQueue == ASSUME IInv, NEW t \in Threads, Send(t) PROVE UNCHANGED <<Queue, link>>
<1>1. CASE UNCHANGED <<outBuf, sending>> \/ ~link
  BY <1>1, QueueFrame DEF Send, Queue, wires
<1>2. ASSUME link, NEW n \in 1..Len(outBuf),
             outBuf' = SubSeq(outBuf, n + 1, Len(outBuf)),
             sending' = IF isDisconnected THEN <<>> ELSE SubSeq(outBuf, 1, n)
      PROVE  UNCHANGED <<Queue, link>>
  <2>1. sending = <<>> /\ ~isDisconnected
    BY <1>2 DEF Send, IInv, OneWriter, Owns, WriteUnderWay
  <2>2. SubSeq(outBuf, 1, n) \o SubSeq(outBuf, n + 1, Len(outBuf)) = outBuf
    <3>1. outBuf \in Seq(Written) /\ Len(outBuf) \in Nat
      BY LenProperties DEF IInv, TypeOK, OutputType
    <3>2. QED
      BY <3>1, ConcatAdjacentSubSeq, SubSeqFull
  <2>3. sending' \o outBuf' = sending \o outBuf
    BY <1>2, <2>1, <2>2, ConcatEmptySeq DEF IInv, TypeOK, OutputType
  <2>4. QED
    BY <1>2, <2>3 DEF Send, Queue, wires
<1>3. QED
  BY <1>1, <1>2 DEF Send

LEMMA TransmitKeepsQueue == ASSUME TypeOK, Transmit PROVE UNCHANGED <<Queue, link>>
<1> DEFINE h == <<Head(sending)>>
           r == Tail(sending)
<1>1. /\ toClient \in Seq(Written) /\ outBuf \in Seq(Written) /\ sending \in Seq(Written)
      /\ Head(sending) \in Written /\ h \in Seq(Written) /\ r \in Seq(Written)
  BY HeadTailLemma DEF Transmit, TypeOK, WiresType, OutputType
<1>2. sending = h \o r
  <2>1. Len(sending) \in Nat \ {0}
    BY EmptySeq DEF Transmit, TypeOK, OutputType
  <2>2. SubSeq(sending, 1, Len(sending)) = <<sending[1]>> \o SubSeq(sending, 2, Len(sending))
    BY <1>1, <2>1, SubSeqRecursiveFirst
  <2>3. r = SubSeq(sending, 2, Len(sending)) /\ Head(sending) = sending[1]
    BY <1>1, TailIsSubSeq DEF Transmit
  <2>4. QED
    BY <1>1, <2>2, <2>3, SubSeqFull
<1>3. toClient' = toClient \o h
  BY <1>1, AppendIsConcat DEF Transmit
<1>4. (toClient \o h) \o (r \o outBuf) = toClient \o (h \o (r \o outBuf))
  BY <1>1, ConcatAssociative, ConcatProperties
<1>5. h \o (r \o outBuf) = (h \o r) \o outBuf
  BY <1>1, ConcatAssociative
<1>6. QED
  BY <1>2, <1>3, <1>4, <1>5 DEF Transmit, Queue

LEMMA ReadTakes == ASSUME TypeOK, toClient # <<>>, toClient' = Tail(toClient),
                          UNCHANGED <<link, sending, outBuf>>
                   PROVE  Channel!Take
<1>1. PICK rest \in Seq(Written) : Queue = toClient \o rest /\ Queue' = Tail(toClient) \o rest
  <2>1. CASE link
    BY <2>1, QueueLemma DEF Queue
  <2>2. CASE ~link
    BY <2>2, EmptySeq DEF Queue
  <2>3. QED
    BY <2>1, <2>2
<1>2. Tail(toClient \o rest) = Tail(toClient) \o rest /\ toClient \o rest # <<>>
  <2> DEFINE q == toClient \o rest
             u == Tail(toClient) \o rest
  <2>1. toClient \in Seq(Written) /\ Len(toClient) \in Nat \ {0} /\ Len(rest) \in Nat
    BY EmptySeq, LenProperties DEF TypeOK, WiresType
  <2>2. /\ q \in Seq(Written) /\ Len(q) = Len(toClient) + Len(rest)
        /\ \A i \in 1..Len(toClient) + Len(rest) :
               q[i] = IF i <= Len(toClient) THEN toClient[i] ELSE rest[i - Len(toClient)]
    BY <2>1, ConcatProperties
  <2>3. q # <<>>
    BY <2>1, <2>2, ConcatEqualIffEmpty
  <2>4. /\ Tail(toClient) \in Seq(Written) /\ Len(Tail(toClient)) = Len(toClient) - 1
        /\ \A i \in 1..Len(toClient) - 1 : Tail(toClient)[i] = toClient[i + 1]
    BY <2>1, HeadTailProperties
  <2>5. /\ u \in Seq(Written) /\ Len(u) = Len(toClient) - 1 + Len(rest)
        /\ \A i \in 1..Len(toClient) - 1 + Len(rest) :
               u[i] = IF i <= Len(toClient) - 1 THEN Tail(toClient)[i]
                      ELSE rest[i - (Len(toClient) - 1)]
    BY <2>1, <2>4, ConcatProperties
  <2>6. /\ Tail(q) \in Seq(Written) /\ Len(Tail(q)) = Len(q) - 1
        /\ \A i \in 1..Len(q) - 1 : Tail(q)[i] = q[i + 1]
    BY <2>2, <2>3, HeadTailProperties
  <2>7. \A i \in 1..Len(u) : Tail(q)[i] = u[i]
    BY <2>1, <2>2, <2>4, <2>5, <2>6
  <2>8. QED
    BY <2>1, <2>2, <2>3, <2>5, <2>6, <2>7, SeqEqual
<1>3. QED
  BY <1>1, <1>2 DEF Channel!Take

LEMMA ChannelStep == ASSUME IInv, [Next]_vars PROVE [Channel!Next]_Channel!vars
<1> SUFFICES Channel!Next \/ UNCHANGED <<Queue, link>>
  BY DEF Channel!vars
<1>0. TypeOK /\ TypeOK'
  BY TypeStep DEF IInv
<1>1. ASSUME NEW t \in Threads, Writing(t) PROVE UNCHANGED <<Queue, link>>
  <2>1. CASE Send(t)
    BY <2>1, SendKeepsQueue
  <2>2. CASE Claim(t)
    BY <2>2, QueueFrame DEF Claim, wires
  <2>3. CASE Release(t)
    BY <2>3, QueueFrame DEF Release, wires
  <2>4. QED
    BY <1>1, <2>1, <2>2, <2>3 DEF Writing
<1>2. CASE Jobs
  <2>1. CASE KickedByLogin
    BY <1>0, <2>1, DisconnectLoses DEF KickedByLogin, Channel!Next
  <2>2. CASE ~KickedByLogin
    <3>1. UNCHANGED <<toClient, link, sending, outBuf>>
      BY <1>2, <2>2
      DEF Jobs, Messages, JobWrites, KickedByCommand, ProcessConnection, RemovePlayer, DropInput,
          InputDone, Process_Handshake, ClientAnswers, ClientAsks, Process_Login, Process_Call,
          Process_Status, SkipMsg, UnknownMessage, write, wires
    <3>2. QED
      BY <3>1, QueueFrame
  <2>3. QED
    BY <2>1, <2>2
<1>3. CASE Output
  <2>1. Head(todo) \in Written /\ outBuf' = Append(outBuf, Head(todo))
        /\ UNCHANGED <<toClient, link, sending>>
    BY <1>0, <1>3, HeadTailLemma DEF Output, TypeOK, MainType, write, wires
  <2>2. CASE link
    BY <1>0, <2>1, <2>2, PutLemma DEF Channel!Next
  <2>3. CASE ~link
    BY <2>1, <2>3 DEF Queue
  <2>4. QED
    BY <2>2, <2>3
<1>4. CASE HardDisconnect
  BY <1>0, <1>4, DisconnectLoses DEF HardDisconnect, Channel!Next
<1>5. CASE Handled \/ Dispatch
  BY <1>5, QueueFrame DEF Handled, Dispatch, write, wires
<1>6. CASE Io
  <2>1. CASE AsyncRead
    <3>1. Disconnect \/ UNCHANGED <<toClient, link, sending, outBuf>>
      BY <2>1 DEF AsyncRead, Receive, write
    <3>2. QED
      BY <1>0, <3>1, DisconnectLoses, QueueFrame DEF Channel!Next
  <2>2. CASE AsyncReadError
    BY <2>2, QueueFrame DEF AsyncReadError, write, wires
  <2>3. CASE AsyncWrite
    <3>1. Disconnect \/ UNCHANGED <<toClient, link, sending, outBuf>>
      BY <2>3 DEF AsyncWrite, wires
    <3>2. QED
      BY <1>0, <3>1, DisconnectLoses, QueueFrame DEF Channel!Next
  <2>4. QED
    BY <1>1, <1>6, <2>1, <2>2, <2>3 DEF Io, Threads
<1>7. CASE Client
  <2>1. CASE ClientSends \/ ClientStops
    BY <2>1, QueueFrame DEF ClientSends, ClientStops, write, wires
  <2>2. CASE ClientReads
    <3>1. CASE Head(toClient) = "bye"
      <4>1. ~link' /\ toClient' \in Prefixes(toClient)
        BY <1>0, <2>2, <3>1, WholePrefix DEF ClientReads, TypeOK, WiresType
      <4>2. QED
        BY <1>0, <4>1, LoseLemma DEF Channel!Next
    <3>2. CASE Head(toClient) # "bye"
      BY <1>0, <2>2, <3>2, ReadTakes DEF ClientReads, Channel!Next, write
    <3>3. QED
      BY <3>1, <3>2
  <2>3. QED
    BY <1>7, <2>1, <2>2 DEF Client
<1>8. CASE PingTimeComes
  BY <1>8, QueueFrame DEF PingTimeComes, write, wires
<1>9. CASE Transmit
  BY <1>0, <1>9, TransmitKeepsQueue
<1>10. CASE WriteFails
  BY <1>10 DEF WriteFails, Queue, wires
<1>11. CASE LinkBreaks
  BY <1>0, <1>11, LoseLemma DEF LinkBreaks, Channel!Next
<1>12. CASE UNCHANGED vars
  BY <1>12, QueueFrame DEF vars, write, wires
<1>13. QED
  BY <1>1, <1>2, <1>3, <1>4, <1>5, <1>6, <1>7, <1>8, <1>9, <1>10, <1>11, <1>12
  DEF Next, Main, Threads

(* The connection is a channel: what the server writes reaches the client  *)
(* in order and once, up to the point where the connection breaks.         *)
THEOREM ChannelTheorem == Spec => ChannelSpec
<1>1. Init => Channel!Init
  BY ConcatEmptySeq, EmptySeq DEF Init, Channel!Init, Queue
<1>2. QED
  BY <1>1, InvariantLemma, ChannelStep, PTL DEF Spec, ChannelSpec, Channel!Spec
=============================================================================
