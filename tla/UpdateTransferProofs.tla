------------------------ MODULE UpdateTransferProofs ------------------------
(* Proofs about UpdateTransfer for files of any sizes and any portions.    *)
(* While the connection is up, exactly one message is on its way until all *)
(* the files are there, and it fits what the two sides have counted.       *)
EXTENDS UpdateTransfer, SequenceTheorems, WellFoundedInduction, TLAPS

Current == Front(toUpdate)
Got == Sizes[Current] - remaining
Part(i, from, n) == SubSeq(Content(i), from + 1, from + n)

(* The server has sent n bytes of file i and knows how to go on; or it     *)
(* takes the file for finished.                                            *)
ServerAt(i, n) ==
    \/ updFile = i /\ n = portion * SendSize /\ n < Sizes[i]
    \/ updFile = 0 /\ (n = Sizes[i] \/ WholePortions(i))

(* What can be on its way.                                                 *)
Heard == handshake /\ ~graceful
Greeting == /\ toServer = <<[type |-> "handshake"]>> /\ toClient = <<>>
            /\ ~handshake /\ ~graceful
Listing == /\ toServer = <<>> /\ Heard
           /\ \E o \in BOOLEAN : toClient = <<[type |-> "list", outdated |-> o]>>
Quiet == toServer = <<>> /\ toClient = <<>> /\ Heard
AskedFile == /\ toServer = <<[type |-> "getFile", index |-> Current]>> /\ toClient = <<>> /\ Heard
             /\ remaining = Sizes[Current]
AskedData == /\ toServer = <<[type |-> "getData"]>> /\ toClient = <<>> /\ Heard
             /\ remaining > 0 /\ ServerAt(Current, Got)
Answered == /\ toServer = <<>> /\ Heard
            /\ \E n \in 0..remaining :
                  /\ toClient = <<[type |-> "data", bytes |-> Part(Current, Got, n)]>>
                  /\ ServerAt(Current, Got + n)
SentAway == /\ toServer = <<>> /\ toClient = <<[type |-> "disconnect"]>>
            /\ WholePortions(Current)

Session ==
    link => \/ phase = "connected" /\ ~listed /\ (Greeting \/ Listing)
            \/ phase = "connected" /\ listed /\ toUpdate = {} /\ Quiet
            \/ phase = "connected" /\ listed /\ toUpdate # {} /\ (AskedFile \/ AskedData \/ Answered \/ SentAway)
            \/ phase = "rename" /\ Quiet
            \/ phase = "ended" /\ toServer = <<>> /\ toClient = <<>>

(* The updater: what it has of the current file, and that the others are   *)
(* there.                                                                  *)
Fetching ==
    /\ phase = "start" => ~listed /\ temp = NoFile
    /\ ~listed => toUpdate = {}
    /\ phase = "rename" => listed /\ toUpdate # {} /\ remaining = 0
    /\ phase \in {"connected", "rename"} =>
          IF toUpdate = {} THEN temp = NoFile
          ELSE remaining \in 0..Sizes[Current] /\ temp = Part(Current, 0, Got)
    /\ phase \in {"connected", "rename"} /\ listed => \A i \in Files \ toUpdate : ~Wanted(i)

Typed ==
    /\ link \in BOOLEAN /\ handshake \in BOOLEAN /\ graceful \in BOOLEAN /\ listed \in BOOLEAN
    /\ updFile \in {0} \cup Files /\ portion \in Nat
    /\ phase \in {"start", "connected", "rename", "aborted", "ended"}
    /\ toUpdate \in SUBSET Files /\ remaining \in Nat
    /\ local \in [Files -> {NoFile} \cup Seq(Bytes)]
    /\ origin \in [Files -> {NoFile} \cup Seq(Bytes)]
    /\ ~link => toServer \in {<<>>, <<[type |-> "getFile", index |-> Current]>>} /\ toClient = <<>>
    /\ ~link /\ toServer # <<>> => phase = "connected" /\ toUpdate # {}

IInv == Typed /\ NeverTorn /\ Fetching /\ Session

-----------------------------------------------------------------------------
(* The least of some files.                                                *)
LEMMA FilesAreNumbers == Files \subseteq Nat /\ \A i \in Files : Sizes[i] \in Nat
BY SizesAssumption DEF Files

LEMMA FrontIsOne ==
    ASSUME NEW q \in SUBSET Files, q # {}
    PROVE  Front(q) \in q
<1>1. PICK x \in q : \A y \in q : ~(<<y, x>> \in OpToRel(<, Nat))
  BY FilesAreNumbers, NatLessThanWellFounded, WFMin
<1>2. \A y \in q : ~(y < x)
  BY <1>1, FilesAreNumbers DEF OpToRel
<1>3. ASSUME NEW y \in q
      PROVE  x <= y
  <2>1. x \in Nat /\ y \in Nat
    BY FilesAreNumbers
  <2>2. ~(y < x)
    BY <1>2
  <2>3. QED
    BY <2>1, <2>2
<1>4. QED
  BY <1>3 DEF Front

(* Parts of a file.                                                        *)
LEMMA ContentType ==
    ASSUME NEW i \in Files
    PROVE  Content(i) \in Seq(Bytes) /\ Len(Content(i)) = Sizes[i] /\ Content(i) # NoFile
<1>1. Sizes[i] \in Nat
  BY FilesAreNumbers
<1>2. \A n \in 1..Sizes[i] : Content(i)[n] \in Bytes
  BY <1>1 DEF Content, Bytes
<1>3. Content(i) \in [1..Sizes[i] -> Bytes]
  BY <1>2 DEF Content
<1>4. Content(i) \in Seq(Bytes) /\ Len(Content(i)) = Sizes[i]
  BY <1>1, <1>3
<1>5. QED
  BY <1>4, NoFileAssumption

LEMMA PartType ==
    ASSUME NEW i \in Files, NEW from \in Nat, NEW n \in Nat, from + n <= Sizes[i]
    PROVE  Part(i, from, n) \in Seq(Bytes) /\ Len(Part(i, from, n)) = n
<1>1. Sizes[i] \in Nat /\ from + 1 \in Int /\ from + n \in Int
  BY FilesAreNumbers
<1>2. \A k \in (from + 1)..(from + n) : Content(i)[k] \in Bytes
  BY <1>1, ContentType
<1>3. /\ Part(i, from, n) \in Seq(Bytes)
      /\ Len(Part(i, from, n)) = IF from + 1 <= from + n THEN (from + n) - (from + 1) + 1 ELSE 0
  BY <1>1, <1>2, SubSeqProperties DEF Part
<1>4. QED
  BY <1>3

LEMMA PartsJoin ==
    ASSUME NEW i \in Files, NEW m \in Nat, NEW n \in Nat, m + n <= Sizes[i]
    PROVE  Part(i, 0, m) \o Part(i, m, n) = Part(i, 0, m + n)
<1>1. Content(i) \in Seq(Bytes) /\ Len(Content(i)) = Sizes[i] /\ Sizes[i] \in Nat
  BY ContentType, FilesAreNumbers
<1>2. /\ 1 \in 1..(Len(Content(i)) + 1)
      /\ m \in (1 - 1)..Len(Content(i))
      /\ m + n \in m..Len(Content(i))
  BY <1>1
<1>3. SubSeq(Content(i), 1, m) \o SubSeq(Content(i), m + 1, m + n) = SubSeq(Content(i), 1, m + n)
  BY <1>1, <1>2, ConcatAdjacentSubSeq
<1>4. 0 + 1 = 1 /\ 0 + m = m /\ 0 + (m + n) = m + n
  OBVIOUS
<1>5. QED
  BY <1>3, <1>4 DEF Part

LEMMA NoPart ==
    ASSUME NEW i
    PROVE  Part(i, 0, 0) = <<>>
BY SubSeqEmpty DEF Part

LEMMA WholePart ==
    ASSUME NEW i \in Files
    PROVE  Part(i, 0, Sizes[i]) = Content(i)
<1>1. Content(i) \in Seq(Bytes) /\ Len(Content(i)) = Sizes[i] /\ Sizes[i] \in Nat
  BY ContentType, FilesAreNumbers
<1>2. SubSeq(Content(i), 1, Sizes[i]) = Content(i)
  BY <1>1, SubSeqFull
<1>3. 0 + 1 = 1 /\ 0 + Sizes[i] = Sizes[i]
  BY <1>1
<1>4. QED
  BY <1>2, <1>3 DEF Part

(* What is left of a size after whole portions.                            *)
LEMMA LeftOver ==
    ASSUME NEW n \in Nat, NEW p \in Nat, NEW d \in Nat \ {0}, p * d <= n, n < p * d + d
    PROVE  n % d = n - p * d
<1>1. n % d \in 0..(d - 1) /\ n = (d * (n \div d)) + (n % d) /\ n \div d \in Nat
  OBVIOUS
<1> PICK q \in Nat : q = n \div d
  BY <1>1
<1>2. n - (n % d) = q * d
  BY <1>1
<1>3. CASE q < p
  <2>1. (p - q) * d >= d
    BY <1>3
  <2>2. QED
    BY <1>1, <1>2, <1>3, <2>1
<1>4. CASE q > p
  <2>1. (q - p) * d >= d
    BY <1>4
  <2>2. QED
    BY <1>1, <1>2, <1>4, <2>1
<1>5. QED
  BY <1>1, <1>2, <1>3, <1>4

LEMMA OneMessage ==
    ASSUME NEW m
    PROVE  Append(<<>>, m) = <<m>> /\ Head(<<m>>) = m /\ Tail(<<m>>) = <<>> /\ <<m>> # <<>>
OBVIOUS

(* A portion is the next part of the file, and the server has counted it;  *)
(* only the last portion of a file of whole portions is empty.             *)
LEMMA PortionSent ==
    ASSUME NEW i \in Files, NEW p \in Nat, SendPortion(i, p), toClient = <<>>,
           p * SendSize < Sizes[i] \/ p = 0
    PROVE  \E n \in 0..(Sizes[i] - p * SendSize) :
              /\ toClient' = <<[type |-> "data", bytes |-> Part(i, p * SendSize, n)]>>
              /\ ServerAt(i, p * SendSize + n)'
<1> PICK offset \in Nat : offset = p * SendSize
  BY SendSizeAssumption
<1> PICK size \in Nat : size = Sizes[i]
  BY FilesAreNumbers
<1>1. offset <= size
  BY SendSizeAssumption
<1>2. CASE offset + SendSize < size
  <2> DEFINE m == [type |-> "data", bytes |-> Part(i, offset, SendSize)]
  <2>1. ~(p * SendSize + SendSize >= Sizes[i])
    BY <1>2, SendSizeAssumption
  <2>2. Part(i, offset, SendSize) = SubSeq(Content(i), p * SendSize + 1, p * SendSize + SendSize)
    BY DEF Part
  <2>3. updFile' = i /\ portion' = p + 1
    BY <2>1 DEF SendPortion
  <2>4. toClient' = Append(toClient, m)
    BY <2>1, <2>2 DEF SendPortion
  <2>5. toClient' = <<m>>
    BY <2>4, OneMessage
  <2>6. offset + SendSize = (p + 1) * SendSize
    BY SendSizeAssumption
  <2>7. SendSize \in 0..(size - offset)
    BY <1>2, SendSizeAssumption
  <2>8. ServerAt(i, offset + SendSize)'
    BY <1>2, <2>3, <2>6 DEF ServerAt
  <2>9. QED
    BY <2>5, <2>7, <2>8
<1>3. CASE ~(offset + SendSize < size)
  <2> PICK n \in Nat : n = size % SendSize
    BY SendSizeAssumption
  <2> DEFINE m == [type |-> "data", bytes |-> Part(i, offset, n)]
  <2>a. p * SendSize + SendSize >= Sizes[i]
    BY <1>3, SendSizeAssumption
  <2>b. Part(i, offset, n) = SubSeq(Content(i), p * SendSize + 1, p * SendSize + (Sizes[i] % SendSize))
    BY DEF Part
  <2>c. updFile' = 0 /\ toClient' = Append(toClient, m)
    BY <2>a, <2>b DEF SendPortion
  <2>1. toClient' = <<m>>
    BY <2>c, OneMessage
  <2>2. CASE size = offset + SendSize
    <3>1. size = (p + 1) * SendSize /\ p + 1 \in Nat
      BY <2>2, SendSizeAssumption
    <3>2. n = 0
      BY <3>1, LeftOver, SendSizeAssumption
    <3>3. WholePortions(i)
      BY <2>2, <3>2, SendSizeAssumption DEF WholePortions
    <3>4. QED
      BY <1>1, <2>1, <2>c, <3>2, <3>3 DEF ServerAt
  <2>3. CASE size < offset + SendSize
    <3>1. n = size - offset
      BY <1>1, <2>3, LeftOver, SendSizeAssumption
    <3>2. n \in 0..(size - offset) /\ offset + n = size
      BY <1>1, <3>1
    <3>3. QED
      BY <2>1, <2>c, <3>2 DEF ServerAt
  <2>4. QED
    BY <1>3, <2>2, <2>3, SendSizeAssumption
<1>4. QED
  BY <1>2, <1>3, SendSizeAssumption

-----------------------------------------------------------------------------
(* The invariant.                                                          *)
LEMMA IInvInit == Init => IInv
<1> SUFFICES ASSUME Init PROVE IInv
  OBVIOUS
<1>1. \A size \in OldSizes : OldFile(size) \in Seq(Bytes)
  BY OldSizesAssumption DEF OldFile, Bytes
<1>2. local \in [Files -> {NoFile} \cup Seq(Bytes)] /\ origin = local
  BY <1>1 DEF Init
<1>3. Typed
  BY <1>2 DEF Init, Typed
<1>4. NeverTorn
  BY <1>2 DEF NeverTorn
<1>5. Fetching /\ Session
  BY DEF Init, Fetching, Session
<1>6. QED
  BY <1>3, <1>4, <1>5 DEF IInv

LEMMA CurrentIsOne == Typed /\ toUpdate # {} => Current \in toUpdate /\ Current \in Files
BY FrontIsOne DEF Typed, Current

(* The handlers of the server find the only message on its way.            *)
LEMMA HandshakeKeeps ==
    ASSUME IInv, Process_Handshake
    PROVE  IInv'
<1>1. link /\ ~handshake /\ ~graceful /\ toServer # <<>>
  BY DEF Process_Handshake, ToServer
<1>2. phase = "connected" /\ ~listed /\ Greeting
  BY <1>1 DEF IInv, Session, Greeting, Listing, Quiet, AskedFile, AskedData, Answered, SentAway, Heard
<1>3. toServer' = <<>>
  BY <1>2, OneMessage DEF Process_Handshake, Greeting
<1>4. PICK o \in BOOLEAN : toClient' = Append(toClient, [type |-> "list", outdated |-> o])
  BY DEF Process_Handshake
<1>5. toClient' = <<[type |-> "list", outdated |-> o]>>
  BY <1>2, <1>4, OneMessage DEF Greeting
<1>6. Session'
  BY <1>2, <1>3, <1>5 DEF Process_Handshake, Session, Listing, Heard, Greeting
<1>7. Typed'
  BY <1>1 DEF Process_Handshake, Typed, IInv, Current
<1>8. NeverTorn'
  BY DEF Process_Handshake, NeverTorn, IInv
<1>9. Fetching'
  BY DEF Process_Handshake, Fetching, IInv, Wanted, Current, Got, Part
<1>10. QED
  BY <1>6, <1>7, <1>8, <1>9 DEF IInv

(* A portion of the current file is sent.                                  *)
LEMMA AnswerKeeps ==
    ASSUME IInv, link, phase = "connected", listed, toUpdate # {}, Heard,
           NEW p \in Nat, Got = p * SendSize, p * SendSize < Sizes[Current] \/ p = 0,
           SendPortion(Current, p), toClient = <<>>, toServer' = <<>>,
           UNCHANGED <<link, handshake, graceful, phase, listed, toUpdate, remaining, temp, local, origin>>
    PROVE  IInv'
<1>1. Current \in Files /\ remaining \in 0..Sizes[Current] /\ Sizes[Current] \in Nat
  BY CurrentIsOne, FilesAreNumbers DEF IInv, Fetching
<1> PICK i \in Files : i = Current
  BY <1>1
<1>2. PICK n \in 0..(Sizes[i] - p * SendSize) :
              /\ toClient' = <<[type |-> "data", bytes |-> Part(i, p * SendSize, n)]>>
              /\ ServerAt(i, p * SendSize + n)'
  BY PortionSent
<1>3. n \in 0..remaining
  BY <1>1, <1>2 DEF Got
<1>4. Current' = Current /\ Got' = Got
  BY DEF Current, Got
<1>5. Answered'
  BY <1>2, <1>3, <1>4 DEF Answered, Heard, ServerAt
<1>6. Session'
  BY <1>5 DEF Session
<1>7. updFile' \in {0} \cup Files /\ portion' \in Nat
  BY <1>1 DEF SendPortion
<1>8. Typed'
  BY <1>4, <1>7 DEF IInv, Typed
<1>9. NeverTorn'
  BY DEF NeverTorn, IInv
<1>10. Fetching'
  BY DEF Fetching, IInv, Wanted, Current, Got, Part
<1>11. QED
  BY <1>6, <1>8, <1>9, <1>10 DEF IInv

LEMMA UpdateFileKeeps ==
    ASSUME IInv, Process_UpdateFile
    PROVE  IInv'
<1>1. link /\ handshake /\ toServer # <<>> /\ Head(toServer).type = "getFile"
  BY DEF Process_UpdateFile, ToServer
<1>2. phase = "connected" /\ listed /\ toUpdate # {} /\ AskedFile
  <2>1. ~AskedData
    BY <1>1, OneMessage DEF AskedData
  <2>2. QED
    BY <1>1, <2>1 DEF IInv, Session, Greeting, Listing, Quiet, Answered, SentAway
<1>3. Head(toServer).index = Current /\ Tail(toServer) = <<>>
  BY <1>2, OneMessage DEF AskedFile
<1>4. Current \in Files /\ Sizes[Current] \in Nat
  BY <1>2, CurrentIsOne, FilesAreNumbers DEF IInv
<1>5. SendPortion(Current, 0) /\ UNCHANGED graceful
  BY <1>3, <1>4 DEF Process_UpdateFile
<1>6. Got = 0 * SendSize
  BY <1>2, <1>4, SendSizeAssumption DEF AskedFile, Got
<1>7. QED
  BY <1>1, <1>2, <1>3, <1>5, <1>6, AnswerKeeps DEF Process_UpdateFile, AskedFile

LEMMA UpdateFileDataKeeps ==
    ASSUME IInv, Process_UpdateFileData
    PROVE  IInv'
<1>1. link /\ handshake /\ toServer # <<>> /\ Head(toServer).type = "getData"
  BY DEF Process_UpdateFileData, ToServer
<1>2. phase = "connected" /\ listed /\ toUpdate # {} /\ AskedData
  <2>1. ~AskedFile
    BY <1>1, OneMessage DEF AskedFile
  <2>2. QED
    BY <1>1, <2>1 DEF IInv, Session, Greeting, Listing, Quiet, Answered, SentAway
<1>3. Tail(toServer) = <<>> /\ toServer' = <<>> /\ toClient = <<>> /\ Heard
  BY <1>2, OneMessage DEF AskedData, Process_UpdateFileData
<1>4. Current \in Files /\ Sizes[Current] \in Nat /\ 0 \notin Files /\ remaining \in 0..Sizes[Current]
  BY <1>2, CurrentIsOne, FilesAreNumbers, SizesAssumption DEF IInv, Fetching, Files
<1>5. CASE updFile = 0
  <2>1. GracefulDisconnect
    BY <1>5 DEF Process_UpdateFileData
  <2>2. WholePortions(Current)
    BY <1>2, <1>4, <1>5 DEF AskedData, ServerAt, Got
  <2>3. toClient' = <<[type |-> "disconnect"]>> /\ Current' = Current
    BY <1>3, <2>1, OneMessage DEF GracefulDisconnect, Process_UpdateFileData, Current
  <2>4. SentAway'
    BY <1>3, <2>2, <2>3 DEF SentAway, WholePortions
  <2>5. Session'
    BY <1>2, <2>4 DEF Session, Process_UpdateFileData
  <2>6. Typed'
    BY <1>1, <2>1, <2>3 DEF Process_UpdateFileData, GracefulDisconnect, Typed, IInv
  <2>7. NeverTorn'
    BY DEF Process_UpdateFileData, NeverTorn, IInv
  <2>8. Fetching'
    BY DEF Process_UpdateFileData, Fetching, IInv, Wanted, Current, Got, Part
  <2>9. QED
    BY <2>5, <2>6, <2>7, <2>8 DEF IInv
<1>6. CASE updFile # 0
  <2>1. SendPortion(updFile, portion) /\ UNCHANGED graceful
    BY <1>6 DEF Process_UpdateFileData
  <2>2. updFile = Current /\ Got = portion * SendSize /\ portion * SendSize < Sizes[Current]
    BY <1>2, <1>6 DEF AskedData, ServerAt
  <2>3. portion \in Nat
    BY DEF IInv, Typed
  <2>4. QED
    BY <1>1, <1>2, <1>3, <2>1, <2>2, <2>3, AnswerKeeps DEF Process_UpdateFileData
<1>7. QED
  BY <1>5, <1>6

(* The updater gives up: nothing is on its way any more.                   *)
LEMMA AbortKeeps ==
    ASSUME IInv, Abort, NeverTorn',
           handshake' \in BOOLEAN, graceful' \in BOOLEAN, listed' \in BOOLEAN,
           updFile' \in {0} \cup Files, portion' \in Nat,
           toUpdate' \in SUBSET Files, remaining' \in Nat,
           local' \in [Files -> {NoFile} \cup Seq(Bytes)], origin' = origin,
           ~listed' => toUpdate' = {}
    PROVE  IInv'
BY DEF IInv, Abort, Typed, Fetching, Session

(* The updater asks for the first of the files q, or has all of them.      *)
LEMMA RequestKeeps ==
    ASSUME IInv, NEW q \in SUBSET Files, RequestFile(q), NeverTorn',
           toServer = <<>>, toClient' = <<>>, listed', listed' \in BOOLEAN,
           link' => Heard,
           local' \in [Files -> {NoFile} \cup Seq(Bytes)],
           \A i \in Files \ q : ~Wanted(i)',
           UNCHANGED <<link, handshake, updFile, portion, graceful, origin>>
    PROVE  IInv'
<1>1. phase' = "connected" /\ toUpdate' = q
  BY DEF RequestFile
<1>2. CASE q = {}
  <2>1. toServer' = <<>> /\ remaining' = 0 /\ temp' = NoFile
    BY <1>2 DEF RequestFile
  <2>2. Typed'
    BY <1>1, <2>1 DEF IInv, Typed
  <2>3. Fetching'
    BY <1>1, <1>2, <2>1 DEF Fetching
  <2>4. Session'
    BY <1>1, <1>2, <2>1 DEF Session, Quiet, Heard
  <2>5. QED
    BY <2>2, <2>3, <2>4 DEF IInv
<1>3. CASE q # {}
  <2> PICK i \in Files : i = Front(q) /\ Sizes[i] \in Nat
    BY <1>3, FrontIsOne, FilesAreNumbers
  <2>1. /\ toServer' = Append(toServer, [type |-> "getFile", index |-> i])
        /\ remaining' = Sizes[i] /\ temp' = <<>> /\ Current' = i
    BY <1>1, <1>3 DEF RequestFile, Current
  <2>2. toServer' = <<[type |-> "getFile", index |-> i]>>
    BY <2>1, OneMessage
  <2>3. AskedFile' \/ ~link'
    BY <2>1, <2>2 DEF AskedFile, Heard
  <2>4. Typed'
    BY <1>1, <1>3, <2>1, <2>2 DEF IInv, Typed
  <2>5. Got' = 0 /\ temp' = Part(i, 0, 0)
    BY <2>1, NoPart DEF Got
  <2>6. Fetching'
    BY <1>1, <1>3, <2>1, <2>5 DEF Fetching, Part
  <2>7. Session'
    BY <1>1, <1>3, <2>3 DEF Session
  <2>8. QED
    BY <2>4, <2>6, <2>7 DEF IInv
<1>4. QED
  BY <1>2, <1>3

LEMMA ResponseKeeps ==
    ASSUME IInv, Net_OnUpdateFilesResponse
    PROVE  IInv'
<1>1. phase = "connected" /\ link /\ toClient # <<>> /\ Head(toClient).type = "list"
  BY DEF Net_OnUpdateFilesResponse, ToClient
<1>2. ~listed /\ Listing
  <2>1. ~Answered /\ ~SentAway
    BY <1>1, OneMessage DEF Answered, SentAway
  <2>2. QED
    BY <1>1, <2>1 DEF IInv, Session, Greeting, Quiet, AskedFile, AskedData
<1>3. toServer = <<>> /\ Heard /\ Tail(toClient) = <<>>
  BY <1>2, OneMessage DEF Listing
<1>4. NeverTorn'
  BY DEF Net_OnUpdateFilesResponse, NeverTorn, IInv
<1>5. CASE Head(toClient).outdated
  BY <1>4, <1>5, AbortKeeps DEF Net_OnUpdateFilesResponse, server, IInv, Typed, Fetching
<1>6. CASE ~Head(toClient).outdated
  <2>1. /\ listed' = TRUE /\ RequestFile(FilesToUpdate) /\ toClient' = <<>>
        /\ UNCHANGED <<link, handshake, updFile, portion, graceful, local, origin>>
    BY <1>3, <1>6 DEF Net_OnUpdateFilesResponse, server
  <2>2. FilesToUpdate \in SUBSET Files /\ \A i \in Files \ FilesToUpdate : ~Wanted(i)'
    BY <2>1 DEF FilesToUpdate, Wanted
  <2>3. local' \in [Files -> {NoFile} \cup Seq(Bytes)]
    BY <2>1 DEF IInv, Typed
  <2>4. QED
    BY <1>3, <1>4, <2>1, <2>2, <2>3, RequestKeeps
<1>7. QED
  BY <1>5, <1>6

LEMMA DataKeeps ==
    ASSUME IInv, Net_OnUpdateFileData
    PROVE  IInv'
<1>1. phase = "connected" /\ link /\ toClient # <<>> /\ Head(toClient).type = "data"
  BY DEF Net_OnUpdateFileData, ToClient
<1>2. listed /\ toUpdate # {} /\ Answered
  <2>1. ~Listing /\ ~SentAway
    BY <1>1, OneMessage DEF Listing, SentAway
  <2>2. QED
    BY <1>1, <2>1 DEF IInv, Session, Greeting, Quiet, AskedFile, AskedData
<1> PICK i \in Files : i = Current /\ i \in toUpdate /\ Sizes[i] \in Nat
  BY <1>2, CurrentIsOne, FilesAreNumbers DEF IInv
<1> PICK got \in Nat : got = Got /\ got = Sizes[i] - remaining
  BY <1>1, <1>2 DEF IInv, Fetching, Got
<1>3. remaining \in 0..Sizes[i] /\ temp = Part(i, 0, got)
  BY <1>1, <1>2 DEF IInv, Fetching
<1>4. PICK n \in 0..remaining :
        toClient = <<[type |-> "data", bytes |-> Part(i, got, n)]>> /\ ServerAt(i, got + n)
  BY <1>2 DEF Answered
<1>5. toServer = <<>> /\ Heard /\ Tail(toClient) = <<>> /\ Head(toClient).bytes = Part(i, got, n)
  <2> DEFINE m == [type |-> "data", bytes |-> Part(i, got, n)]
  <2>1. Head(toClient) = m /\ Tail(toClient) = <<>>
    BY <1>4, OneMessage
  <2>2. m.bytes = Part(i, got, n)
    OBVIOUS
  <2>3. QED
    BY <1>2, <2>1, <2>2 DEF Answered
<1>6. n \in Nat /\ got + n <= Sizes[i] /\ remaining - n \in 0..Sizes[i] /\ got + n = Sizes[i] - (remaining - n)
  BY <1>3
<1>7. Part(i, got, n) \in Seq(Bytes) /\ Len(Part(i, got, n)) = n
  BY <1>6, PartType
<1>8. SubSeq(Part(i, got, n), 1, LeastOf(remaining, n)) = Part(i, got, n)
  <2>1. LeastOf(remaining, n) = n
    BY <1>3 DEF LeastOf
  <2>2. QED
    BY <1>7, <2>1, SubSeqFull
<1>9. /\ temp' = temp \o Part(i, got, n) /\ remaining' = remaining - n /\ toClient' = <<>>
      /\ UNCHANGED <<link, handshake, updFile, portion, graceful, listed, toUpdate, origin>>
      /\ IF remaining - n # 0
         THEN toServer' = Append(toServer, [type |-> "getData"]) /\ UNCHANGED <<phase, local>>
         ELSE /\ phase' = "rename" /\ local' = [local EXCEPT ![i] = NoFile]
              /\ UNCHANGED toServer
  <2> DEFINE bytes == Head(toClient).bytes
             rest == remaining - Len(bytes)
  <2>1. bytes = Part(i, got, n) /\ rest = remaining - n /\ ~(rest < 0)
    BY <1>3, <1>5, <1>7
  <2>2. /\ temp' = temp \o SubSeq(bytes, 1, LeastOf(remaining, Len(bytes)))
        /\ remaining' = rest /\ toClient' = Tail(toClient) /\ UNCHANGED link
        /\ IF rest # 0
           THEN toServer' = Append(toServer, [type |-> "getData"]) /\ UNCHANGED <<phase, local>>
           ELSE /\ phase' = "rename" /\ local' = [local EXCEPT ![Front(toUpdate)] = NoFile]
                /\ UNCHANGED toServer
    BY <2>1 DEF Net_OnUpdateFileData, GotAll
  <2>3. UNCHANGED <<handshake, updFile, portion, graceful, listed, toUpdate, origin>>
    BY DEF Net_OnUpdateFileData, server
  <2> HIDE DEF bytes, rest
  <2>4. temp' = temp \o Part(i, got, n)
    BY <1>7, <1>8, <2>1, <2>2
  <2>5. QED
    BY <1>5, <2>1, <2>2, <2>3, <2>4 DEF Current
<1>10. temp' = Part(i, 0, got + n) /\ Current' = i /\ Got' = got + n
  BY <1>3, <1>6, <1>9, PartsJoin DEF Current, Got
<1>11. CASE remaining - n # 0
  <2>1. toServer' = <<[type |-> "getData"]>> /\ UNCHANGED <<phase, local>>
    BY <1>5, <1>9, <1>11, OneMessage
  <2>2. ServerAt(i, got + n)'
    BY <1>4, <1>9 DEF ServerAt
  <2>3. AskedData'
    BY <1>5, <1>6, <1>9, <1>10, <1>11, <2>1, <2>2 DEF AskedData, Heard, ServerAt
  <2>4. Session'
    BY <1>1, <1>2, <1>9, <2>1, <2>3 DEF Session
  <2>5. Fetching'
    BY <1>1, <1>2, <1>6, <1>9, <1>10, <2>1 DEF IInv, Fetching, Wanted, Part
  <2>6. Typed'
    BY <1>1, <1>6, <1>9, <2>1 DEF IInv, Typed
  <2>7. NeverTorn'
    BY <1>9, <2>1 DEF IInv, NeverTorn
  <2>8. QED
    BY <2>4, <2>5, <2>6, <2>7 DEF IInv
<1>12. CASE remaining - n = 0
  <2>1. /\ phase' = "rename" /\ local' = [local EXCEPT ![i] = NoFile] /\ toServer' = <<>>
    BY <1>5, <1>9, <1>12
  <2>2. Session'
    BY <1>5, <1>9, <2>1 DEF Session, Quiet, Heard
  <2>3. \A j \in Files \ {i} : local'[j] = local[j]
    BY <2>1 DEF IInv, Typed
  <2>4. \A j \in Files \ toUpdate' : ~Wanted(j)'
    BY <1>1, <1>2, <1>9, <2>3 DEF IInv, Fetching, Wanted
  <2>5. Fetching'
    BY <1>1, <1>2, <1>6, <1>9, <1>10, <1>12, <2>1, <2>4 DEF Fetching, Part
  <2>6. local' \in [Files -> {NoFile} \cup Seq(Bytes)] /\ local'[i] = NoFile
    BY <2>1 DEF IInv, Typed
  <2>7. Typed'
    BY <1>1, <1>6, <1>9, <2>1, <2>6 DEF IInv, Typed
  <2>8. NeverTorn'
    BY <1>9, <2>3, <2>6 DEF IInv, NeverTorn
  <2>9. QED
    BY <2>2, <2>5, <2>7, <2>8 DEF IInv
<1>13. QED
  BY <1>11, <1>12

LEMMA RenameKeeps ==
    ASSUME IInv, RenameTempFile
    PROVE  IInv'
<1>1. phase = "rename" /\ listed /\ toUpdate # {} /\ remaining = 0
  BY DEF RenameTempFile, IInv, Fetching
<1> PICK i \in Files : i = Current /\ i \in toUpdate /\ Sizes[i] \in Nat
  BY <1>1, CurrentIsOne, FilesAreNumbers DEF IInv
<1>2. temp = Content(i)
  <2>1. temp = Part(i, 0, Got) /\ Got = Sizes[i]
    BY <1>1 DEF IInv, Fetching, Got
  <2>2. QED
    BY <2>1, WholePart
<1>3. /\ local' = [local EXCEPT ![i] = temp] /\ RequestFile(toUpdate \ {i})
      /\ UNCHANGED <<link, toClient, handshake, updFile, portion, graceful, listed, origin>>
  BY DEF RenameTempFile, server, Current
<1>4. toServer = <<>> /\ toClient = <<>> /\ (link => Heard)
  BY <1>1 DEF IInv, Typed, Session, Quiet
<1>5. Content(i) \in Seq(Bytes) /\ Len(Content(i)) = Sizes[i] /\ Content(i) # NoFile
  BY ContentType
<1>6. /\ local' \in [Files -> {NoFile} \cup Seq(Bytes)] /\ local'[i] = Content(i)
      /\ \A j \in Files \ {i} : local'[j] = local[j]
  BY <1>2, <1>3, <1>5 DEF IInv, Typed
<1>7. NeverTorn'
  BY <1>3, <1>6 DEF IInv, NeverTorn
<1>8. \A j \in Files \ (toUpdate \ {i}) : ~Wanted(j)'
  BY <1>1, <1>5, <1>6 DEF IInv, Fetching, Wanted
<1>9. toUpdate \ {i} \in SUBSET Files
  BY DEF IInv, Typed
<1>10. QED
  BY <1>1, <1>3, <1>4, <1>6, <1>7, <1>8, <1>9, RequestKeeps DEF IInv, Typed

LEMMA ErrorKeeps ==
    ASSUME IInv, FileSystemError
    PROVE  IInv'
<1>1. Abort /\ UNCHANGED <<handshake, updFile, portion, graceful, origin>>
  BY DEF FileSystemError, server
<1>2. CASE UNCHANGED <<listed, toUpdate, remaining, local>>
  BY <1>1, <1>2, AbortKeeps DEF IInv, Typed, Fetching, NeverTorn
<1>3. CASE /\ FilesToUpdate # {} /\ listed' = TRUE /\ toUpdate' = FilesToUpdate
           /\ remaining' = Sizes[Front(FilesToUpdate)] /\ UNCHANGED local
  <2>1. FilesToUpdate \in SUBSET Files /\ Sizes[Front(FilesToUpdate)] \in Nat
    BY <1>3, FrontIsOne, FilesAreNumbers DEF FilesToUpdate
  <2>2. QED
    BY <1>1, <1>3, <2>1, AbortKeeps DEF IInv, Typed, NeverTorn
<1>4. CASE /\ phase = "rename" /\ toUpdate # {Front(toUpdate)}
           /\ local' = [local EXCEPT ![Front(toUpdate)] = temp]
           /\ toUpdate' = toUpdate \ {Front(toUpdate)} /\ remaining' = Sizes[Front(toUpdate')]
           /\ UNCHANGED listed
  <2>1. listed /\ toUpdate # {} /\ remaining = 0
    BY <1>4 DEF IInv, Fetching
  <2> PICK i \in Files : i = Current /\ i \in toUpdate /\ Sizes[i] \in Nat
    BY <2>1, CurrentIsOne, FilesAreNumbers DEF IInv
  <2>2. temp = Content(i)
    <3>1. temp = Part(i, 0, Got) /\ Got = Sizes[i]
      BY <1>4, <2>1 DEF IInv, Fetching, Got
    <3>2. QED
      BY <3>1, WholePart
  <2>3. Content(i) \in Seq(Bytes)
    BY ContentType
  <2>4. /\ local' \in [Files -> {NoFile} \cup Seq(Bytes)] /\ local'[i] = Content(i)
        /\ \A j \in Files \ {i} : local'[j] = local[j]
    BY <1>4, <2>2, <2>3 DEF IInv, Typed, Current
  <2>5. NeverTorn'
    BY <1>1, <2>4 DEF IInv, NeverTorn
  <2>6. toUpdate' \in SUBSET Files /\ toUpdate' # {}
    BY <1>4, <2>1 DEF IInv, Typed
  <2>7. remaining' \in Nat
    BY <1>4, <2>6, FrontIsOne, FilesAreNumbers
  <2>8. QED
    BY <1>1, <1>4, <2>1, <2>4, <2>5, <2>6, <2>7, AbortKeeps DEF IInv, Typed
<1>5. QED
  BY <1>2, <1>3, <1>4 DEF FileSystemError

LEMMA DisconnectKeeps ==
    ASSUME IInv, Net_OnDisconnect
    PROVE  IInv'
<1>1. /\ phase = "connected"
      /\ UNCHANGED <<handshake, updFile, portion, graceful, listed, toUpdate, remaining, local, origin>>
  BY DEF Net_OnDisconnect, server
<1>2. NeverTorn'
  BY <1>1 DEF IInv, NeverTorn
<1>3. CASE ~listed \/ toUpdate # {}
  BY <1>1, <1>2, <1>3, AbortKeeps DEF Net_OnDisconnect, IInv, Typed, Fetching
<1>4. CASE listed /\ toUpdate = {}
  <2>1. phase' = "ended" /\ UNCHANGED <<link, toServer, toClient, temp>>
    BY <1>4 DEF Net_OnDisconnect
  <2>2. ~link
    BY <1>1, <1>4 DEF Net_OnDisconnect, ToClient, IInv, Session, Quiet
  <2>3. QED
    BY <1>1, <1>2, <1>4, <2>1, <2>2 DEF IInv, Typed, Fetching, Session
<1>5. QED
  BY <1>3, <1>4 DEF IInv, Typed

LEMMA IInvNext == IInv /\ [Next]_vars => IInv'
<1> SUFFICES ASSUME IInv, [Next]_vars PROVE IInv'
  OBVIOUS
<1>1. CASE Connect
  <2>1. /\ toUpdate = {} /\ temp = NoFile /\ ~listed
    BY <1>1 DEF Connect, IInv, Fetching
  <2>2. Typed'
    BY <1>1 DEF Connect, IInv, Typed
  <2>3. NeverTorn'
    BY <1>1 DEF Connect, IInv, NeverTorn
  <2>4. Fetching'
    BY <1>1, <2>1 DEF Connect, Fetching
  <2>5. Session'
    BY <1>1, <2>1 DEF Connect, Session, Greeting
  <2>6. QED
    BY <2>2, <2>3, <2>4, <2>5 DEF IInv
<1>2. CASE CantConnect
  BY <1>2, AbortKeeps DEF CantConnect, server, IInv, Typed, Fetching, NeverTorn
<1>3. CASE Process
  <2>1. phase = "connected" /\ listed /\ toUpdate = {} /\ phase' = "ended"
    BY <1>3 DEF Process, Ready
  <2>2. toServer = <<>> /\ toClient = <<>>
    BY <2>1 DEF IInv, Typed, Session, Quiet
  <2>3. QED
    BY <1>3, <2>1, <2>2 DEF Process, server, IInv, Typed, NeverTorn, Fetching, Session
<1>4. CASE ConnectionBreaks
  <2>1. /\ link' = FALSE /\ toServer' = <<>> /\ toClient' = <<>>
        /\ UNCHANGED <<handshake, updFile, portion, graceful, phase, listed, toUpdate, remaining, temp,
                       local, origin>>
    BY <1>4 DEF ConnectionBreaks, server
  <2>2. Fetching'
    BY <2>1 DEF IInv, Fetching, Wanted, Current, Got, Part
  <2>3. QED
    BY <2>1, <2>2 DEF IInv, Typed, NeverTorn, Session
<1>5. CASE Restart
  BY <1>5 DEF Restart, server, IInv, Typed, NeverTorn, Fetching, Session
<1>6. CASE UNCHANGED vars
  <2>1. UNCHANGED <<link, toServer, toClient, handshake, updFile, portion, graceful, phase, listed,
                    toUpdate, remaining, temp, local, origin>>
    BY <1>6 DEF vars, server
  <2>2. Fetching'
    BY <2>1 DEF IInv, Fetching, Wanted, Current, Got, Part
  <2>3. Typed' /\ NeverTorn'
    BY <2>1 DEF IInv, Typed, NeverTorn, Current
  <2>4. Session'
    BY <2>1 DEF IInv, Session, Greeting, Listing, Quiet, AskedFile, AskedData, Answered, SentAway, Heard,
                ServerAt, Current, Got, Part
  <2>5. QED
    BY <2>2, <2>3, <2>4 DEF IInv
<1>7. QED
  BY <1>1, <1>2, <1>3, <1>4, <1>5, <1>6, HandshakeKeeps, UpdateFileKeeps, UpdateFileDataKeeps,
     ResponseKeeps, DataKeeps, RenameKeeps, ErrorKeeps, DisconnectKeeps DEF Next, Server, Client

LEMMA IInvAlways == Spec => []IInv
BY IInvInit, IInvNext, PTL DEF Spec

-----------------------------------------------------------------------------
(* The state of the exchange keeps its types.                              *)
THEOREM TypeTheorem == Spec => []TypeOK
<1>1. ASSUME IInv PROVE TypeOK
  <2>1. \A n \in DOMAIN toServer : toServer[n].type \in {"handshake", "getFile", "getData"}
    <3>1. toServer = <<>> \/ \E m : toServer = <<m>> /\ m.type \in {"handshake", "getFile", "getData"}
      BY <1>1 DEF IInv, Typed, Session, Greeting, Listing, Quiet, AskedFile, AskedData, Answered, SentAway
    <3>2. QED
      BY <3>1
  <2>2. \A n \in DOMAIN toClient : toClient[n].type \in {"list", "data", "disconnect"}
    <3>1. toClient = <<>> \/ \E m : toClient = <<m>> /\ m.type \in {"list", "data", "disconnect"}
      BY <1>1 DEF IInv, Typed, Session, Greeting, Listing, Quiet, AskedFile, AskedData, Answered, SentAway
    <3>2. QED
      BY <3>1
  <2>3. phase \in {"connected", "rename"} => (temp # NoFile <=> toUpdate # {})
    <3>1. CASE toUpdate = {}
      BY <1>1, <3>1 DEF IInv, Fetching
    <3>2. CASE toUpdate # {} /\ phase \in {"connected", "rename"}
      <4>1. Current \in Files /\ Sizes[Current] \in Nat
        BY <1>1, <3>2, CurrentIsOne, FilesAreNumbers DEF IInv
      <4>2. temp = Part(Current, 0, Got) /\ Got \in Nat /\ 0 + Got <= Sizes[Current]
        BY <1>1, <3>2, <4>1 DEF IInv, Fetching, Got
      <4>3. temp \in Seq(Bytes)
        BY <4>1, <4>2, PartType
      <4>4. QED
        BY <3>2, <4>3, NoFileAssumption
    <3>3. QED
      BY <3>1, <3>2
  <2>4. QED
    BY <1>1, <2>1, <2>2, <2>3 DEF IInv, Typed, TypeOK
<1>2. QED
  BY <1>1, IInvAlways, PTL

(* No torn file ever has a file's real name.                               *)
THEOREM NeverTornTheorem == Spec => []NeverTorn
<1>1. IInv => NeverTorn
  BY DEF IInv
<1>2. QED
  BY <1>1, IInvAlways, PTL

(* A client that is ready has all the files.                               *)
THEOREM ReadyIsCompleteTheorem == Spec => []ReadyIsComplete
<1>1. IInv => ReadyIsComplete
  BY DEF IInv, Fetching, NeverTorn, Ready, ReadyIsComplete, Wanted
<1>2. QED
  BY <1>1, IInvAlways, PTL

(* The two sides count the same, whatever the sizes are, but for the files *)
(* of whole portions.                                                      *)
THEOREM InStepTheorem == Spec => []InStep
<1>1. ASSUME IInv PROVE PortionsInStep
  <2> SUFFICES ASSUME phase = "connected", link, toUpdate # {}
               PROVE  /\ Len(temp) + remaining = Sizes[Current]
                      /\ \A k \in DOMAIN toClient : toClient[k].type = "data" =>
                            toClient[k].bytes = Part(Current, Len(temp), Len(toClient[k].bytes))
    BY DEF PortionsInStep, Current, Part
  <2> PICK i \in Files : i = Current /\ Sizes[i] \in Nat
    BY <1>1, CurrentIsOne, FilesAreNumbers DEF IInv
  <2>1. remaining \in 0..Sizes[i] /\ temp = Part(i, 0, Got) /\ Got = Sizes[i] - remaining
    BY <1>1 DEF IInv, Fetching, Got
  <2>2. Got \in Nat /\ 0 + Got <= Sizes[i] /\ Got + remaining = Sizes[i]
    BY <2>1
  <2>3. Len(temp) = Got
    BY <2>1, <2>2, PartType
  <2>4. ASSUME NEW k \in DOMAIN toClient, toClient[k].type = "data"
        PROVE  toClient[k].bytes = Part(i, Got, Len(toClient[k].bytes))
    <3>1. listed /\ Answered
      BY <1>1, <2>4 DEF IInv, Fetching, Session, Greeting, Listing, Quiet, AskedFile, AskedData, SentAway
    <3>2. PICK n \in 0..remaining : toClient = <<[type |-> "data", bytes |-> Part(i, Got, n)]>>
      BY <3>1 DEF Answered
    <3>3. toClient[k].bytes = Part(i, Got, n)
      BY <2>4, <3>2
    <3>4. n \in Nat /\ Got + n <= Sizes[i]
      BY <2>1, <2>2, <3>2
    <3>5. Len(Part(i, Got, n)) = n
      BY <2>2, <3>4, PartType
    <3>6. QED
      BY <3>3, <3>5
  <2>5. QED
    BY <2>2, <2>3, <2>4
<1>2. ASSUME IInv PROVE WrongCallOnlyOnWholePortions
  <2> SUFFICES ASSUME WrongUpdateCall PROVE toUpdate # {} /\ WholePortions(Current)
    BY DEF WrongCallOnlyOnWholePortions, Current
  <2>1. link /\ handshake /\ toServer # <<>> /\ Head(toServer).type = "getData" /\ updFile = 0
    BY DEF WrongUpdateCall, ToServer
  <2>2. phase = "connected" /\ toUpdate # {} /\ AskedData
    <3>1. ~AskedFile
      BY <2>1, OneMessage DEF AskedFile
    <3>2. QED
      BY <1>2, <2>1, <3>1 DEF IInv, Session, Greeting, Listing, Quiet, Answered, SentAway
  <2>3. Current \in Files /\ Sizes[Current] \in Nat /\ 0 \notin Files /\ remaining \in 0..Sizes[Current]
    BY <1>2, <2>2, CurrentIsOne, FilesAreNumbers, SizesAssumption DEF IInv, Fetching, Files
  <2>4. QED
    BY <2>1, <2>2, <2>3 DEF AskedData, ServerAt, Got
<1>3. IInv => InStep
  BY <1>1, <1>2 DEF InStep
<1>4. QED
  BY <1>3, IInvAlways, PTL
=============================================================================
