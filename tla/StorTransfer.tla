---------------------------- MODULE StorTransfer ----------------------------
(***************************************************************************)
(* One STOR, STOU or APPE over the reliable UDP data channel, after the    *)
(* handshake: the client's transfer worker (sendFromReader over the        *)
(* stop-and-wait RdtSender), the server's transfer worker                  *)
(* (startUploadTransfer: receiveFile over RdtReceiver, the append, the     *)
(* clean-up and finishTransfer) and a network that loses, duplicates,      *)
(* delays and reorders datagrams.  The transfer is in TYPE I.              *)
(*                                                                         *)
(* Unlike the client's receiver, the server's acknowledges the final       *)
(* datagram on receipt; the client trusts the completion reply instead.    *)
(***************************************************************************)
EXTENDS Integers, Sequences

CONSTANTS File,           \* chunks the client's reader yields
          OldFile,        \* chunks of a file that the destination may hold before
          Absent,         \* a path at which there is no file
          EmptyChunk,     \* payload of the only packet of an empty file
          DiskFails,      \* whether the server's file system may refuse an operation
          ReceiveWindow,  \* RDT_RECEIVE_WINDOW
          MaxRetries      \* MAX_RETRIES of the client's RdtSender: attempts per chunk

ASSUME UploadFileAssumption == File # <<>> /\ File \in Seq({File[i] : i \in DOMAIN File})
ASSUME UploadWindowAssumption == ReceiveWindow \in Nat \ {0}
ASSUME DiskAssumption == DiskFails \in BOOLEAN
ASSUME AttemptsAssumption == MaxRetries \in Nat \ {0}

VARIABLES
  \* client worker
  cPc,          \* where sendFromReader is
  seq,          \* chunk that sendChunk is sending
  attempt,      \* attempts of sendChunk for it that have begun
  cAbort,       \* ClientState::abortRequested
  \* network
  packets,      \* DATA datagrams under way to the server
  acks,         \* sequence numbers of ACK datagrams under way to the client
  \* server worker
  kind,         \* UploadKind
  before,       \* content of the destination when the worker starts
  sPc,          \* where the worker is
  expected,     \* RdtReceiver::expected_seq
  buffer,       \* RdtReceiver::outOfOrderBuffer
  chunk,        \* what receiveNext returned last
  temporary,    \* temporary file of ChunkedFileWriter
  staging,      \* staging file of an APPE
  destination,  \* file the client named, or the reserved one of a STOU
  left,         \* files whose removal failed, an error that the code ignores
  success,      \* result of the transfer so far
  sAbort,       \* ClientSession::abortRequested
  reply         \* reply to the transfer on the control connection

netVars == <<packets, acks>>
clientVars == <<cPc, seq, attempt, cAbort>>
fileVars == <<temporary, staging, destination, left>>
serverVars == <<kind, before, sPc, expected, buffer, chunk, fileVars, success,
                sAbort, reply>>
vars == <<clientVars, netVars, serverVars>>

N == Len(File)
Seqs == 0 .. N - 1
Packet(s) == [seq |-> s, data |-> File[s + 1], fin |-> s = N - 1]
Packets == {Packet(s) : s \in Seqs}

-----------------------------------------------------------------------------
(* Client: RdtSender *)

\* Mutant: one attempt too many.
SendAttemptOnceMore ==
  /\ cPc = "send" /\ ~cAbort
  /\ attempt <= MaxRetries
  /\ attempt' = attempt + 1
  /\ packets' = packets \cup {Packet(seq)}
  /\ cPc' = "wait"
  /\ UNCHANGED <<seq, cAbort, acks, serverVars>>

\* Mutant: the attempt is not counted.
SendAttemptUncounted ==
  /\ cPc = "send" /\ ~cAbort
  /\ attempt < MaxRetries
  /\ packets' = packets \cup {Packet(seq)}
  /\ cPc' = "wait"
  /\ UNCHANGED <<seq, attempt, cAbort, acks, serverVars>>

\* sendChunk: one attempt, whose sendto succeeds.
SendAttempt ==
  /\ cPc = "send" /\ ~cAbort
  /\ attempt < MaxRetries
  /\ attempt' = attempt + 1
  /\ packets' = packets \cup {Packet(seq)}
  /\ cPc' = "wait"
  /\ UNCHANGED <<seq, cAbort, acks, serverVars>>

\* sendto fails: the attempt is spent without a wait.
SendAttemptFails ==
  /\ cPc = "send" /\ ~cAbort
  /\ attempt < MaxRetries
  /\ attempt' = attempt + 1
  /\ UNCHANGED <<cPc, seq, cAbort, netVars, serverVars>>

\* Mutant: any acknowledgement will do.
ReceiveAnyAck(s) ==
  /\ cPc = "wait" /\ ~cAbort
  /\ s \in acks
  /\ IF seq = N - 1
     THEN cPc' = "success" /\ UNCHANGED <<seq, attempt>>
     ELSE cPc' = "send" /\ seq' = seq + 1 /\ attempt' = 0
  /\ UNCHANGED <<cAbort, netVars, serverVars>>

\* waitForAck: a stale acknowledgement is ignored, the awaited one completes
\* sendChunk.
ReceiveAck(s) ==
  /\ cPc = "wait" /\ ~cAbort
  /\ s \in acks /\ s = seq
  /\ IF seq = N - 1
     THEN cPc' = "success" /\ UNCHANGED <<seq, attempt>>
     ELSE cPc' = "send" /\ seq' = seq + 1 /\ attempt' = 0
  /\ UNCHANGED <<cAbort, netVars, serverVars>>

\* waitForAck returns false: timeout or socket error.
AckTimeout ==
  /\ cPc = "wait" /\ ~cAbort
  /\ cPc' = "send"
  /\ UNCHANGED <<seq, attempt, cAbort, netVars, serverVars>>

AttemptsExhausted ==
  /\ cPc = "send" /\ ~cAbort
  /\ attempt >= MaxRetries
  /\ cPc' = "failure"
  /\ UNCHANGED <<seq, attempt, cAbort, netVars, serverVars>>

SenderAborts ==
  /\ cPc \in {"send", "wait"} /\ cAbort
  /\ cPc' = "failure"
  /\ UNCHANGED <<seq, attempt, cAbort, netVars, serverVars>>

\* The user types ABOR.
RequestClientAbort ==
  /\ ~cAbort
  /\ cAbort' = TRUE
  /\ UNCHANGED <<cPc, seq, attempt, netVars, serverVars>>

-----------------------------------------------------------------------------
(* Server: RdtReceiver and receiveFile *)

Buffered(s) == \E p \in buffer : p.seq = s

Deliver(p) ==
  /\ chunk' = p
  /\ expected' = expected + 1
  /\ sPc' = "append"

\* receiveNext looks into the buffer before it reads the socket.  With a
\* stop-and-wait sender it never finds anything there (LockStep), so the
\* delivery from the buffer has no action here; RetrTransfer has it.
InReceiveLoop == sPc = "receive" /\ ~sAbort /\ ~Buffered(expected)

\* A datagram below the window was delivered before: it is acknowledged again.
ReceiveOld(p) ==
  /\ InReceiveLoop
  /\ p \in packets /\ p.seq < expected
  /\ acks' = acks \cup {p.seq}
  /\ UNCHANGED <<clientVars, packets, serverVars>>

\* A datagram inside the window is acknowledged and delivered or kept; one
\* outside it is dropped.  sendAck ignores the result of sendto.
ReceiveNew(p) ==
  /\ InReceiveLoop
  /\ p \in packets
  /\ p.seq >= expected /\ p.seq < expected + ReceiveWindow
  /\ acks' = acks \cup {p.seq}
  /\ IF p.seq = expected
     THEN Deliver(p) /\ UNCHANGED buffer
     ELSE /\ buffer' = IF Buffered(p.seq) THEN buffer ELSE buffer \cup {p}
          /\ UNCHANGED <<chunk, expected, sPc>>
  /\ UNCHANGED <<clientVars, packets, kind, before, fileVars, success, sAbort, reply>>

\* fs::remove(path, ignored): which of the files that it is called for stay.
Staying(files) == IF DiskFails THEN SUBSET files ELSE {{}}

\* receiveFile returns false, and the destructor of the writer removes the
\* temporary file, or tries to.
GiveUpReceiving ==
  /\ \E stay \in Staying({"temporary"}) :
       /\ left' = left \cup stay
       /\ temporary' = IF "temporary" \in stay THEN temporary ELSE Absent
  /\ sPc' = "cleanup"
  /\ UNCHANGED <<clientVars, netVars, kind, before, expected, buffer, chunk,
                 staging, destination, success, sAbort, reply>>

\* Idle timeout, socket error or abort in receiveNext.
ReceiveFails == InReceiveLoop /\ GiveUpReceiving
ReceiveAborted == sPc = "receive" /\ sAbort /\ GiveUpReceiving

\* ChunkedFileWriter::appendChunk takes the chunks in sequence.
AppendChunk ==
  /\ sPc = "append" /\ ~sAbort
  /\ chunk.seq = Len(temporary)
  /\ temporary' = Append(temporary, chunk.data)
  /\ sPc' = IF chunk.fin THEN "commit" ELSE "receive"
  /\ UNCHANGED <<clientVars, netVars, kind, before, expected, buffer, chunk,
                 staging, destination, left, success, sAbort, reply>>

\* The chunk cannot be written, or the session was aborted.
AppendFails == sPc = "append" /\ (DiskFails \/ sAbort) /\ GiveUpReceiving

\* ChunkedFileWriter::commit moves the temporary file onto receivePath, which
\* is the staging file of an APPE and otherwise the destination.
Commit ==
  /\ sPc = "commit" /\ ~sAbort
  /\ IF kind = "Append"
     THEN staging' = temporary /\ UNCHANGED destination
     ELSE destination' = temporary /\ UNCHANGED staging
  /\ temporary' = Absent
  /\ success' = TRUE
  /\ sPc' = "received"
  /\ UNCHANGED <<clientVars, netVars, kind, before, expected, buffer, chunk,
                 left, sAbort, reply>>

CommitFails == sPc = "commit" /\ (DiskFails \/ sAbort) /\ GiveUpReceiving

-----------------------------------------------------------------------------
(* Server: the rest of startUploadTransfer's worker *)

Content(file) == IF file = Absent THEN <<>> ELSE file

\* "output << buffer" fails when the buffer has no character to insert, so
\* neither an existing destination nor the upload may be empty.
HasBytes(file) == \E i \in DOMAIN file : file[i] # EmptyChunk
CanCombine == HasBytes(staging) /\ (destination # Absent => HasBytes(destination))

\* Mutant: the staged chunks replace the destination.
AppendAtomicallyReplaces ==
  /\ sPc = "received" /\ kind = "Append" /\ ~sAbort
  /\ destination' = staging
  /\ sPc' = "cleanup"
  /\ UNCHANGED <<clientVars, netVars, kind, before, expected, buffer, chunk,
                 temporary, staging, left, success, sAbort, reply>>

\* appendAtomically: old content and staged chunks are combined in a sibling
\* file, which is then moved onto the destination.
AppendAtomically ==
  /\ sPc = "received" /\ kind = "Append" /\ ~sAbort
  /\ CanCombine
  /\ destination' = Content(destination) \o staging
  /\ sPc' = "cleanup"
  /\ UNCHANGED <<clientVars, netVars, kind, before, expected, buffer, chunk,
                 temporary, staging, left, success, sAbort, reply>>

\* A step of appendAtomically, or the hash before it, fails.  The sibling file
\* is removed, or stays.
AppendAtomicallyFails ==
  /\ sPc = "received" /\ kind = "Append" /\ ~sAbort
  /\ DiskFails \/ ~CanCombine
  /\ \E stay \in Staying({"combined"}) : left' = left \cup stay
  /\ success' = FALSE
  /\ sPc' = "cleanup"
  /\ UNCHANGED <<clientVars, netVars, kind, before, expected, buffer, chunk,
                 temporary, staging, destination, sAbort, reply>>

\* Nothing to append, or an abort that leaves success as it is.
SkipAppend ==
  /\ sPc = "received" /\ (kind # "Append" \/ sAbort)
  /\ sPc' = "cleanup"
  /\ UNCHANGED <<clientVars, netVars, kind, before, expected, buffer, chunk,
                 fileVars, success, sAbort, reply>>

\* Mutant: the reserved file of a failed STOU stays.
CleanUpStagingOnly ==
  /\ sPc = "cleanup"
  /\ staging' = Absent
  /\ sPc' = "finish"
  /\ UNCHANGED <<clientVars, netVars, kind, before, expected, buffer, chunk,
                 temporary, destination, left, success, sAbort, reply>>

\* What the worker removes: the staging file of an APPE, and the reserved file
\* of a STOU that failed.
Unwanted == {f \in {"staging", "destination"} :
               IF f = "staging" THEN kind = "Append" ELSE kind = "Unique" /\ ~success}

\* The unwanted files are removed, except those whose removal fails.
CleanUp ==
  /\ sPc = "cleanup"
  /\ \E stay \in Staying(Unwanted) :
       LET removed == Unwanted \ stay IN
       /\ left' = left \cup stay
       /\ staging' = IF "staging" \in removed THEN Absent ELSE staging
       /\ destination' = IF "destination" \in removed THEN Absent ELSE destination
  /\ sPc' = "finish"
  /\ UNCHANGED <<clientVars, netVars, kind, before, expected, buffer, chunk,
                 temporary, success, sAbort, reply>>

\* Mutant: the abort flag is not looked at again.
FinishTransferUnchecked ==
  /\ sPc = "finish"
  /\ reply' = IF success THEN "226" ELSE "426"
  /\ sPc' = "finished"
  /\ UNCHANGED <<clientVars, netVars, kind, before, expected, buffer, chunk,
                 fileVars, success, sAbort>>

\* finishTransfer, under replyMutex.
FinishTransfer ==
  /\ sPc = "finish"
  /\ reply' = IF sAbort THEN "suppressed" ELSE IF success THEN "226" ELSE "426"
  /\ sPc' = "finished"
  /\ UNCHANGED <<clientVars, netVars, kind, before, expected, buffer, chunk,
                 fileVars, success, sAbort>>

\* The control thread handles ABOR, or the session shuts down.
RequestServerAbort ==
  /\ sPc # "finished" /\ ~sAbort
  /\ sAbort' = TRUE
  /\ UNCHANGED <<clientVars, netVars, kind, before, sPc, expected, buffer, chunk,
                 fileVars, success, reply>>

\* The ABOR handler has joined the worker: 426 "Transfer aborted.".
AborReply ==
  /\ reply = "suppressed"
  /\ reply' = "aborted"
  /\ UNCHANGED <<clientVars, netVars, kind, before, sPc, expected, buffer, chunk,
                 fileVars, success, sAbort>>

-----------------------------------------------------------------------------

LosePacket(p) ==
  /\ p \in packets
  /\ packets' = packets \ {p}
  /\ UNCHANGED <<clientVars, acks, serverVars>>

LoseAck(s) ==
  /\ s \in acks
  /\ acks' = acks \ {s}
  /\ UNCHANGED <<clientVars, packets, serverVars>>

\* reserveUniqueUpload left an empty file at the destination of a STOU, and
\* createSiblingTemporaryPath one at the staging path of an APPE.
Init ==
  /\ cPc = "send" /\ seq = 0 /\ attempt = 0 /\ cAbort = FALSE
  /\ packets = {} /\ acks = {}
  /\ \/ kind = "Store" /\ before \in {Absent, OldFile, <<>>} /\ staging = Absent
     \/ kind = "Unique" /\ before = <<>> /\ staging = Absent
     \/ kind = "Append" /\ before \in {Absent, OldFile, <<>>} /\ staging = <<>>
  /\ sPc = "receive" /\ expected = 0 /\ buffer = {}
  /\ chunk = Packet(0)
  /\ temporary = <<>> /\ destination = before
  /\ left = {} /\ success = FALSE /\ sAbort = FALSE /\ reply = "none"

ClientNext ==
  \/ SendAttempt \/ SendAttemptFails
  \/ \E s \in acks : ReceiveAck(s)
  \/ AckTimeout \/ AttemptsExhausted \/ SenderAborts

Receive == \/ \E p \in packets : ReceiveOld(p)
           \/ \E p \in packets : ReceiveNew(p)

Store == \/ AppendChunk \/ AppendFails
         \/ Commit \/ CommitFails
         \/ AppendAtomically \/ AppendAtomicallyFails \/ SkipAppend
         \/ CleanUp \/ FinishTransfer

ServerNext == Receive \/ ReceiveFails \/ ReceiveAborted \/ Store \/ AborReply

NetworkNext == \/ \E p \in packets : LosePacket(p)
               \/ \E s \in acks : LoseAck(s)

ClientEnded == cPc \in {"success", "failure"}

Ended == sPc = "finished" /\ ClientEnded /\ UNCHANGED vars

Next == ClientNext \/ ServerNext \/ NetworkNext
        \/ RequestClientAbort \/ RequestServerAbort \/ Ended

\* The threads run, a blocking receive times out sooner or later, and nothing
\* is assumed of the network.
Fairness ==
  /\ WF_vars(SendAttempt \/ SendAttemptFails \/ AckTimeout \/ AttemptsExhausted
             \/ SenderAborts)
  /\ WF_vars(ReceiveFails \/ ReceiveAborted)
  /\ WF_vars(Store)

Spec == Init /\ [][Next]_vars
FairSpec == Spec /\ Fairness

-----------------------------------------------------------------------------
(* Properties *)

Payloads == {File[i] : i \in DOMAIN File}

\* What the destination holds after a successful upload.
Result == IF kind = "Append" THEN Content(before) \o File ELSE File

\* What it holds after a failed one: what it held before, but for the reserved
\* file of a STOU, which is removed if it can be.
Unreceived == IF kind = "Unique" /\ "destination" \notin left THEN Absent ELSE before

\* Types, and the bound on the attempts for one chunk.
TypeOK ==
  /\ cPc \in {"send", "wait", "success", "failure"}
  /\ seq \in Seqs /\ attempt \in 0 .. MaxRetries
  /\ cAbort \in BOOLEAN /\ sAbort \in BOOLEAN /\ success \in BOOLEAN
  /\ packets \subseteq Packets /\ acks \subseteq Seqs
  /\ kind \in {"Store", "Unique", "Append"}
  /\ before \in {Absent, OldFile, <<>>}
  /\ sPc \in {"receive", "append", "commit", "received", "cleanup", "finish", "finished"}
  /\ expected \in 0 .. N
  /\ buffer \subseteq Packets /\ chunk \in Packets
  /\ temporary \in {Absent} \cup Seq(Payloads)
  /\ staging \in {Absent} \cup Seq(Payloads)
  /\ destination \in {before, Result, Absent}
  /\ left \subseteq {"temporary", "combined", "staging", "destination"}
  /\ reply \in {"none", "226", "426", "suppressed", "aborted"}

\* Sender and receiver stay in lock step: the receiver is at the chunk being
\* sent or one past it, so a stale or repeated datagram can never be taken for
\* a new one, nothing is ever buffered, and a client that got its last
\* acknowledgement has delivered every chunk.
LockStep ==
  /\ expected \in {seq, seq + 1}
  /\ buffer = {}
  /\ cPc = "success" => expected = N

\* 226 for STOR, STOU and APPE means that the destination holds the upload:
\* also for an APPE that is aborted between the receipt and the append, when
\* the worker's success flag is already set.
CompleteReplyMeansStored == reply = "226" => destination = Result

\* When the worker ends, a temporary file, the staging or the combined file of
\* an APPE, or the reserved name of a STOU that failed is still there only where
\* its removal failed.  The upload is at the destination with a 226, or with an
\* ABOR that came too late: a STOU aborted after its commit is told 426 and its
\* file stays.  A 426 of the worker itself never leaves the upload there.
NothingLeftBehind ==
  sPc = "finished" =>
    /\ temporary # Absent => "temporary" \in left
    /\ staging # Absent => "staging" \in left
    /\ "combined" \in left => destination = before
    /\ \/ destination = Result /\ (reply = "226" \/ sAbort)
       \/ destination = Unreceived /\ reply # "226"

\* The destination changes once: to the complete result, or, for a STOU that
\* failed, to nothing.
DestinationReplacedWhole ==
  [][destination' # destination =>
       /\ destination = before
       /\ destination' = Result \/ (kind = "Unique" /\ destination' = Absent)]_vars

\* What is under way between the two ends, and how far each of them is.
ChannelInStep ==
  /\ LockStep
  /\ \A p \in packets : p.seq <= seq
  /\ \A s \in acks : s < expected

\* While receiveFile runs the temporary file holds the chunks below expected.
ReceiverInStep ==
  sPc \in {"receive", "append", "commit"} =>
    /\ temporary \in Seq(Payloads)
    /\ \A i \in 1 .. Len(temporary) : temporary[i] = File[i]
    /\ sPc = "receive" => Len(temporary) = expected /\ expected < N
    /\ sPc = "append" => chunk.seq = Len(temporary) /\ expected = chunk.seq + 1
    /\ sPc = "commit" => Len(temporary) = N

\* What the worker has done to the files at each of its steps.
FilesInStep ==
  /\ sPc \in {"receive", "append", "commit"} => destination = before /\ ~success
  /\ sPc \in {"receive", "append", "commit", "received"} => left = {}
  /\ sPc \notin {"receive", "append", "commit"} =>
       temporary = Absent \/ "temporary" \in left
  /\ sPc = "received" =>
       /\ success
       /\ IF kind = "Append" THEN destination = before /\ staging = File
                             ELSE destination = File
  /\ sPc \in {"cleanup", "finish", "finished"} /\ success =>
       destination = Result \/ (kind = "Append" /\ sAbort /\ destination = before)
  /\ sPc = "cleanup" =>
       /\ "destination" \notin left
       /\ ~success => destination = before
  /\ kind # "Append" => staging = Absent
  /\ "combined" \in left => kind = "Append" /\ ~success
  /\ sPc \in {"finish", "finished"} =>
       /\ staging = Absent \/ "staging" \in left
       /\ ~success => destination = Unreceived

\* The reply is the worker's last step; 226 follows a stored upload, 426 a
\* failed one, and an aborted worker leaves it to the ABOR handler.
ReplyInStep ==
  /\ sPc # "finished" <=> reply = "none"
  /\ reply = "226" => destination = Result
  /\ reply = "426" => ~success
  /\ reply \in {"suppressed", "aborted"} => sAbort

\* The inductive invariant.
Inv == TypeOK /\ ChannelInStep /\ ReceiverInStep /\ FilesInStep /\ ReplyInStep

\* Both workers return, however bad the network is and whoever aborts.
TransferEnds == <>(sPc = "finished" /\ ClientEnded)

\* tests/test_remaining_commands.cpp: after the 426 of ABOR, "Cancelled APPE
\* changed the original destination" is a failure.
CancelledAppendPreserves ==
  kind = "Append" /\ reply = "aborted" => destination = before

\* The help text of APPE: "Append the uploaded data to an existing file on the
\* server; create it if absent."  Without a disk failure an APPE whose chunks
\* all arrived is not refused.
ReceivedAppendIsStored ==
  kind = "Append" /\ reply = "426" => expected < N

=============================================================================
