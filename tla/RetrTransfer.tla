---------------------------- MODULE RetrTransfer ----------------------------
(***************************************************************************)
(* One RETR over the reliable UDP data channel, after the handshake: the   *)
(* server's transfer worker (sendFromReader over the selective-repeat      *)
(* RdtSender, then finishTransfer), the client's transfer worker           *)
(* (receiveFile over RdtReceiver, with its ChunkedFileWriter) and the      *)
(* network between them, which loses, duplicates, delays and reorders      *)
(* datagrams.  A corrupt datagram fails its checksum and is dropped by     *)
(* both ends, so it is a lost one.  The transfer is in TYPE I.             *)
(*                                                                         *)
(* Time is left out: a packet that is in flight and not acknowledged may   *)
(* be found expired by any poll.                                           *)
(***************************************************************************)
EXTENDS Integers, Sequences, FiniteSets

CONSTANTS File,           \* chunks the reader yields; an empty file is one empty chunk
          OldFile,        \* what the client's destination holds before the transfer
          ReceiveWindow,  \* RDT_RECEIVE_WINDOW
          InitialCwnd,    \* INITIAL_CWND
          MaxRetries      \* MAX_RETRIES

ASSUME FileAssumption == File # <<>> /\ File \in Seq({File[i] : i \in DOMAIN File})
ASSUME OldFileAssumption == OldFile # File
ASSUME WindowAssumption == ReceiveWindow \in Nat \ {0}
ASSUME CwndAssumption == InitialCwnd \in Nat \ {0}
ASSUME RetriesAssumption == MaxRetries \in Nat

VARIABLES
  \* server worker
  sPc,          \* where sendFromReader is
  next,         \* sequence number of the next chunk to send
  base,         \* oldest packet in RdtSender::window; next when it is empty
  acked,        \* sequence numbers whose acknowledgement was accepted
  retries,      \* InFlightPacket::retries; retransmitted is retries > 0
  cwnd,         \* floor of RdtSender::cwnd
  cleanAcks,
  sAbort,       \* ClientSession::abortRequested
  reply,        \* completion reply written by finishTransfer
  \* network
  packets,      \* DATA datagrams under way to the client
  responses,    \* ACK and NAK datagrams under way to the server
  \* client worker
  rPc,          \* where receiveFile is
  expected,     \* RdtReceiver::expectedSequence
  buffer,       \* RdtReceiver::outOfOrderBuffer
  finalPending, \* pendingFinalSequence, or None unless finalAcknowledgementPending
  chunk,        \* what receiveNext returned last
  written,      \* chunks in the temporary file
  destination,  \* content of the local destination
  cAbort        \* ClientState::abortRequested

serverVars == <<sPc, next, base, acked, retries, cwnd, cleanAcks, sAbort, reply>>
clientVars == <<rPc, expected, buffer, finalPending, chunk, written,
                destination, cAbort>>
vars == <<serverVars, packets, responses, clientVars>>

-----------------------------------------------------------------------------
(* Datagrams *)

N == Len(File)
Seqs == 0 .. N - 1
None == -1

\* Mutant: FIN is set one chunk early as well.
PacketFinEarly(s) == [seq |-> s, data |-> File[s + 1], fin |-> s >= N - 2]

\* A DATA datagram; InFlightPacket keeps the payload, so a retransmission is
\* the same datagram again.
Packet(s) == [seq |-> s, data |-> File[s + 1], fin |-> s = N - 1]
Packets == {Packet(s) : s \in Seqs}

Ack(s) == [kind |-> "ACK", seq |-> s]
Nak(s) == [kind |-> "NAK", seq |-> s]
Responses == [kind : {"ACK", "NAK"}, seq : Seqs]

-----------------------------------------------------------------------------
(* Server: RdtSender *)

InFlight == base .. next - 1
Unacked == InFlight \ acked

\* Mutant: the upper end of the clamp is gone.
UnclampedWindowSize == IF cwnd < 1 THEN 1 ELSE cwnd

\* RdtSender::effectiveWindowSize
EffectiveWindowSize ==
  IF cwnd < 1 THEN 1 ELSE IF cwnd > ReceiveWindow THEN ReceiveWindow ELSE cwnd

\* RdtSender::applyCongestionDecrease
CongestionDecrease ==
  /\ cwnd' = IF cwnd \div 2 < 1 THEN 1 ELSE cwnd \div 2
  /\ cleanAcks' = 0

\* A packet that was never retransmitted counts towards the next window growth.
CongestionIncrease(s) ==
  IF retries[s] > 0
  THEN UNCHANGED <<cwnd, cleanAcks>>
  ELSE IF cleanAcks + 1 >= EffectiveWindowSize
  THEN cwnd' = cwnd + 1 /\ cleanAcks' = 0
  ELSE cwnd' = cwnd /\ cleanAcks' = cleanAcks + 1

\* sendChunk with room in the window: one datagram, then a non-blocking poll.
SendChunk ==
  /\ sPc = "send" /\ ~sAbort
  /\ next < N
  /\ next - base < EffectiveWindowSize
  /\ packets' = packets \cup {Packet(next)}
  /\ next' = next + 1
  /\ sPc' = "poll"
  /\ UNCHANGED <<base, acked, retries, cwnd, cleanAcks, sAbort, reply,
                 responses, clientVars>>

\* sendChunk with a full window, or flush with a non-empty one: poll again.
PollAgain ==
  /\ sPc = "send" /\ ~sAbort
  /\ base < next
  /\ next = N \/ next - base >= EffectiveWindowSize
  /\ sPc' = "poll"
  /\ UNCHANGED <<next, base, acked, retries, cwnd, cleanAcks, sAbort, reply,
                 packets, responses, clientVars>>

\* Mutant: the worker does not flush.
SendCompleteUnflushed ==
  /\ sPc = "send" /\ ~sAbort
  /\ next = N
  /\ sPc' = "success"
  /\ UNCHANGED <<next, base, acked, retries, cwnd, cleanAcks, sAbort, reply,
                 packets, responses, clientVars>>

\* flush found the window empty after the last chunk.
SendComplete ==
  /\ sPc = "send" /\ ~sAbort
  /\ next = N /\ base = N
  /\ sPc' = "success"
  /\ UNCHANGED <<next, base, acked, retries, cwnd, cleanAcks, sAbort, reply,
                 packets, responses, clientVars>>

\* pollAcksAndRetransmit reads an ACK of an in-flight packet and slides the window.
ReceiveAck(s) ==
  /\ sPc = "poll" /\ ~sAbort
  /\ Ack(s) \in responses
  /\ s \in Unacked
  /\ acked' = acked \cup {s}
  /\ CongestionIncrease(s)
  /\ \E b \in base .. next :
       /\ b \notin acked'
       /\ \A i \in base .. b - 1 : i \in acked'
       /\ base' = b
  /\ UNCHANGED <<sPc, next, retries, sAbort, reply, packets, responses, clientVars>>

\* A NAK of any packet ends the transfer.
ReceiveNak(s) ==
  /\ sPc = "poll" /\ ~sAbort
  /\ Nak(s) \in responses
  /\ sPc' = "failure"
  /\ UNCHANGED <<next, base, acked, retries, cwnd, cleanAcks, sAbort, reply,
                 packets, responses, clientVars>>

\* The end of a poll that finds no packet expired.
NoTimeout ==
  /\ sPc = "poll" /\ ~sAbort
  /\ sPc' = "send"
  /\ UNCHANGED <<next, base, acked, retries, cwnd, cleanAcks, sAbort, reply,
                 packets, responses, clientVars>>

\* Mutant: the attempts are not counted.
ResendUncounted(expired) ==
  /\ packets' = packets \cup {Packet(s) : s \in expired}
  /\ retries' = retries

\* Mutant: the payload is taken from the reader's current buffer.
ResendLatest(expired) ==
  /\ packets' = packets \cup {[Packet(s) EXCEPT !.data = File[next]] : s \in expired}
  /\ retries' = [s \in Seqs |-> IF s \in expired THEN retries[s] + 1 ELSE retries[s]]

Resend(expired) ==
  /\ packets' = packets \cup {Packet(s) : s \in expired}
  /\ retries' = [s \in Seqs |-> IF s \in expired THEN retries[s] + 1 ELSE retries[s]]

\* Mutant: one retransmission too many.
RetransmitOnceMore(expired) ==
  /\ sPc = "poll" /\ ~sAbort
  /\ expired # {}
  /\ \A s \in expired : retries[s] <= MaxRetries
  /\ CongestionDecrease
  /\ Resend(expired)
  /\ sPc' = "send"
  /\ UNCHANGED <<next, base, acked, sAbort, reply, responses, clientVars>>

\* The end of a poll that finds the packets in expired expired: one window
\* decrease for all of them, and each is sent again.
Retransmit(expired) ==
  /\ sPc = "poll" /\ ~sAbort
  /\ expired # {}
  /\ \A s \in expired : retries[s] < MaxRetries
  /\ CongestionDecrease
  /\ Resend(expired)
  /\ sPc' = "send"
  /\ UNCHANGED <<next, base, acked, sAbort, reply, responses, clientVars>>

\* The retransmission loop gives up at packet s, after it sent the expired ones
\* before it: s has no retry left.
GiveUp(s, expired) ==
  /\ sPc = "poll" /\ ~sAbort
  /\ retries[s] >= MaxRetries
  /\ \A e \in expired : e < s /\ retries[e] < MaxRetries
  /\ CongestionDecrease
  /\ Resend(expired)
  /\ sPc' = "failure"
  /\ UNCHANGED <<next, base, acked, sAbort, reply, responses, clientVars>>

\* sendto reports an error for a new packet.
SendError ==
  /\ sPc = "send" /\ ~sAbort
  /\ next < N
  /\ next - base < EffectiveWindowSize
  /\ sPc' = "failure"
  /\ UNCHANGED <<next, base, acked, retries, cwnd, cleanAcks, sAbort, reply,
                 packets, responses, clientVars>>

\* sendto reports an error for the retransmission of s, after the loop sent the
\* expired packets before it.
RetransmitError(s, expired) ==
  /\ sPc = "poll" /\ ~sAbort
  /\ retries[s] < MaxRetries
  /\ \A e \in expired : e < s /\ retries[e] < MaxRetries
  /\ CongestionDecrease
  /\ Resend(expired)
  /\ sPc' = "failure"
  /\ UNCHANGED <<next, base, acked, sAbort, reply, responses, clientVars>>

\* Every loop of the sender tests the abort flag and returns false.
SenderAborts ==
  /\ sPc \in {"send", "poll"} /\ sAbort
  /\ sPc' = "failure"
  /\ UNCHANGED <<next, base, acked, retries, cwnd, cleanAcks, sAbort, reply,
                 packets, responses, clientVars>>

\* finishTransfer, under replyMutex.
FinishTransfer ==
  /\ sPc \in {"success", "failure"}
  /\ reply' = IF sAbort THEN "suppressed"
              ELSE IF sPc = "success" THEN "226" ELSE "426"
  /\ sPc' = "finished"
  /\ UNCHANGED <<next, base, acked, retries, cwnd, cleanAcks, sAbort,
                 packets, responses, clientVars>>

\* The control thread handles ABOR, or the session shuts down.
RequestServerAbort ==
  /\ sPc # "finished" /\ ~sAbort
  /\ sAbort' = TRUE
  /\ UNCHANGED <<sPc, next, base, acked, retries, cwnd, cleanAcks, reply,
                 packets, responses, clientVars>>

-----------------------------------------------------------------------------
(* Client: RdtReceiver and receiveFile *)

Buffered(s) == \E p \in buffer : p.seq = s

\* Mutant: a capacity of the buffer that is one too small, after the ACK.
EmplaceBounded(p) ==
  IF Buffered(p.seq) \/ Cardinality(buffer) + 2 >= ReceiveWindow
  THEN buffer ELSE buffer \cup {p}

\* std::map::emplace keeps an entry that is already there.
Emplace(p) == IF Buffered(p.seq) THEN buffer ELSE buffer \cup {p}

\* receiveNext hands packet p to receiveFile.
Deliver(p) ==
  /\ chunk' = p
  /\ expected' = expected + 1
  /\ rPc' = "append"

\* receiveNext returns the expected packet from the buffer before it reads the socket.
ReceiveBuffered(p) ==
  /\ rPc = "receive" /\ ~cAbort
  /\ p \in buffer /\ p.seq = expected
  /\ buffer' = buffer \ {p}
  /\ Deliver(p)
  /\ UNCHANGED <<serverVars, packets, responses, finalPending, written,
                 destination, cAbort>>

InReceiveLoop == rPc = "receive" /\ ~cAbort /\ ~Buffered(expected)

\* A datagram below the window was delivered before: it is acknowledged again,
\* unless it is the final one and the file is not saved yet.
ReceiveOld(p) ==
  /\ InReceiveLoop
  /\ p \in packets /\ p.seq < expected
  /\ finalPending # p.seq
  /\ responses' = responses \cup {Ack(p.seq)}
  /\ UNCHANGED <<serverVars, packets, clientVars>>

\* Mutant: the final datagram is acknowledged on receipt, like the others.
AcknowledgeAtOnce(p) ==
  /\ finalPending' = IF p.fin THEN p.seq ELSE finalPending
  /\ responses' = responses \cup {Ack(p.seq)}

\* The acknowledgement of the final datagram is left to confirmReceive; any
\* other is acknowledged on receipt.
AcknowledgeOrDefer(p) ==
  IF p.fin
  THEN finalPending' = p.seq /\ UNCHANGED responses
  ELSE responses' = responses \cup {Ack(p.seq)} /\ UNCHANGED finalPending

\* A datagram inside the receive window; one outside it is dropped.
ReceiveNew(p) ==
  /\ InReceiveLoop
  /\ p \in packets
  /\ p.seq >= expected /\ p.seq < expected + ReceiveWindow
  /\ p.fin => finalPending \in {None, p.seq}
  /\ AcknowledgeOrDefer(p)
  /\ IF p.seq > expected
     THEN buffer' = Emplace(p) /\ UNCHANGED <<chunk, expected, rPc>>
     ELSE Deliver(p) /\ UNCHANGED buffer
  /\ UNCHANGED <<serverVars, packets, written, destination, cAbort>>

\* receiveNext returns false: idle timeout, socket error, or an acknowledgement
\* that could not be sent.  Nothing tells the server.
ReceiveFails ==
  /\ InReceiveLoop
  /\ rPc' = "failure"
  /\ UNCHANGED <<serverVars, packets, responses, expected, buffer, finalPending,
                 chunk, written, destination, cAbort>>

ReceiveAborted ==
  /\ rPc = "receive" /\ cAbort
  /\ rPc' = "failure"
  /\ UNCHANGED <<serverVars, packets, responses, expected, buffer, finalPending,
                 chunk, written, destination, cAbort>>

\* ChunkedFileWriter::appendChunk takes the chunks in sequence.
AppendChunk ==
  /\ rPc = "append" /\ ~cAbort
  /\ chunk.seq = Len(written)
  /\ written' = Append(written, chunk.data)
  /\ rPc' = IF chunk.fin THEN "commit" ELSE "receive"
  /\ UNCHANGED <<serverVars, packets, responses, expected, buffer, finalPending,
                 chunk, destination, cAbort>>

\* Mutant: the deferred answer is an ACK whether or not the chunk was accepted.
RejectWithAck ==
  /\ finalPending' = IF finalPending = chunk.seq THEN None ELSE finalPending
  /\ responses' = responses \cup {Ack(chunk.seq)}
  /\ rPc' = "failure"

\* confirmReceive(sequence, false): the server is told with one NAK, which may
\* be lost like any datagram.
Reject ==
  /\ finalPending' = IF finalPending = chunk.seq THEN None ELSE finalPending
  /\ responses' = responses \cup {Nak(chunk.seq)}
  /\ rPc' = "failure"

\* The chunk cannot be written, or the user aborted after it was received.  Its
\* acknowledgement may be under way already.
AppendFails ==
  /\ rPc = "append"
  /\ Reject
  /\ UNCHANGED <<serverVars, packets, expected, buffer, chunk, written,
                 destination, cAbort>>

\* ChunkedFileWriter::commit: MoveFileEx replaces the destination.
Commit ==
  /\ rPc = "commit" /\ ~cAbort
  /\ destination' = written
  /\ rPc' = "confirm"
  /\ UNCHANGED <<serverVars, packets, responses, expected, buffer, finalPending,
                 chunk, written, cAbort>>

\* The flush, the close or the replacement fails, or the user aborted.
CommitFails ==
  /\ rPc = "commit"
  /\ Reject
  /\ UNCHANGED <<serverVars, packets, expected, buffer, chunk, written,
                 destination, cAbort>>

\* confirmReceive(sequence, true): the deferred acknowledgement.
ConfirmReceive ==
  /\ rPc = "confirm"
  /\ IF finalPending = chunk.seq
     THEN finalPending' = None /\ responses' = responses \cup {Ack(chunk.seq)}
     ELSE UNCHANGED <<finalPending, responses>>
  /\ rPc' = "success"
  /\ UNCHANGED <<serverVars, packets, expected, buffer, chunk, written,
                 destination, cAbort>>

\* sendto fails: the file is saved, the transfer is reported as failed.
ConfirmFails ==
  /\ rPc = "confirm" /\ finalPending = chunk.seq
  /\ finalPending' = None
  /\ rPc' = "failure"
  /\ UNCHANGED <<serverVars, packets, responses, expected, buffer, chunk,
                 written, destination, cAbort>>

\* The user types ABOR.
RequestClientAbort ==
  /\ ~cAbort
  /\ cAbort' = TRUE
  /\ UNCHANGED <<serverVars, packets, responses, rPc, expected, buffer,
                 finalPending, chunk, written, destination>>

-----------------------------------------------------------------------------
(* Network: a datagram stays receivable, again and again, until it is lost. *)

LosePacket(p) ==
  /\ p \in packets
  /\ packets' = packets \ {p}
  /\ UNCHANGED <<serverVars, responses, clientVars>>

LoseResponse(r) ==
  /\ r \in responses
  /\ responses' = responses \ {r}
  /\ UNCHANGED <<serverVars, packets, clientVars>>

-----------------------------------------------------------------------------

Init ==
  /\ sPc = "send" /\ next = 0 /\ base = 0
  /\ acked = {}
  /\ retries = [s \in Seqs |-> 0]
  /\ cwnd = InitialCwnd /\ cleanAcks = 0
  /\ sAbort = FALSE /\ reply = "none"
  /\ packets = {} /\ responses = {}
  /\ rPc = "receive" /\ expected = 0
  /\ buffer = {} /\ finalPending = None
  /\ chunk = Packet(0)
  /\ written = <<>> /\ destination = OldFile
  /\ cAbort = FALSE

Timeout == \/ \E expired \in SUBSET Unacked : Retransmit(expired)
           \/ \E s \in Unacked : \E expired \in SUBSET Unacked : GiveUp(s, expired)

ServerNext ==
  \/ SendChunk \/ PollAgain \/ SendComplete
  \/ \E s \in Seqs : ReceiveAck(s)
  \/ \E s \in Seqs : ReceiveNak(s)
  \/ NoTimeout \/ Timeout
  \/ \E s \in Unacked : \E expired \in SUBSET Unacked : RetransmitError(s, expired)
  \/ SendError \/ SenderAborts \/ FinishTransfer

Receive == \/ \E p \in buffer : ReceiveBuffered(p)
           \/ \E p \in packets : ReceiveOld(p)
           \/ \E p \in packets : ReceiveNew(p)

Store == \/ AppendChunk \/ AppendFails
         \/ Commit \/ CommitFails
         \/ ConfirmReceive \/ ConfirmFails

ClientNext == Receive \/ ReceiveFails \/ ReceiveAborted \/ Store

NetworkNext == \/ \E p \in packets : LosePacket(p)
               \/ \E r \in responses : LoseResponse(r)

ClientEnded == rPc \in {"success", "failure"}

\* Both workers have returned.
Ended == sPc = "finished" /\ ClientEnded /\ UNCHANGED vars

Next == ServerNext \/ ClientNext \/ NetworkNext
        \/ RequestServerAbort \/ RequestClientAbort \/ Ended

\* The threads run, and a packet that stays unacknowledged expires sooner or
\* later however often a poll finds it young.  A receiver to which nothing more
\* comes reaches its idle timeout.  Nothing is assumed of the network.
Fairness ==
  /\ WF_vars(SendChunk \/ PollAgain \/ SendComplete \/ SenderAborts
             \/ FinishTransfer)
  /\ WF_vars(NoTimeout)
  /\ SF_vars(Timeout)
  /\ WF_vars(ReceiveFails \/ ReceiveAborted)
  /\ WF_vars(\E p \in buffer : ReceiveBuffered(p))
  /\ WF_vars(Store)

Spec == Init /\ [][Next]_vars
FairSpec == Spec /\ Fairness

-----------------------------------------------------------------------------
(* Properties *)

SPcs == {"send", "poll", "success", "failure", "finished"}
RPcs == {"receive", "append", "commit", "confirm", "success", "failure"}
Payloads == {File[i] : i \in DOMAIN File}

\* Types, and the bound on retransmissions: no packet is sent again more than
\* MaxRetries times (pollAcksAndRetransmit).
TypeOK ==
  /\ sPc \in SPcs
  /\ next \in 0 .. N /\ base \in 0 .. N
  /\ acked \subseteq Seqs
  /\ retries \in [Seqs -> 0 .. MaxRetries]
  /\ cwnd \in Nat \ {0} /\ cleanAcks \in Nat
  /\ sAbort \in BOOLEAN
  /\ reply \in {"none", "226", "426", "suppressed"}
  /\ packets \subseteq Packets
  /\ responses \subseteq Responses
  /\ rPc \in RPcs
  /\ expected \in 0 .. N
  /\ buffer \subseteq Packets
  /\ finalPending \in Seqs \cup {None}
  /\ chunk \in Packets
  /\ written \in Seq(Payloads)
  /\ destination \in {OldFile} \cup Seq(Payloads)
  /\ cAbort \in BOOLEAN

\* Whatever is lost, repeated or reordered on the way, the temporary file holds
\* the first chunks of the served file, each once and in order.
WrittenIsPrefix ==
  /\ Len(written) <= N
  /\ \A i \in 1 .. Len(written) : written[i] = File[i]

\* The README's promise: a 226 for RETR means that the client has saved the
\* whole file and that its worker ended without an error.
CompleteReplyMeansSaved ==
  reply = "226" => destination = File /\ rPc = "success"

\* What is under way to the server agrees with the client's disk: the final
\* datagram is acknowledged only once the destination is replaced, and after a
\* NAK it was not (receiveNext, confirmReceive, receiveFile).
ResponsesMatchDisk ==
  /\ Ack(N - 1) \in responses => destination = File
  /\ \A s \in Seqs : Nak(s) \in responses => destination = OldFile

\* Every acknowledgement the sender acted on is for a datagram the receiver has
\* delivered or still holds: the sender never drops its copy too early.
AckedIsReceived ==
  \A s \in acked : s < expected \/ Buffered(s)

\* A receiver that reads its socket never has to drop a datagram for being
\* ahead of its window: the clamp of effectiveWindowSize is enough, although a
\* chunk may be acknowledged long before it is taken out of the buffer.
WindowNeverOverrun ==
  InReceiveLoop => \A p \in packets : p.seq < expected + ReceiveWindow

\* The destination changes once, from the old content to the whole file
\* (ChunkedFileWriter::commit), whatever happens to the transfer.
DestinationReplacedWhole ==
  [][destination' # destination
       => destination = OldFile /\ destination' = File]_vars

\* The sender's window: everything below base is acknowledged, base is not, and
\* no more than ReceiveWindow packets are in flight.
SenderWindow ==
  /\ base <= next /\ next - base <= ReceiveWindow
  /\ acked \subseteq 0 .. next - 1
  /\ base \notin acked
  /\ \A s \in 0 .. base - 1 : s \in acked

\* Only what was sent is under way, only what is still expected is buffered.
ChannelSound ==
  /\ \A p \in packets : p.seq < next
  /\ \A p \in buffer : p.seq >= expected

\* An acknowledgement, under way or accepted, stands for a received datagram,
\* and that of the final one for a finished client.
AcksSound ==
  \A s \in Seqs : Ack(s) \in responses \/ s \in acked =>
    /\ s < expected \/ Buffered(s)
    /\ s = N - 1 => rPc = "success"

\* How far receiveFile is, receiveNext is and the temporary file is.
ClientInStep ==
  /\ rPc = "receive" => Len(written) = expected /\ expected < N
  /\ rPc = "append" => chunk.seq = Len(written) /\ expected = chunk.seq + 1
  /\ rPc \in {"commit", "confirm", "success"} =>
       Len(written) = N /\ expected = N /\ chunk.seq = N - 1

\* What the destination holds at each point of receiveFile.
DiskInStep ==
  /\ destination \in {OldFile, File}
  /\ rPc \in {"receive", "append", "commit"} => destination = OldFile
  /\ rPc \in {"confirm", "success"} => destination = File
  /\ \A s \in Seqs : Nak(s) \in responses => rPc = "failure" /\ destination = OldFile

\* A worker that returned success has an empty window, and the reply is the
\* last thing it does.
SuccessIsFlushed ==
  /\ sPc = "success" \/ reply = "226" => base = N
  /\ sPc # "finished" => reply = "none"

\* The inductive invariant: each acknowledgement the server has acted on is
\* traced back to what the client has received, written and saved.
Inv ==
  /\ TypeOK
  /\ SenderWindow
  /\ ChannelSound
  /\ AcksSound
  /\ ClientInStep
  /\ WrittenIsPrefix
  /\ DiskInStep
  /\ SuccessIsFlushed

\* Both workers return, however bad the network is and whoever aborts.
TransferEnds == <>(sPc = "finished" /\ ClientEnded)

\* The transfer implements the contract of RETR.
clientState == CASE rPc = "success" -> "saved"
                 [] rPc = "failure" -> "failed"
                 [] OTHER -> "working"

Contract == INSTANCE DownloadContract WITH client <- clientState

ContractSpec == Contract!Spec

\* Its safety part: every step is a step of the contract or leaves it alone.
ContractSafety == Contract!Init /\ [][Contract!Next]_(Contract!vars)

=============================================================================
