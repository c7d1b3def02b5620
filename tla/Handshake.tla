------------------------------ MODULE Handshake ------------------------------
(***************************************************************************)
(* How the two ends of a data channel find each other, and the hand-over   *)
(* to the transfer.  The end that will receive the data sends SYN until it *)
(* hears something; the other one listens, answers the first SYN that it   *)
(* hears and starts to send.  When that answer is lost, the first DATA     *)
(* datagram has to stand in for it and must not be lost itself             *)
(* (pendingDatagram).                                                      *)
(*                                                                         *)
(* A passive RETR does this with the client as receiver                    *)
(* (signalClientReady, waitForClientReady), an active STOR, STOU or APPE   *)
(* with the server as receiver (initiateActiveHandshake,                   *)
(* waitForServerReady).  The other two cases have no handshake.  The       *)
(* transfer itself is as in RetrTransfer and StorTransfer, without its     *)
(* windows' details: no congestion window, no count of retransmissions.    *)
(***************************************************************************)
EXTENDS Integers, Sequences

CONSTANTS MaxAttempts,  \* HANDSHAKE_MAX_RETRIES
          Window,       \* RDT_RECEIVE_WINDOW
          Last          \* number of the final chunk

ASSUME MaxAttemptsAssumption == MaxAttempts \in Nat \ {0}
ASSUME WindowAssumption == Window \in Nat \ {0}
ASSUME LastAssumption == Last \in Nat

VARIABLES
  download,    \* a passive RETR, otherwise an active upload
  toSender,    \* datagrams under way to the end that sends the data
  toReceiver,  \* datagrams under way to the end that receives it
  \* the receiver of the data
  rPc,         \* where its worker is
  rTries,      \* SYNs sent
  pending,     \* pendingDatagram
  expected,    \* next chunk to deliver
  buffered,    \* out-of-order buffer
  written,     \* chunks given to the writer
  rAbort,      \* its abortRequested
  \* the sender of the data
  sPc,         \* where its worker is
  sTries,      \* receives that brought no SYN
  heard,       \* destAddr is known
  acked,       \* chunks taken as acknowledged
  sAbort       \* its abortRequested

receiverVars == <<rPc, rTries, pending, expected, buffered, written>>
senderVars == <<sPc, sTries, heard, acked>>
vars == <<download, toSender, toReceiver, receiverVars, rAbort, senderVars, sAbort>>

Chunks == 0 .. Last
NoDatagram == -1

Syn == [type |-> "SYN", number |-> 0]
SynAck == [type |-> "SYNACK", number |-> 0]
Data(n) == [type |-> "DATA", number |-> n]
Ack(n) == [type |-> "ACK", number |-> n]

-----------------------------------------------------------------------------
(* Receiver of the data: signalClientReady, initiateActiveHandshake *)

SendSyn ==
  /\ rPc = "syn" /\ ~rAbort
  /\ toSender' = toSender \cup {Syn}
  /\ rTries' = rTries + 1
  /\ rPc' = "await"
  /\ UNCHANGED <<download, toReceiver, pending, expected, buffered, written, rAbort,
                 senderVars, sAbort>>

\* Mutant: the receiver goes on after its last attempt.
SynUnansweredGoesOn ==
  /\ rPc = "await"
  /\ rPc' = IF rAbort THEN "failed"
            ELSE IF rTries = MaxAttempts THEN "receive" ELSE "syn"
  /\ UNCHANGED <<download, toSender, toReceiver, rTries, pending, expected, buffered,
                 written, rAbort, senderVars, sAbort>>

\* Mutant: one attempt too many.
SynUnansweredOnceMore ==
  /\ rPc = "await"
  /\ rPc' = IF rAbort \/ rTries > MaxAttempts THEN "failed" ELSE "syn"
  /\ UNCHANGED <<download, toSender, toReceiver, rTries, pending, expected, buffered,
                 written, rAbort, senderVars, sAbort>>

\* Nothing comes in time, or a datagram that does not pass the checks.
SynUnanswered ==
  /\ rPc = "await"
  /\ rPc' = IF rAbort \/ rTries = MaxAttempts THEN "failed" ELSE "syn"
  /\ UNCHANGED <<download, toSender, toReceiver, rTries, pending, expected, buffered,
                 written, rAbort, senderVars, sAbort>>

\* The socket fails, or an abort is seen before a SYN is sent.
SynFails ==
  /\ rPc = "syn" \/ rPc = "await"
  /\ rPc' = "failed"
  /\ UNCHANGED <<download, toSender, toReceiver, rTries, pending, expected, buffered,
                 written, rAbort, senderVars, sAbort>>

ReceiveSynAck ==
  /\ rPc = "await"
  /\ SynAck \in toReceiver
  /\ rPc' = "receive"
  /\ UNCHANGED <<download, toSender, toReceiver, rTries, pending, expected, buffered,
                 written, rAbort, senderVars, sAbort>>

\* Mutant: the datagram is acknowledged as it is taken, and forgotten.
ReceiveEarlyDataForgotten(n) ==
  /\ rPc = "await"
  /\ Data(n) \in toReceiver
  /\ toSender' = toSender \cup {Ack(n)}
  /\ rPc' = "receive"
  /\ UNCHANGED <<download, toReceiver, rTries, pending, expected, buffered, written,
                 rAbort, senderVars, sAbort>>

\* Mutant: the datagram that ends the handshake is taken for the first chunk.
ReceiveEarlyDataWritten(n) ==
  /\ rPc = "await"
  /\ Data(n) \in toReceiver
  /\ expected' = 1
  /\ written' = <<n>>
  /\ toSender' = toSender \cup {Ack(0)}
  /\ rPc' = "receive"
  /\ UNCHANGED <<download, toReceiver, rTries, pending, buffered, rAbort, senderVars,
                 sAbort>>

\* DATA stands in for the answer that was lost, and is kept for receiveNext.
ReceiveEarlyData(n) ==
  /\ rPc = "await"
  /\ Data(n) \in toReceiver
  /\ pending' = n
  /\ rPc' = "receive"
  /\ UNCHANGED <<download, toSender, toReceiver, rTries, expected, buffered, written,
                 rAbort, senderVars, sAbort>>

-----------------------------------------------------------------------------
(* Receiver of the data: receiveNext, receiveFile *)

\* The client acknowledges the final chunk only when the file is saved.
Acknowledge(n) ==
  toSender' = IF download /\ n = Last THEN toSender ELSE toSender \cup {Ack(n)}

Deliver(n) ==
  /\ written' = Append(written, n)
  /\ expected' = expected + 1
  /\ rPc' = IF n = Last THEN "save" ELSE rPc

\* receiveNext looks into its buffer first, then at pendingDatagram, and only
\* then at the socket.
DeliverBuffered ==
  /\ rPc = "receive" /\ expected \in buffered
  /\ Deliver(expected)
  /\ buffered' = buffered \ {expected}
  /\ UNCHANGED <<download, toSender, toReceiver, rTries, pending, rAbort, senderVars,
                 sAbort>>

\* The datagram that receiveNext looks at.
Taken(n) == IF pending # NoDatagram THEN n = pending ELSE Data(n) \in toReceiver

\* A chunk that was delivered before is acknowledged again.
ReceiveOld(n) ==
  /\ rPc = "receive" /\ expected \notin buffered
  /\ Taken(n) /\ n < expected
  /\ toSender' = toSender \cup {Ack(n)}
  /\ pending' = NoDatagram
  /\ UNCHANGED <<download, toReceiver, rPc, rTries, expected, buffered, written,
                 rAbort, senderVars, sAbort>>

\* A chunk of the window is acknowledged and delivered or buffered; one beyond it
\* is dropped.
ReceiveNew(n) ==
  /\ rPc = "receive" /\ expected \notin buffered
  /\ Taken(n) /\ n >= expected
  /\ pending' = NoDatagram
  /\ \/ /\ n = expected
        /\ Acknowledge(n) /\ Deliver(n)
        /\ UNCHANGED buffered
     \/ /\ n > expected
        /\ IF n < expected + Window
           THEN Acknowledge(n) /\ buffered' = buffered \cup {n}
           ELSE UNCHANGED <<toSender, buffered>>
        /\ UNCHANGED <<rPc, expected, written>>
  /\ UNCHANGED <<download, toReceiver, rTries, rAbort, senderVars, sAbort>>

\* The idle timeout, an abort, or a failure of the socket or the disk.
ReceiveEnds ==
  /\ rPc = "receive" \/ rPc = "save"
  /\ rPc' = "failed"
  /\ UNCHANGED <<download, toSender, toReceiver, rTries, pending, expected, buffered,
                 written, rAbort, senderVars, sAbort>>

\* The file is committed; the client now confirms the final chunk.
Save ==
  /\ rPc = "save" /\ ~rAbort
  /\ rPc' = "done"
  /\ toSender' = IF download THEN toSender \cup {Ack(Last)} ELSE toSender
  /\ UNCHANGED <<download, toReceiver, rTries, pending, expected, buffered, written,
                 rAbort, senderVars, sAbort>>

RequestReceiverAbort ==
  /\ ~rAbort /\ rPc \notin {"failed", "done"}
  /\ rAbort' = TRUE
  /\ UNCHANGED <<download, toSender, toReceiver, receiverVars, senderVars, sAbort>>

-----------------------------------------------------------------------------
(* Sender of the data: waitForClientReady, waitForServerReady *)

\* The first SYN tells the sender where to send; it is answered once.  Later
\* SYNs are ignored by the polls for acknowledgements.
HearSyn ==
  /\ sPc = "listen" /\ Syn \in toSender
  /\ heard' = TRUE
  /\ toReceiver' = toReceiver \cup {SynAck}
  /\ sPc' = "send"
  /\ UNCHANGED <<download, toSender, receiverVars, rAbort, sTries, acked, sAbort>>

\* The answer cannot be sent.
HearSynFails ==
  /\ sPc = "listen" /\ Syn \in toSender
  /\ heard' = TRUE
  /\ sPc' = "failed"
  /\ UNCHANGED <<download, toSender, toReceiver, receiverVars, rAbort, sTries, acked,
                 sAbort>>

\* Mutant: receives without a SYN are not counted.
ListenUncounted ==
  /\ sPc = "listen"
  /\ sPc' = IF sAbort THEN "failed" ELSE sPc
  /\ UNCHANGED <<download, toSender, toReceiver, receiverVars, rAbort, sTries, heard,
                 acked, sAbort>>

\* Nothing comes in time, or something else than a SYN.
ListenUnanswered ==
  /\ sPc = "listen"
  /\ sTries' = sTries + 1
  /\ sPc' = IF sAbort \/ sTries' = MaxAttempts THEN "failed" ELSE sPc
  /\ UNCHANGED <<download, toSender, toReceiver, receiverVars, rAbort, heard, acked,
                 sAbort>>

ListenFails ==
  /\ sPc = "listen"
  /\ sPc' = "failed"
  /\ UNCHANGED <<download, toSender, toReceiver, receiverVars, rAbort, sTries, heard,
                 acked, sAbort>>

-----------------------------------------------------------------------------
(* Sender of the data: sendFromReader *)

\* The chunks that may be in flight: a window for the server, one for the client.
InWindow(n) ==
  \A k \in Chunks \ acked : n < k + (IF download THEN Window ELSE 1)

\* A chunk is sent, for the first time or again.
SendData(n) ==
  /\ sPc = "send" /\ ~sAbort
  /\ n \notin acked /\ InWindow(n)
  /\ toReceiver' = toReceiver \cup {Data(n)}
  /\ UNCHANGED <<download, toSender, receiverVars, rAbort, senderVars, sAbort>>

\* An acknowledgement of a chunk in flight.
HearAck(n) ==
  /\ sPc = "send"
  /\ n \notin acked /\ InWindow(n)
  /\ Ack(n) \in toSender
  /\ acked' = acked \cup {n}
  /\ UNCHANGED <<download, toSender, toReceiver, receiverVars, rAbort, sPc, sTries,
                 heard, sAbort>>

\* Mutant: the sender does not wait for the acknowledgement of the final chunk.
SendEndsEarly ==
  /\ sPc = "send"
  /\ \/ Chunks \ {Last} \subseteq acked /\ ~sAbort /\ sPc' = "done"
     \/ sPc' = "failed"
  /\ UNCHANGED <<download, toSender, toReceiver, receiverVars, rAbort, sTries, heard,
                 acked, sAbort>>

\* Every chunk is acknowledged; or the retries are used up, the receiver rejects
\* the file, the socket fails or the transfer is aborted.
SendEnds ==
  /\ sPc = "send"
  /\ \/ Chunks \subseteq acked /\ ~sAbort /\ sPc' = "done"
     \/ sPc' = "failed"
  /\ UNCHANGED <<download, toSender, toReceiver, receiverVars, rAbort, sTries, heard,
                 acked, sAbort>>

RequestSenderAbort ==
  /\ ~sAbort /\ sPc \notin {"failed", "done"}
  /\ sAbort' = TRUE
  /\ UNCHANGED <<download, toSender, toReceiver, receiverVars, rAbort, senderVars>>

-----------------------------------------------------------------------------
(* The network.  A datagram that was received may be received again. *)

Lose ==
  \/ /\ \E d \in toSender : toSender' = toSender \ {d}
     /\ UNCHANGED <<download, toReceiver, receiverVars, rAbort, senderVars, sAbort>>
  \/ /\ \E d \in toReceiver : toReceiver' = toReceiver \ {d}
     /\ UNCHANGED <<download, toSender, receiverVars, rAbort, senderVars, sAbort>>

-----------------------------------------------------------------------------

Init ==
  /\ download \in BOOLEAN
  /\ toSender = {} /\ toReceiver = {}
  /\ rPc = "syn" /\ rTries = 0 /\ pending = NoDatagram
  /\ expected = 0 /\ buffered = {} /\ written = <<>> /\ rAbort = FALSE
  /\ sPc = "listen" /\ sTries = 0 /\ heard = FALSE /\ acked = {} /\ sAbort = FALSE

InitiatorHandshake ==
  SendSyn \/ SynUnanswered \/ SynFails \/ ReceiveSynAck
  \/ \E n \in Chunks : ReceiveEarlyData(n)

ReceiverTransfer ==
  DeliverBuffered \/ ReceiveEnds \/ Save
  \/ \E n \in Chunks : ReceiveOld(n) \/ ReceiveNew(n)

ListenerHandshake == HearSyn \/ HearSynFails \/ ListenUnanswered \/ ListenFails

SenderTransfer == SendEnds \/ \E n \in Chunks : SendData(n) \/ HearAck(n)

\* Both workers have ended.
Ended == /\ rPc \in {"failed", "done"} /\ sPc \in {"failed", "done"}
         /\ UNCHANGED vars

Next == InitiatorHandshake \/ ReceiverTransfer \/ RequestReceiverAbort
        \/ ListenerHandshake \/ SenderTransfer \/ RequestSenderAbort
        \/ Lose \/ Ended

\* The workers run, and every receive ends with its timeout.  Nothing is assumed of
\* the network.
Fairness ==
  /\ WF_vars(SendSyn \/ (rPc = "syn" /\ rAbort /\ SynFails)) /\ WF_vars(SynUnanswered)
  /\ WF_vars(ListenUnanswered)
  /\ WF_vars(ReceiveEnds) /\ WF_vars(SendEnds)

Spec == Init /\ [][Next]_vars
FairSpec == Spec /\ Fairness

-----------------------------------------------------------------------------
(* Properties *)

\* Types; no end tries more often than it may.
TypeOK ==
  /\ download \in BOOLEAN /\ rAbort \in BOOLEAN /\ sAbort \in BOOLEAN
  /\ toSender \subseteq {Syn} \cup {Ack(n) : n \in Chunks}
  /\ toReceiver \subseteq {SynAck} \cup {Data(n) : n \in Chunks}
  /\ rPc \in {"syn", "await", "receive", "save", "failed", "done"}
  /\ rTries \in 0 .. MaxAttempts
  /\ pending \in Chunks \cup {NoDatagram}
  /\ expected \in 0 .. Last + 1 /\ buffered \subseteq Chunks
  /\ written \in Seq(Chunks)
  /\ sPc \in {"listen", "send", "failed", "done"}
  /\ sTries \in 0 .. MaxAttempts
  /\ heard \in BOOLEAN /\ acked \subseteq Chunks

Ready == rPc \in {"receive", "save", "done"}

\* A receiver that takes its handshake for done has been heard: the sender knows
\* where to send, whichever datagram ended the handshake.
ReadyMeansHeard == Ready => heard

\* Whatever ended the handshake, the file is written chunk by chunk in order.
WrittenInOrder == written = [i \in 1 .. expected |-> i - 1]

\* What the sender takes as acknowledged has reached the writer or waits in the
\* buffer: no datagram was taken in the handshake and lost.
AckedIsKept == \A n \in acked : n < expected \/ n \in buffered

\* A sender that reports success has a receiver that was ready and was given the
\* whole file; a download is also saved.
DoneMeansReceived ==
  sPc = "done" => expected = Last + 1 /\ (download => rPc = "done")

\* Each end is where its variables say.
WorkersInStep ==
  /\ rPc = "syn" => rTries < MaxAttempts
  /\ rPc \in {"syn", "await"} => expected = 0
  /\ rPc = "receive" => expected <= Last
  /\ rPc \in {"save", "done"} => expected = Last + 1
  /\ sPc = "listen" => sTries < MaxAttempts
  /\ sPc \in {"send", "done"} => heard
  /\ sPc = "done" => Chunks \subseteq acked

\* The datagrams that can end a handshake come from a sender that has heard a SYN.
AnswersSound ==
  toReceiver # {} \/ pending # NoDatagram => heard

\* An acknowledgement stands for a chunk that is kept, and that of the final chunk
\* of a download for a saved file.
AcksSound ==
  \A n \in Chunks : Ack(n) \in toSender \/ n \in acked =>
    /\ n < expected \/ n \in buffered
    /\ download /\ n = Last => rPc = "done"

\* Stop-and-wait: a chunk of an upload is sent when those before it are acknowledged.
UploadInStep ==
  ~download =>
    /\ buffered = {}
    /\ \A n \in Chunks : Data(n) \in toReceiver \/ pending = n =>
         0 .. n - 1 \subseteq acked

\* The inductive invariant.
Inv ==
  /\ TypeOK
  /\ ReadyMeansHeard
  /\ WrittenInOrder
  /\ WorkersInStep
  /\ AnswersSound
  /\ AcksSound
  /\ UploadInStep

\* Nobody is left to wait for an end that has given up.
BothEnd == <>[](rPc \in {"failed", "done"} /\ sPc \in {"failed", "done"})

=============================================================================
