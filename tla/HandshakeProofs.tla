--------------------------- MODULE HandshakeProofs ---------------------------
(***************************************************************************)
(* The invariants of Handshake, for a file of any length, any window and   *)
(* any number of attempts.                                                 *)
(***************************************************************************)
EXTENDS Handshake, SequenceTheorems, TLAPS

\* Datagrams are told apart by their type and number.
LEMMA Datagrams ==
  /\ \A n \in Chunks : Ack(n) # Syn /\ Data(n) # SynAck
  /\ \A m, n \in Chunks : Ack(m) = Ack(n) => m = n
  /\ \A m, n \in Chunks : Data(m) = Data(n) => m = n
<1>1. ASSUME NEW n \in Chunks
      PROVE  /\ Ack(n).type = "ACK" /\ Ack(n).number = n
             /\ Data(n).type = "DATA" /\ Data(n).number = n
             /\ Syn.type = "SYN" /\ SynAck.type = "SYNACK"
  BY DEF Ack, Data, Syn, SynAck
<1>. QED
  BY <1>1

\* The chunks are the naturals up to Last, and the next one belongs to the file as
\* long as the worker receives.
LEMMA ChunkFacts ==
  /\ Last \in Nat /\ Chunks \subseteq Nat /\ 0 \in Chunks /\ Last \in Chunks
  /\ NoDatagram \notin Chunks
  /\ MaxAttempts \in Nat \ {0} /\ Window \in Nat \ {0}
  BY LastAssumption, MaxAttemptsAssumption, WindowAssumption DEF Chunks, NoDatagram

LEMMA InitInv == Init => Inv
<1>. SUFFICES ASSUME Init PROVE Inv
  OBVIOUS
<1>. USE ChunkFacts DEF Init
<1>1. TypeOK
  <2>1. /\ download \in BOOLEAN /\ rAbort \in BOOLEAN /\ sAbort \in BOOLEAN
        /\ heard \in BOOLEAN
    BY Zenon
  <2>2. rTries \in 0 .. MaxAttempts /\ sTries \in 0 .. MaxAttempts
        /\ expected \in 0 .. Last + 1
    OBVIOUS
  <2>3. written \in Seq(Chunks)
    BY EmptySeq
  <2>. QED
    BY <2>1, <2>2, <2>3 DEF TypeOK
<1>2. ReadyMeansHeard /\ AnswersSound
  BY DEF ReadyMeansHeard, Ready, AnswersSound
<1>3. WrittenInOrder
  BY DEF WrittenInOrder
<1>4. WorkersInStep
  BY DEF WorkersInStep
<1>5. AcksSound /\ UploadInStep
  BY DEF AcksSound, UploadInStep, NoDatagram
<1>. QED
  BY <1>1, <1>2, <1>3, <1>4, <1>5 DEF Inv

\* A step of the sender or the network: the receiver is left alone.
LEMMA SenderSideInv ==
  Inv /\ (ListenerHandshake \/ SenderTransfer \/ RequestSenderAbort \/ Lose) => Inv'
<1>. SUFFICES ASSUME Inv,
                     ListenerHandshake \/ SenderTransfer \/ RequestSenderAbort \/ Lose
              PROVE  Inv'
  OBVIOUS
<1>. USE ChunkFacts
<1>0. /\ TypeOK /\ ReadyMeansHeard /\ WrittenInOrder /\ WorkersInStep /\ AnswersSound
      /\ AcksSound /\ UploadInStep
  BY DEF Inv
<1>1. CASE HearSyn
  <2>1. /\ heard' = TRUE /\ toReceiver' = toReceiver \cup {SynAck} /\ sPc' = "send"
        /\ UNCHANGED <<download, toSender, rPc, rTries, pending, expected, buffered,
                       written, rAbort, sTries, acked, sAbort>>
    BY <1>1 DEF HearSyn, receiverVars
  <2>2. \A n \in Chunks : Data(n) \in toReceiver' <=> Data(n) \in toReceiver
    BY <2>1, Datagrams
  <2>3. TypeOK'
    BY <1>0, <2>1 DEF TypeOK
  <2>4. ReadyMeansHeard' /\ WrittenInOrder' /\ AnswersSound'
    BY <1>0, <2>1 DEF ReadyMeansHeard, WrittenInOrder, AnswersSound
  <2>5. WorkersInStep' /\ AcksSound'
    BY <1>0, <2>1 DEF WorkersInStep, AcksSound
  <2>6. UploadInStep'
    BY <1>0, <2>1, <2>2 DEF UploadInStep
  <2>. QED
    BY <2>3, <2>4, <2>5, <2>6 DEF Inv
<1>2. CASE HearSynFails \/ ListenUnanswered \/ ListenFails \/ SendEnds
           \/ RequestSenderAbort
  <2>1. /\ UNCHANGED <<download, toSender, toReceiver, rPc, rTries, pending, expected,
                       buffered, written, rAbort, acked>>
        /\ heard => heard'
        /\ heard' \in BOOLEAN /\ sAbort' \in BOOLEAN
        /\ sPc' \in {"listen", "send", "failed", "done"}
        /\ sPc' \in {"send", "done"} => sPc = "send"  \/ sPc' = sPc
        /\ sPc' = "done" => sPc = "done" \/ Chunks \subseteq acked
    BY <1>0, <1>2 DEF HearSynFails, ListenUnanswered, ListenFails, SendEnds,
                      RequestSenderAbort, receiverVars, senderVars, TypeOK
  <2>2. sTries' \in 0 .. MaxAttempts /\ (sPc' = "listen" => sTries' < MaxAttempts)
    BY <1>0, <1>2 DEF HearSynFails, ListenUnanswered, ListenFails, SendEnds,
                      RequestSenderAbort, senderVars, TypeOK, WorkersInStep
  <2>3. TypeOK'
    BY <1>0, <2>1, <2>2 DEF TypeOK
  <2>4. ReadyMeansHeard' /\ WrittenInOrder' /\ AnswersSound'
    BY <1>0, <2>1 DEF ReadyMeansHeard, Ready, WrittenInOrder, AnswersSound
  <2>5. WorkersInStep'
    BY <1>0, <2>1, <2>2 DEF WorkersInStep
  <2>6. AcksSound' /\ UploadInStep'
    BY <1>0, <2>1 DEF AcksSound, UploadInStep
  <2>. QED
    BY <2>3, <2>4, <2>5, <2>6 DEF Inv
<1>3. CASE \E n \in Chunks : SendData(n)
  <2>1. PICK n \in Chunks : SendData(n)
    BY <1>3
  <2>2. /\ sPc = "send" /\ InWindow(n)
        /\ toReceiver' = toReceiver \cup {Data(n)}
        /\ UNCHANGED <<download, toSender, rPc, rTries, pending, expected, buffered,
                       written, rAbort, sPc, sTries, heard, acked, sAbort>>
    BY <2>1 DEF SendData, receiverVars, senderVars
  <2>3. TypeOK'
    BY <1>0, <2>2 DEF TypeOK
  <2>4. ReadyMeansHeard' /\ WrittenInOrder' /\ AnswersSound'
    BY <1>0, <2>2 DEF ReadyMeansHeard, Ready, WrittenInOrder, AnswersSound, WorkersInStep
  <2>5. WorkersInStep' /\ AcksSound'
    BY <1>0, <2>2 DEF WorkersInStep, AcksSound
  <2>6. UploadInStep'
    <3>1. ~download => 0 .. n - 1 \subseteq acked
      BY <2>2, LastAssumption DEF InWindow, Chunks
    <3>2. \A m \in Chunks : Data(m) \in toReceiver' => Data(m) \in toReceiver \/ m = n
      BY <2>2, Datagrams
    <3>. QED
      BY <1>0, <2>2, <3>1, <3>2 DEF UploadInStep
  <2>. QED
    BY <2>3, <2>4, <2>5, <2>6 DEF Inv
<1>4. CASE \E n \in Chunks : HearAck(n)
  <2>1. PICK n \in Chunks : HearAck(n)
    BY <1>4
  <2>2. /\ sPc = "send" /\ Ack(n) \in toSender /\ acked' = acked \cup {n}
        /\ UNCHANGED <<download, toSender, toReceiver, rPc, rTries, pending, expected,
                       buffered, written, rAbort, sPc, sTries, heard, sAbort>>
    BY <2>1 DEF HearAck, receiverVars
  <2>3. TypeOK'
    BY <1>0, <2>2 DEF TypeOK
  <2>4. ReadyMeansHeard' /\ WrittenInOrder' /\ AnswersSound'
    BY <1>0, <2>2 DEF ReadyMeansHeard, Ready, WrittenInOrder, AnswersSound
  <2>5. WorkersInStep' /\ AcksSound'
    BY <1>0, <2>2 DEF WorkersInStep, AcksSound
  <2>6. UploadInStep'
    BY <1>0, <2>2 DEF UploadInStep
  <2>. QED
    BY <2>3, <2>4, <2>5, <2>6 DEF Inv
<1>5. CASE Lose
  <2>1. /\ toSender' \subseteq toSender /\ toReceiver' \subseteq toReceiver
        /\ UNCHANGED <<download, rPc, rTries, pending, expected, buffered, written,
                       rAbort, sPc, sTries, heard, acked, sAbort>>
    BY <1>5 DEF Lose, receiverVars, senderVars
  <2>3. TypeOK'
    BY <1>0, <2>1 DEF TypeOK
  <2>4. ReadyMeansHeard' /\ WrittenInOrder' /\ AnswersSound'
    BY <1>0, <2>1 DEF ReadyMeansHeard, Ready, WrittenInOrder, AnswersSound
  <2>5. WorkersInStep' /\ AcksSound'
    BY <1>0, <2>1 DEF WorkersInStep, AcksSound
  <2>6. UploadInStep'
    BY <1>0, <2>1 DEF UploadInStep
  <2>. QED
    BY <2>3, <2>4, <2>5, <2>6 DEF Inv
<1>. QED
  BY <1>1, <1>2, <1>3, <1>4, <1>5 DEF ListenerHandshake, SenderTransfer

\* A step of the initiator up to the end of its handshake.
LEMMA InitiatorInv == Inv /\ (InitiatorHandshake \/ RequestReceiverAbort) => Inv'
<1>. SUFFICES ASSUME Inv, InitiatorHandshake \/ RequestReceiverAbort
              PROVE  Inv'
  OBVIOUS
<1>. USE ChunkFacts
<1>0. /\ TypeOK /\ ReadyMeansHeard /\ WrittenInOrder /\ WorkersInStep /\ AnswersSound
      /\ AcksSound /\ UploadInStep
  BY DEF Inv
<1>1. CASE SendSyn
  <2>1. /\ rPc = "syn" /\ rPc' = "await" /\ rTries' = rTries + 1
        /\ toSender' = toSender \cup {Syn}
        /\ UNCHANGED <<download, toReceiver, pending, expected, buffered, written,
                       rAbort, sPc, sTries, heard, acked, sAbort>>
    BY <1>1 DEF SendSyn, senderVars
  <2>2. \A n \in Chunks : Ack(n) \in toSender' <=> Ack(n) \in toSender
    BY <2>1, Datagrams
  <2>3. TypeOK'
    BY <1>0, <2>1 DEF TypeOK, WorkersInStep
  <2>4. ReadyMeansHeard' /\ WrittenInOrder' /\ AnswersSound'
    BY <1>0, <2>1 DEF ReadyMeansHeard, Ready, WrittenInOrder, AnswersSound
  <2>5. WorkersInStep' /\ UploadInStep'
    BY <1>0, <2>1 DEF WorkersInStep, UploadInStep
  <2>6. AcksSound'
    BY <1>0, <2>1, <2>2 DEF AcksSound
  <2>. QED
    BY <2>3, <2>4, <2>5, <2>6 DEF Inv
<1>2. CASE SynUnanswered \/ SynFails \/ RequestReceiverAbort
  <2>1. /\ \/ rPc \in {"syn", "await"} /\ rPc' = "failed"
           \/ rPc = "await" /\ rPc' = "syn" /\ rTries # MaxAttempts
           \/ rPc' = rPc
        /\ UNCHANGED <<download, toSender, toReceiver, rTries, pending, expected,
                       buffered, written, sPc, sTries, heard, acked, sAbort>>
    BY <1>2 DEF SynUnanswered, SynFails, RequestReceiverAbort, senderVars, receiverVars
  <2>2. rAbort' \in BOOLEAN
    BY <1>0, <1>2, Zenon DEF SynUnanswered, SynFails, RequestReceiverAbort, TypeOK
  <2>3. TypeOK'
    BY <1>0, <2>1, <2>2 DEF TypeOK
  <2>4. ReadyMeansHeard' /\ WrittenInOrder' /\ AnswersSound'
    BY <1>0, <2>1 DEF ReadyMeansHeard, Ready, WrittenInOrder, AnswersSound
  <2>5. WorkersInStep'
    BY <1>0, <2>1 DEF WorkersInStep, TypeOK
  <2>6. AcksSound' /\ UploadInStep'
    BY <1>0, <2>1 DEF AcksSound, UploadInStep
  <2>. QED
    BY <2>3, <2>4, <2>5, <2>6 DEF Inv
<1>3. CASE ReceiveSynAck \/ \E n \in Chunks : ReceiveEarlyData(n)
  <2>1. /\ rPc = "await" /\ rPc' = "receive" /\ toReceiver # {}
        /\ \/ pending' = pending
           \/ pending' \in Chunks /\ Data(pending') \in toReceiver
        /\ UNCHANGED <<download, toSender, toReceiver, rTries, expected, buffered,
                       written, rAbort, sPc, sTries, heard, acked, sAbort>>
    BY <1>3 DEF ReceiveSynAck, ReceiveEarlyData, senderVars
  <2>3. TypeOK'
    BY <1>0, <2>1 DEF TypeOK
  <2>4. ReadyMeansHeard' /\ WrittenInOrder' /\ AnswersSound'
    BY <1>0, <2>1 DEF ReadyMeansHeard, WrittenInOrder, AnswersSound
  <2>5. WorkersInStep' /\ AcksSound'
    BY <1>0, <2>1 DEF WorkersInStep, AcksSound
  <2>6. UploadInStep'
    BY <1>0, <2>1 DEF UploadInStep
  <2>. QED
    BY <2>3, <2>4, <2>5, <2>6 DEF Inv
<1>. QED
  BY <1>1, <1>2, <1>3 DEF InitiatorHandshake

\* The next chunk is delivered: the file grows by it and the worker knows its end.
LEMMA Delivery ==
  ASSUME Inv, rPc = "receive", Deliver(expected)
  PROVE  /\ expected \in Chunks /\ expected' = expected + 1
         /\ expected' \in 0 .. Last + 1 /\ written' \in Seq(Chunks)
         /\ WrittenInOrder'
         /\ \/ rPc' = "receive" /\ expected' <= Last
            \/ rPc' = "save" /\ expected' = Last + 1
<1>. USE ChunkFacts
<1>1. /\ expected \in Chunks /\ written \in Seq(Chunks)
      /\ written = [i \in 1 .. expected |-> i - 1]
  BY DEF Inv, TypeOK, WorkersInStep, WrittenInOrder, Chunks
<1>2. /\ written' = Append(written, expected) /\ expected' = expected + 1
      /\ rPc' = IF expected = Last THEN "save" ELSE "receive"
  BY DEF Deliver
<1>3. expected' \in 0 .. Last + 1 /\ (expected # Last => expected' <= Last)
  BY <1>1, <1>2 DEF Chunks
<1>4. Len(written) = expected
  BY <1>1 DEF Chunks
<1>5. written' = [i \in 1 .. expected' |-> i - 1]
  <2>1. written' = [i \in 1 .. expected + 1 |-> IF i = expected + 1 THEN expected
                                                ELSE written[i]]
    BY <1>1, <1>2, <1>4
  <2>2. \A i \in 1 .. expected + 1 :
          (IF i = expected + 1 THEN expected ELSE written[i]) = i - 1
    BY <1>1, <1>4
  <2>. QED
    BY <1>2, <2>1, <2>2
<1>. QED
  BY <1>1, <1>2, <1>3, <1>5 DEF WrittenInOrder

\* A step of receiveNext and receiveFile.
LEMMA ReceiverInv == Inv /\ ReceiverTransfer => Inv'
<1>. SUFFICES ASSUME Inv, ReceiverTransfer PROVE Inv'
  OBVIOUS
<1>. USE ChunkFacts
<1>0. /\ TypeOK /\ ReadyMeansHeard /\ WrittenInOrder /\ WorkersInStep /\ AnswersSound
      /\ AcksSound /\ UploadInStep
  BY DEF Inv
<1>1. CASE DeliverBuffered
  <2>1. /\ rPc = "receive" /\ Deliver(expected) /\ buffered' = buffered \ {expected}
        /\ UNCHANGED <<download, toSender, toReceiver, rTries, pending, rAbort, sPc,
                       sTries, heard, acked, sAbort>>
    BY <1>1 DEF DeliverBuffered, senderVars
  <2>2. /\ expected \in Chunks /\ expected' = expected + 1
        /\ expected' \in 0 .. Last + 1 /\ written' \in Seq(Chunks) /\ WrittenInOrder'
        /\ \/ rPc' = "receive" /\ expected' <= Last
           \/ rPc' = "save" /\ expected' = Last + 1
    BY <2>1, Delivery
  <2>3. TypeOK'
    BY <1>0, <2>1, <2>2 DEF TypeOK
  <2>4. ReadyMeansHeard' /\ AnswersSound' /\ WorkersInStep'
    BY <1>0, <2>1, <2>2 DEF ReadyMeansHeard, Ready, AnswersSound, WorkersInStep
  <2>5. AcksSound'
    BY <1>0, <2>1, <2>2 DEF AcksSound
  <2>6. UploadInStep'
    BY <1>0, <2>1, <2>2 DEF UploadInStep
  <2>. QED
    BY <2>2, <2>3, <2>4, <2>5, <2>6 DEF Inv
<1>2. CASE \E n \in Chunks : ReceiveOld(n)
  <2>1. PICK n \in Chunks : ReceiveOld(n)
    BY <1>2
  <2>2. /\ rPc = "receive" /\ n < expected /\ pending' = NoDatagram
        /\ toSender' = toSender \cup {Ack(n)}
        /\ UNCHANGED <<download, toReceiver, rPc, rTries, expected, buffered, written,
                       rAbort, sPc, sTries, heard, acked, sAbort>>
    BY <2>1 DEF ReceiveOld, senderVars
  <2>3. TypeOK'
    BY <1>0, <2>2 DEF TypeOK
  <2>4. ReadyMeansHeard' /\ AnswersSound' /\ WrittenInOrder' /\ WorkersInStep'
    BY <1>0, <2>2 DEF ReadyMeansHeard, Ready, AnswersSound, WrittenInOrder,
                      WorkersInStep
  <2>5. AcksSound'
    <3>1. n # Last
      BY <1>0, <2>2 DEF WorkersInStep, TypeOK
    <3>2. \A m \in Chunks : Ack(m) \in toSender' => Ack(m) \in toSender \/ m = n
      BY <2>2, Datagrams
    <3>. QED
      BY <1>0, <2>2, <3>1, <3>2 DEF AcksSound
  <2>6. UploadInStep'
    BY <1>0, <2>2 DEF UploadInStep
  <2>. QED
    BY <2>3, <2>4, <2>5, <2>6 DEF Inv
<1>3. CASE \E n \in Chunks : ReceiveNew(n)
  <2>1. PICK n \in Chunks : ReceiveNew(n)
    BY <1>3
  <2>2. /\ rPc = "receive" /\ Taken(n) /\ n >= expected /\ pending' = NoDatagram
        /\ UNCHANGED <<download, toReceiver, rTries, rAbort, sPc, sTries, heard, acked,
                       sAbort>>
    BY <2>1 DEF ReceiveNew, senderVars
  <2>3. /\ toSender' \subseteq toSender \cup {Ack(n)}
        /\ download /\ n = Last => toSender' = toSender
        /\ \/ n = expected /\ Deliver(n) /\ buffered' = buffered
           \/ /\ n > expected /\ UNCHANGED <<rPc, expected, written>>
              /\ \/ buffered' = buffered \cup {n}
                 \/ UNCHANGED <<toSender, buffered>>
    BY <2>1 DEF ReceiveNew, Acknowledge
  <2>4. \A m \in Chunks : Ack(m) \in toSender' => Ack(m) \in toSender \/ m = n
    BY <2>3, Datagrams
  <2>5. ~download => n = expected
    <3>1. SUFFICES ASSUME ~download, n > expected PROVE FALSE
      BY <1>0, <2>2 DEF TypeOK
    <3>2. expected \in 0 .. n - 1 /\ expected \in Chunks
      BY <1>0, <3>1 DEF TypeOK, Chunks
    <3>3. expected \in acked
      BY <1>0, <2>2, <3>1, <3>2 DEF Taken, UploadInStep
    <3>4. expected < expected \/ expected \in buffered
      BY <1>0, <3>2, <3>3 DEF AcksSound
    <3>5. buffered = {} /\ expected \in Int
      BY <1>0, <3>1, <3>2 DEF UploadInStep, Chunks
    <3>. QED
      BY <3>4, <3>5
  <2>6. CASE n = expected
    <3>1. Deliver(expected) /\ buffered' = buffered
      BY <1>0, <2>3, <2>6 DEF TypeOK
    <3>2. /\ expected' = expected + 1
          /\ expected' \in 0 .. Last + 1 /\ written' \in Seq(Chunks) /\ WrittenInOrder'
          /\ \/ rPc' = "receive" /\ expected' <= Last
             \/ rPc' = "save" /\ expected' = Last + 1
      BY <2>2, <3>1, Delivery
    <3>3. TypeOK'
      BY <1>0, <2>2, <2>3, <3>1, <3>2 DEF TypeOK
    <3>4. ReadyMeansHeard' /\ AnswersSound' /\ WorkersInStep'
      BY <1>0, <2>2, <3>2 DEF ReadyMeansHeard, Ready, AnswersSound, WorkersInStep
    <3>5. AcksSound'
      <4>1. SUFFICES ASSUME NEW m \in Chunks, (Ack(m) \in toSender \/ m \in acked)'
                     PROVE  /\ m < expected' \/ m \in buffered'
                            /\ download' /\ m = Last => rPc' = "done"
        BY DEF AcksSound
      <4>2. CASE Ack(m) \in toSender \/ m \in acked
        <5>1. /\ m < expected \/ m \in buffered
              /\ download /\ m = Last => rPc = "done"
          BY <1>0, <4>2 DEF AcksSound
        <5>2. m < expected => m < expected'
          BY <1>0, <3>2, ChunkFacts DEF TypeOK
        <5>. QED
          BY <2>2, <3>1, <5>1, <5>2
      <4>3. CASE Ack(m) \notin toSender /\ m \notin acked
        BY <1>0, <2>2, <2>3, <2>4, <2>6, <3>2, <4>1, <4>3
      <4>. QED
        BY <4>2, <4>3
    <3>6. UploadInStep'
      BY <1>0, <2>2, <3>1 DEF UploadInStep
    <3>. QED
      BY <3>2, <3>3, <3>4, <3>5, <3>6 DEF Inv
  <2>7. CASE n # expected
    <3>1. /\ UNCHANGED <<rPc, expected, written>> /\ download
          /\ \/ buffered' = buffered \cup {n}
             \/ UNCHANGED <<toSender, buffered>>
      BY <1>0, <2>3, <2>5, <2>7, Zenon DEF TypeOK
    <3>2. TypeOK'
      BY <1>0, <2>2, <2>3, <3>1 DEF TypeOK
    <3>3. ReadyMeansHeard' /\ AnswersSound' /\ WrittenInOrder' /\ WorkersInStep'
      BY <1>0, <2>2, <3>1 DEF ReadyMeansHeard, Ready, AnswersSound, WrittenInOrder,
                              WorkersInStep
    <3>4. AcksSound'
      BY <1>0, <2>2, <2>3, <2>4, <3>1 DEF AcksSound
    <3>5. UploadInStep'
      BY <2>2, <3>1 DEF UploadInStep
    <3>. QED
      BY <3>2, <3>3, <3>4, <3>5 DEF Inv
  <2>. QED
    BY <2>6, <2>7
<1>4. CASE ReceiveEnds
  <2>1. /\ rPc \in {"receive", "save"} /\ rPc' = "failed"
        /\ UNCHANGED <<download, toSender, toReceiver, rTries, pending, expected,
                       buffered, written, rAbort, sPc, sTries, heard, acked, sAbort>>
    BY <1>4 DEF ReceiveEnds, senderVars
  <2>2. TypeOK'
    BY <1>0, <2>1 DEF TypeOK
  <2>3. ReadyMeansHeard' /\ AnswersSound' /\ WrittenInOrder' /\ WorkersInStep'
    BY <1>0, <2>1 DEF ReadyMeansHeard, Ready, AnswersSound, WrittenInOrder,
                      WorkersInStep
  <2>4. AcksSound' /\ UploadInStep'
    BY <1>0, <2>1 DEF AcksSound, UploadInStep
  <2>. QED
    BY <2>2, <2>3, <2>4 DEF Inv
<1>5. CASE Save
  <2>1. /\ rPc = "save" /\ rPc' = "done"
        /\ toSender' \subseteq toSender \cup {Ack(Last)}
        /\ UNCHANGED <<download, toReceiver, rTries, pending, expected, buffered,
                       written, rAbort, sPc, sTries, heard, acked, sAbort>>
    BY <1>5 DEF Save, senderVars
  <2>2. TypeOK'
    BY <1>0, <2>1 DEF TypeOK
  <2>3. ReadyMeansHeard' /\ AnswersSound' /\ WrittenInOrder' /\ WorkersInStep'
    BY <1>0, <2>1 DEF ReadyMeansHeard, Ready, AnswersSound, WrittenInOrder,
                      WorkersInStep
  <2>4. \A m \in Chunks : Ack(m) \in toSender' => Ack(m) \in toSender \/ m = Last
    BY <2>1, Datagrams
  <2>5. AcksSound'
    BY <1>0, <2>1, <2>4 DEF AcksSound, WorkersInStep
  <2>6. UploadInStep'
    BY <1>0, <2>1 DEF UploadInStep
  <2>. QED
    BY <2>2, <2>3, <2>5, <2>6 DEF Inv
<1>. QED
  BY <1>1, <1>2, <1>3, <1>4, <1>5 DEF ReceiverTransfer

LEMMA StutterInv == Inv /\ UNCHANGED vars => Inv'
<1>. SUFFICES ASSUME Inv, UNCHANGED vars PROVE Inv'
  OBVIOUS
<1>1. UNCHANGED <<download, toSender, toReceiver, rPc, rTries, pending, expected,
                  buffered, written, rAbort, sPc, sTries, heard, acked, sAbort>>
  BY DEF vars, receiverVars, senderVars
<1>. QED
  BY <1>1 DEF Inv, TypeOK, ReadyMeansHeard, Ready, WrittenInOrder, WorkersInStep,
              AnswersSound, AcksSound, UploadInStep

-----------------------------------------------------------------------------
(* Theorems *)

\* The inductive invariant holds in every reachable state, whatever the network
\* does with the datagrams.
THEOREM Invariance == Spec => []Inv
<1>1. Inv /\ [Next]_vars => Inv'
  BY SenderSideInv, InitiatorInv, ReceiverInv, StutterInv DEF Next, Ended
<1>. QED
  BY InitInv, <1>1, PTL DEF Spec

\* Types; neither signalClientReady nor waitForClientReady tries too often.
THEOREM TypeCorrect == Spec => []TypeOK
<1>1. Inv => TypeOK
  BY DEF Inv
<1>. QED
  BY Invariance, <1>1, PTL

\* A receiver that goes on to receive data is known to the sender.
THEOREM ReadyIsHeard == Spec => []ReadyMeansHeard
<1>1. Inv => ReadyMeansHeard
  BY DEF Inv
<1>. QED
  BY Invariance, <1>1, PTL

\* The file is written in order, with or without a pendingDatagram.
THEOREM InOrder == Spec => []WrittenInOrder
<1>1. Inv => WrittenInOrder
  BY DEF Inv
<1>. QED
  BY Invariance, <1>1, PTL

\* No datagram taken in the handshake is acknowledged and lost.
THEOREM AckedKept == Spec => []AckedIsKept
<1>1. Inv => AckedIsKept
  BY DEF Inv, AcksSound, AckedIsKept, TypeOK
<1>. QED
  BY Invariance, <1>1, PTL

\* A sender that reports success left the whole file with its receiver.
THEOREM DoneReceived == Spec => []DoneMeansReceived
<1>1. ASSUME Inv, sPc = "done"
      PROVE  expected = Last + 1 /\ (download => rPc = "done")
  <2>1. Last \in acked /\ Last \in Chunks
    BY <1>1, ChunkFacts DEF Inv, WorkersInStep
  <2>2. /\ Last < expected \/ Last \in buffered
        /\ download => rPc = "done"
    BY <1>1, <2>1 DEF Inv, AcksSound
  <2>3. CASE download
    BY <1>1, <2>2, <2>3 DEF Inv, WorkersInStep
  <2>4. CASE ~download
    BY <1>1, <2>2, <2>4, ChunkFacts DEF Inv, UploadInStep, TypeOK
  <2>. QED
    BY <2>3, <2>4
<1>2. Inv => DoneMeansReceived
  BY <1>1 DEF DoneMeansReceived
<1>. QED
  BY Invariance, <1>2, PTL

=============================================================================
