------------------------- MODULE RetrTransferProofs -------------------------
(***************************************************************************)
(* The invariants of RetrTransfer, for a file of any length, any receive   *)
(* window, any initial congestion window and any retry limit.              *)
(***************************************************************************)
EXTENDS RetrTransfer, SequenceTheorems, TLAPS

-----------------------------------------------------------------------------
(* Constants and datagrams *)

\* The served file has N > 0 chunks.
LEMMA FileFacts ==
  /\ N \in Nat \ {0}
  /\ File \in Seq(Payloads)
  /\ \A s \in Seqs : File[s + 1] \in Payloads
<1>1. File \in Seq(Payloads)
  BY FileAssumption DEF Payloads
<1>2. Len(File) \in Nat /\ DOMAIN File = 1 .. Len(File)
  BY <1>1
<1>3. Len(File) # 0
  BY <1>1, FileAssumption, EmptySeq
<1>. QED
  BY <1>1, <1>2, <1>3 DEF N, Seqs, Payloads

\* A DATA datagram is determined by its sequence number.
LEMMA PacketFacts ==
  /\ \A s \in Seqs : Packet(s) \in Packets /\ Packet(s).seq = s
  /\ \A p \in Packets : /\ p.seq \in Seqs
                        /\ p = Packet(p.seq)
                        /\ p.fin <=> p.seq = N - 1
                        /\ p.data = File[p.seq + 1]
                        /\ p.data \in Payloads
<1>1. ASSUME NEW s \in Seqs
      PROVE  /\ Packet(s) \in Packets
             /\ Packet(s).seq = s
             /\ Packet(s).data = File[s + 1]
             /\ Packet(s).fin = (s = N - 1)
  BY DEF Packet, Packets
<1>2. ASSUME NEW p \in Packets
      PROVE  \E s \in Seqs : p = Packet(s)
  BY DEF Packets
<1>3. ASSUME NEW p \in Packets
      PROVE  /\ p.seq \in Seqs
             /\ p = Packet(p.seq)
             /\ p.fin <=> p.seq = N - 1
             /\ p.data = File[p.seq + 1]
             /\ p.data \in Payloads
  <2>1. PICK s \in Seqs : p = Packet(s)
    BY <1>2
  <2>2. p.seq = s /\ p.data = File[s + 1] /\ p.fin = (s = N - 1)
    BY <1>1, <2>1
  <2>. QED
    BY <2>1, <2>2, FileFacts
<1>. QED
  BY <1>1, <1>3

\* Responses of different kinds or for different datagrams differ.
LEMMA ResponseFacts ==
  /\ \A s \in Seqs : Ack(s) \in Responses /\ Nak(s) \in Responses
  /\ \A s, t : Ack(s) = Ack(t) => s = t
  /\ \A s, t : Nak(s) = Nak(t) => s = t
  /\ \A s, t : Ack(s) # Nak(t)
  BY DEF Ack, Nak, Responses

\* The clamp keeps the window between 1 and ReceiveWindow.
LEMMA WindowFacts ==
  ASSUME cwnd \in Nat \ {0}
  PROVE  EffectiveWindowSize \in 1 .. ReceiveWindow
  BY WindowAssumption DEF EffectiveWindowSize

\* A temporary file with all the chunks is the served file.
LEMMA CompletePrefix ==
  ASSUME TypeOK, WrittenIsPrefix, Len(written) = N
  PROVE  written = File
<1>1. written \in Seq(Payloads) /\ File \in Seq(Payloads) /\ Len(written) = Len(File)
  BY FileFacts DEF TypeOK, N
<1>. QED
  BY <1>1, SeqEqual DEF WrittenIsPrefix

-----------------------------------------------------------------------------
(* The inductive invariant *)

LEMMA InitInv == Init => Inv
<1>. SUFFICES ASSUME Init PROVE Inv
  OBVIOUS
<1>. USE DEF Init
<1>1. TypeOK
  <2>1. chunk \in Packets /\ retries \in [Seqs -> 0 .. MaxRetries]
    BY FileFacts, PacketFacts, RetriesAssumption DEF Seqs
  <2>2. written \in Seq(Payloads)
    BY EmptySeq
  <2>3. sAbort \in BOOLEAN /\ cAbort \in BOOLEAN
    BY Zenon
  <2>4. next \in 0 .. N /\ base \in 0 .. N /\ expected \in 0 .. N
    BY FileFacts
  <2>5. cwnd \in Nat \ {0} /\ cleanAcks \in Nat
    BY CwndAssumption
  <2>. QED
    BY <2>1, <2>2, <2>3, <2>4, <2>5 DEF TypeOK, SPcs, RPcs
<1>2. SenderWindow /\ ChannelSound
  BY WindowAssumption DEF SenderWindow, ChannelSound
<1>3. AcksSound /\ DiskInStep /\ SuccessIsFlushed
  BY DEF AcksSound, DiskInStep, SuccessIsFlushed
<1>4. ClientInStep /\ WrittenIsPrefix
  BY FileFacts DEF ClientInStep, WrittenIsPrefix
<1>. QED
  BY <1>1, <1>2, <1>3, <1>4 DEF Inv

\* Client-side facts survive a step that leaves the client and the responses alone.
LEMMA ServerFrame ==
  ASSUME Inv, UNCHANGED clientVars, UNCHANGED responses
  PROVE  /\ ClientInStep' /\ WrittenIsPrefix' /\ DiskInStep'
         /\ \A s : Buffered(s)' <=> Buffered(s)
  BY DEF Inv, clientVars, ClientInStep, WrittenIsPrefix, DiskInStep, Buffered

LEMMA SendChunkInv == Inv /\ SendChunk => Inv'
<1>. SUFFICES ASSUME Inv, SendChunk PROVE Inv'
  OBVIOUS
<1>1. next \in Seqs /\ TypeOK
  <2>1. TypeOK
    BY DEF Inv
  <2>2. next \in 0 .. N /\ next < N
    BY <2>1 DEF TypeOK, SendChunk
  <2>. QED
    BY <2>1, <2>2, FileFacts DEF Seqs
<1>2. TypeOK'
  <2>1. packets' \subseteq Packets
    BY <1>1, PacketFacts DEF TypeOK, SendChunk
  <2>2. next' \in 0 .. N /\ sPc' \in SPcs
    BY <1>1, FileFacts DEF SendChunk, Seqs, SPcs
  <2>3. UNCHANGED <<base, acked, retries, cwnd, cleanAcks, sAbort, reply, responses,
                    clientVars>>
    BY DEF SendChunk
  <2>. QED
    BY <1>1, <2>1, <2>2, <2>3 DEF TypeOK, clientVars
<1>. USE FileFacts, PacketFacts
<1>3. SenderWindow'
  <2>1. next - base < ReceiveWindow
    BY <1>1, WindowFacts, WindowAssumption DEF TypeOK, SendChunk
  <2>2. SenderWindow /\ UNCHANGED <<base, acked>> /\ next' = next + 1
    BY DEF Inv, SendChunk
  <2>3. next \in Nat /\ base \in Nat
    BY <1>1 DEF TypeOK, Seqs
  <2>. QED
    BY <2>1, <2>2, <2>3, WindowAssumption DEF SenderWindow
<1>4. ChannelSound'
  <2>1. ASSUME NEW p \in packets' PROVE p.seq < next'
    <3>1. CASE p \in packets
      <4>1. p.seq < next /\ p.seq \in Seqs
        BY <1>1, <3>1 DEF Inv, TypeOK, ChannelSound
      <4>. QED
        BY <1>1, <4>1 DEF SendChunk, Seqs
    <3>2. CASE p = Packet(next)
      BY <1>1, <3>2 DEF SendChunk, Seqs
    <3>. QED
      BY <3>1, <3>2 DEF SendChunk
  <2>. QED
    BY <2>1 DEF Inv, ChannelSound, SendChunk, clientVars
<1>5. AcksSound' /\ SuccessIsFlushed'
  BY <1>1 DEF Inv, TypeOK, AcksSound, SuccessIsFlushed, Buffered, SendChunk, clientVars
<1>. QED
  BY <1>2, <1>3, <1>4, <1>5, ServerFrame DEF Inv, SendChunk

LEMMA ReceiveAckInv ==
  ASSUME NEW s \in Seqs, Inv, ReceiveAck(s)
  PROVE  Inv'
<1>1. PICK b \in base .. next :
        /\ b \notin acked'
        /\ \A i \in base .. b - 1 : i \in acked'
        /\ base' = b
  BY DEF ReceiveAck
<1>2. TypeOK /\ s \in base .. next - 1 /\ s \notin acked /\ acked' = acked \cup {s}
  BY DEF Inv, ReceiveAck, Unacked, InFlight
<1>3. cwnd' \in Nat \ {0} /\ cleanAcks' \in Nat
  <2>1. cwnd \in Nat \ {0} /\ cleanAcks \in Nat
    BY <1>2 DEF TypeOK
  <2>. QED
    BY <2>1 DEF ReceiveAck, CongestionIncrease
<1>4. TypeOK'
  <2>1. base' \in 0 .. N
    BY <1>1, <1>2, FileFacts DEF TypeOK
  <2>2. acked' \subseteq Seqs
    BY <1>2 DEF TypeOK
  <2>. QED
    BY <1>2, <1>3, <2>1, <2>2 DEF TypeOK, ReceiveAck, clientVars
<1>. USE FileFacts
<1>5. SenderWindow'
  <2>1. base' <= next' /\ next' - base' <= ReceiveWindow
    BY <1>1, <1>2, WindowAssumption DEF Inv, TypeOK, SenderWindow, ReceiveAck
  <2>2. acked' \subseteq 0 .. next' - 1
    BY <1>2 DEF Inv, TypeOK, SenderWindow, ReceiveAck
  <2>3. ASSUME NEW i \in 0 .. b - 1 PROVE i \in acked'
    <3>1. CASE i < base
      BY <1>2, <3>1 DEF Inv, TypeOK, SenderWindow
    <3>2. CASE i >= base
      BY <1>1, <1>2, <3>2 DEF TypeOK
    <3>. QED
      BY <1>2, <3>1, <3>2 DEF TypeOK
  <2>. QED
    BY <1>1, <2>1, <2>2, <2>3 DEF SenderWindow
<1>6. ChannelSound'
  BY <1>2 DEF Inv, ChannelSound, ReceiveAck, clientVars
<1>7. AcksSound'
  BY <1>2, ServerFrame DEF Inv, AcksSound, ReceiveAck, clientVars
<1>8. SuccessIsFlushed'
  <2>1. base # N
    BY <1>2 DEF Inv, TypeOK, SenderWindow
  <2>. QED
    BY <2>1 DEF Inv, SuccessIsFlushed, ReceiveAck
<1>. QED
  BY <1>4, <1>5, <1>6, <1>7, <1>8, ServerFrame DEF Inv, ReceiveAck

LEMMA TimeoutInv ==
  ASSUME NEW expired \in SUBSET Unacked, Inv, CongestionDecrease, Resend(expired),
         \A s \in expired : retries[s] < MaxRetries,
         sPc = "poll", sPc' \in {"send", "failure"}, UNCHANGED <<next, base, acked, sAbort, reply>>,
         UNCHANGED <<responses, clientVars>>
  PROVE  Inv'
<1>1. TypeOK /\ expired \subseteq Seqs /\ \A s \in expired : s < next
  BY FileFacts DEF Inv, TypeOK, Unacked, InFlight, Seqs
<1>2. cwnd' \in Nat \ {0} /\ cleanAcks' \in Nat
  BY <1>1 DEF TypeOK, CongestionDecrease
<1>3. retries' \in [Seqs -> 0 .. MaxRetries]
  <2>1. \A s \in Seqs : retries[s] \in 0 .. MaxRetries
    BY <1>1 DEF TypeOK
  <2>2. \A s \in Seqs :
          (IF s \in expired THEN retries[s] + 1 ELSE retries[s]) \in 0 .. MaxRetries
    BY <2>1, RetriesAssumption
  <2>. QED
    BY <2>2 DEF Resend
<1>. USE FileFacts, PacketFacts
<1>4. packets' \subseteq Packets /\ \A p \in packets' : p.seq < next'
  <2>1. packets \subseteq Packets /\ \A p \in packets : p.seq < next
    BY <1>1 DEF Inv, TypeOK, ChannelSound
  <2>2. \A s \in expired : Packet(s) \in Packets /\ Packet(s).seq < next
    BY <1>1
  <2>. QED
    BY <2>1, <2>2 DEF Resend
<1>5. TypeOK'
  <2>1. sPc' \in SPcs
    BY DEF SPcs
  <2>. QED
    BY <1>1, <1>2, <1>3, <1>4, <2>1 DEF TypeOK, clientVars
<1>6. SenderWindow' /\ ChannelSound' /\ SuccessIsFlushed'
  BY <1>4 DEF Inv, SenderWindow, ChannelSound, SuccessIsFlushed, clientVars
<1>7. AcksSound'
  BY ServerFrame DEF Inv, AcksSound, clientVars
<1>. QED
  BY <1>5, <1>6, <1>7, ServerFrame DEF Inv

\* Steps of the server's threads that only move sPc, the reply or the abort flag.
LEMMA ServerControlInv ==
  ASSUME Inv, sPc' \in SPcs, sAbort' \in BOOLEAN,
         reply' \in {"none", "226", "426", "suppressed"}, SuccessIsFlushed',
         UNCHANGED <<next, base, acked, retries, cwnd, cleanAcks>>,
         UNCHANGED <<packets, responses, clientVars>>
  PROVE  Inv'
<1>1. TypeOK'
  BY DEF Inv, TypeOK, clientVars
<1>2. SenderWindow' /\ ChannelSound'
  BY DEF Inv, SenderWindow, ChannelSound, clientVars
<1>3. AcksSound'
  BY ServerFrame DEF Inv, AcksSound, clientVars
<1>. QED
  BY <1>1, <1>2, <1>3, ServerFrame DEF Inv

LEMMA ServerNextInv == Inv /\ (ServerNext \/ RequestServerAbort) => Inv'
<1>. SUFFICES ASSUME Inv, ServerNext \/ RequestServerAbort PROVE Inv'
  OBVIOUS
<1>0. /\ sPc \in SPcs /\ reply \in {"none", "226", "426", "suppressed"}
      /\ sAbort \in BOOLEAN /\ SuccessIsFlushed
  BY DEF Inv, TypeOK
<1>1. CASE SendChunk
  BY <1>1, SendChunkInv
<1>2. CASE PollAgain \/ NoTimeout \/ SendError \/ SenderAborts
           \/ \E s \in Seqs : ReceiveNak(s)
  <2>1. /\ sPc \in {"send", "poll"} /\ sPc' \in {"send", "poll", "failure"}
        /\ UNCHANGED <<reply, sAbort>>
        /\ UNCHANGED <<next, base, acked, retries, cwnd, cleanAcks>>
        /\ UNCHANGED <<packets, responses, clientVars>>
    BY <1>2 DEF PollAgain, NoTimeout, SendError, SenderAborts, ReceiveNak
  <2>2. SuccessIsFlushed'
    BY <1>0, <2>1 DEF SuccessIsFlushed
  <2>3. sPc' \in SPcs
    BY <2>1 DEF SPcs
  <2>. QED
    BY <1>0, <2>1, <2>2, <2>3, ServerControlInv
<1>3. CASE SendComplete
  <2>1. SuccessIsFlushed' /\ sPc' \in SPcs
    BY <1>0, <1>3 DEF SendComplete, SuccessIsFlushed, SPcs
  <2>. QED
    BY <1>0, <1>3, <2>1, ServerControlInv DEF SendComplete
<1>4. CASE \E s \in Seqs : ReceiveAck(s)
  BY <1>4, ReceiveAckInv
<1>5. CASE Timeout
  <2>1. CASE \E expired \in SUBSET Unacked : Retransmit(expired)
    BY <2>1, TimeoutInv DEF Retransmit
  <2>2. CASE \E s \in Unacked : \E expired \in SUBSET Unacked : GiveUp(s, expired)
    BY <2>2, TimeoutInv DEF GiveUp
  <2>. QED
    BY <1>5, <2>1, <2>2 DEF Timeout
<1>6. CASE FinishTransfer
  <2>1. /\ sPc' \in SPcs
        /\ reply' \in {"none", "226", "426", "suppressed"}
        /\ SuccessIsFlushed'
    BY <1>0, <1>6 DEF FinishTransfer, SuccessIsFlushed, SPcs
  <2>. QED
    BY <1>0, <1>6, <2>1, ServerControlInv DEF FinishTransfer
<1>7. CASE RequestServerAbort
  <2>1. SuccessIsFlushed' /\ sAbort' \in BOOLEAN
    BY <1>0, <1>7 DEF RequestServerAbort, SuccessIsFlushed
  <2>. QED
    BY <1>0, <1>7, <2>1, ServerControlInv DEF RequestServerAbort
<1>8. CASE \E s \in Unacked : \E expired \in SUBSET Unacked : RetransmitError(s, expired)
  BY <1>8, TimeoutInv DEF RetransmitError
<1>. QED
  BY <1>1, <1>2, <1>3, <1>4, <1>5, <1>6, <1>7, <1>8 DEF ServerNext

\* Sender-side facts survive a step of the client.
LEMMA ClientFrame ==
  ASSUME Inv, UNCHANGED serverVars
  PROVE  /\ SenderWindow' /\ SuccessIsFlushed'
         /\ sPc' \in SPcs /\ next' \in 0 .. N /\ base' \in 0 .. N
         /\ acked' \subseteq Seqs /\ retries' \in [Seqs -> 0 .. MaxRetries]
         /\ cwnd' \in Nat \ {0} /\ cleanAcks' \in Nat
         /\ sAbort' \in BOOLEAN
         /\ reply' \in {"none", "226", "426", "suppressed"}
  BY DEF Inv, TypeOK, SenderWindow, SuccessIsFlushed, serverVars

LEMMA ReceiveBufferedInv ==
  ASSUME NEW q \in buffer, Inv, ReceiveBuffered(q)
  PROVE  Inv'
<1>. USE FileFacts, PacketFacts
<1>1. /\ TypeOK /\ q \in Packets /\ q.seq = expected /\ expected \in Seqs
      /\ rPc = "receive" /\ Len(written) = expected
  BY DEF Inv, TypeOK, ClientInStep, ReceiveBuffered
<1>2. /\ chunk' = q /\ expected' = expected + 1 /\ rPc' = "append"
      /\ buffer' = buffer \ {q}
      /\ UNCHANGED <<serverVars, packets, responses, finalPending, written,
                     destination, cAbort>>
  BY DEF ReceiveBuffered, Deliver
<1>3. TypeOK'
  <2>1. expected' \in 0 .. N
    BY <1>1, <1>2 DEF Seqs
  <2>. QED
    BY <1>1, <1>2, <2>1, ClientFrame DEF TypeOK, RPcs
<1>4. ChannelSound'
  <2>1. ASSUME NEW p \in buffer' PROVE p.seq >= expected'
    <3>1. p \in Packets /\ p.seq >= expected /\ p # q
      BY <1>2 DEF Inv, TypeOK, ChannelSound
    <3>2. p.seq # q.seq /\ p.seq \in Seqs
      BY <1>1, <3>1
    <3>. QED
      BY <1>1, <1>2, <3>1, <3>2 DEF Seqs
  <2>. QED
    BY <1>2, <2>1 DEF Inv, ChannelSound, serverVars
<1>5. AcksSound'
  <2>1. ASSUME NEW s \in Seqs, Ack(s) \in responses \/ s \in acked
        PROVE  (s < expected' \/ Buffered(s)') /\ s # N - 1
    <3>1. (s < expected \/ Buffered(s)) /\ s # N - 1
      BY <1>1, <2>1 DEF Inv, AcksSound
    <3>2. CASE s < expected
      BY <1>1, <1>2, <3>1, <3>2 DEF Seqs
    <3>3. CASE Buffered(s)
      <4>1. PICK p \in buffer : p.seq = s
        BY <3>3 DEF Buffered
      <4>2. CASE p = q
        BY <1>1, <1>2, <3>1, <4>1, <4>2 DEF Seqs
      <4>3. CASE p # q
        BY <1>2, <3>1, <4>1, <4>3 DEF Buffered
      <4>. QED
        BY <4>2, <4>3
    <3>. QED
      BY <3>1, <3>2, <3>3
  <2>. QED
    BY <1>2, <2>1 DEF AcksSound, serverVars
<1>6. ClientInStep' /\ WrittenIsPrefix'
  BY <1>1, <1>2 DEF Inv, ClientInStep, WrittenIsPrefix
<1>7. DiskInStep'
  BY <1>1, <1>2 DEF Inv, DiskInStep
<1>. QED
  BY <1>2, <1>3, <1>4, <1>5, <1>6, <1>7, ClientFrame DEF Inv

LEMMA ReceiveOldInv ==
  ASSUME NEW q \in packets, Inv, ReceiveOld(q)
  PROVE  Inv'
<1>. USE FileFacts, PacketFacts, ResponseFacts
<1>1. /\ TypeOK /\ q \in Packets /\ q.seq \in Seqs /\ q.seq < expected
      /\ rPc = "receive" /\ expected < N
      /\ responses' = responses \cup {Ack(q.seq)}
      /\ UNCHANGED <<serverVars, packets, clientVars>>
  BY DEF Inv, TypeOK, ClientInStep, ReceiveOld, InReceiveLoop
<1>2. TypeOK'
  <2>1. responses' \subseteq Responses
    BY <1>1 DEF TypeOK
  <2>. QED
    BY <1>1, <2>1 DEF TypeOK, clientVars, serverVars
<1>3. ChannelSound' /\ ClientInStep' /\ WrittenIsPrefix'
  BY <1>1 DEF Inv, ChannelSound, ClientInStep, WrittenIsPrefix, clientVars, serverVars
<1>4. AcksSound'
  <2>1. q.seq # N - 1
    BY <1>1 DEF TypeOK, Seqs
  <2>. QED
    BY <1>1, <2>1 DEF Inv, AcksSound, Buffered, serverVars, clientVars
<1>5. DiskInStep'
  BY <1>1 DEF Inv, DiskInStep, clientVars
<1>. QED
  BY <1>1, <1>2, <1>3, <1>4, <1>5, ClientFrame DEF Inv

LEMMA ReceiveNewInv ==
  ASSUME NEW q \in packets, Inv, ReceiveNew(q)
  PROVE  Inv'
<1>1. /\ TypeOK /\ q \in Packets /\ q.seq \in Seqs /\ q.seq >= expected
      /\ rPc = "receive" /\ expected \in Seqs /\ Len(written) = expected
      /\ UNCHANGED <<serverVars, packets, written, destination, cAbort>>
  <2>1. /\ TypeOK /\ ClientInStep /\ rPc = "receive" /\ q.seq >= expected
        /\ UNCHANGED <<serverVars, packets, written, destination, cAbort>>
    BY DEF Inv, ReceiveNew, InReceiveLoop
  <2>2. q \in Packets /\ q.seq \in Seqs
    BY <2>1, PacketFacts DEF TypeOK
  <2>3. expected \in 0 .. N
    BY <2>1 DEF TypeOK
  <2>4. expected \in Seqs
    BY <2>1, <2>2, <2>3, FileFacts DEF Seqs
  <2>5. Len(written) = expected
    BY <2>1 DEF ClientInStep
  <2>. QED
    BY <2>1, <2>2, <2>4, <2>5
<1>. USE FileFacts, PacketFacts, ResponseFacts
<1>2. /\ responses' \subseteq responses \cup {Ack(q.seq)}
      /\ Ack(q.seq) \in responses' => Ack(q.seq) \in responses \/ q.seq # N - 1
      /\ finalPending' \in {finalPending, q.seq}
  BY <1>1 DEF ReceiveNew, AcknowledgeOrDefer
<1>3. \/ /\ q.seq > expected /\ buffer' = Emplace(q)
         /\ UNCHANGED <<chunk, expected, rPc>>
      \/ /\ q.seq = expected /\ chunk' = q /\ expected' = expected + 1
         /\ rPc' = "append" /\ buffer' = buffer
  BY <1>1 DEF ReceiveNew, Deliver, Seqs
<1>4. buffer' \subseteq buffer \cup {q} /\ buffer \subseteq buffer'
  BY <1>3 DEF Emplace
<1>5. TypeOK'
  <2>1. expected' \in 0 .. N /\ rPc' \in RPcs /\ chunk' \in Packets
    <3>1. chunk \in Packets
      BY <1>1 DEF TypeOK
    <3>. QED
      BY <1>1, <1>3, <3>1 DEF Seqs, RPcs
  <2>2. buffer' \subseteq Packets /\ responses' \subseteq Responses
    <3>1. buffer \subseteq Packets /\ responses \subseteq Responses
      BY <1>1 DEF TypeOK
    <3>. QED
      BY <1>1, <1>2, <1>4, <3>1
  <2>3. finalPending' \in Seqs \cup {None}
    BY <1>1, <1>2 DEF TypeOK
  <2>. QED
    BY <1>1, <2>1, <2>2, <2>3, ClientFrame DEF TypeOK
<1>6. ~ Buffered(expected)
  BY DEF ReceiveNew, InReceiveLoop
<1>7. ChannelSound'
  <2>1. ASSUME NEW p \in buffer' PROVE p.seq >= expected'
    <3>1. p.seq \in Seqs
      BY <1>1, <1>4 DEF TypeOK
    <3>2. CASE q.seq > expected /\ expected' = expected
      BY <1>1, <1>4, <3>2 DEF Inv, ChannelSound, Seqs
    <3>3. CASE q.seq = expected /\ expected' = expected + 1 /\ buffer' = buffer
      <4>1. p.seq >= expected /\ p.seq # expected
        BY <1>6, <3>3 DEF Inv, ChannelSound, Buffered
      <4>. QED
        BY <1>1, <3>1, <3>3, <4>1 DEF Seqs
    <3>. QED
      BY <1>3, <3>2, <3>3
  <2>. QED
    BY <1>1, <2>1 DEF Inv, ChannelSound, serverVars
<1>8. AcksSound'
  <2>1. ASSUME NEW s \in Seqs, Ack(s) \in responses' \/ s \in acked
        PROVE  (s < expected' \/ Buffered(s)') /\ s # N - 1
    <3>1. CASE Ack(s) \in responses \/ s \in acked
      <4>1. (s < expected \/ Buffered(s)) /\ s # N - 1
        BY <1>1, <3>1 DEF Inv, AcksSound
      <4>. QED
        BY <1>1, <1>3, <1>4, <4>1 DEF Buffered, Seqs
    <3>2. CASE s = q.seq /\ s # N - 1
      BY <1>1, <1>3, <3>2 DEF Buffered, Emplace, Seqs
    <3>. QED
      BY <1>2, <2>1, <3>1, <3>2
  <2>. QED
    BY <1>1, <2>1 DEF AcksSound, serverVars
<1>9. ClientInStep' /\ WrittenIsPrefix'
  BY <1>1, <1>3 DEF Inv, ClientInStep, WrittenIsPrefix
<1>10. DiskInStep'
  BY <1>1, <1>2, <1>3 DEF Inv, DiskInStep
<1>. QED
  BY <1>1, <1>5, <1>7, <1>8, <1>9, <1>10, ClientFrame DEF Inv

\* receiveFile gives up, with or without a NAK.
LEMMA FailureInv ==
  ASSUME Inv, rPc' = "failure", rPc # "success",
         UNCHANGED <<serverVars, packets, expected, buffer, chunk, written,
                     destination, cAbort>>,
         finalPending' \in {finalPending, None},
         \/ responses' = responses
         \/ rPc \in {"append", "commit"} /\ responses' = responses \cup {Nak(chunk.seq)}
  PROVE  Inv'
<1>. USE FileFacts, PacketFacts, ResponseFacts
<1>1. /\ TypeOK /\ chunk.seq \in Seqs
      /\ responses' \subseteq responses \cup {Nak(chunk.seq)}
  BY DEF Inv, TypeOK
<1>2. TypeOK'
  BY <1>1, ClientFrame DEF TypeOK, RPcs
<1>3. ChannelSound' /\ ClientInStep' /\ WrittenIsPrefix'
  BY DEF Inv, ChannelSound, ClientInStep, WrittenIsPrefix, serverVars
<1>4. AcksSound'
  BY <1>1 DEF Inv, AcksSound, Buffered, serverVars
<1>5. DiskInStep'
  BY <1>1 DEF Inv, DiskInStep
<1>. QED
  BY <1>2, <1>3, <1>4, <1>5, ClientFrame DEF Inv

LEMMA AppendChunkInv == Inv /\ AppendChunk => Inv'
<1>. SUFFICES ASSUME Inv, AppendChunk PROVE Inv'
  OBVIOUS
<1>. USE FileFacts, PacketFacts
<1>1. /\ TypeOK /\ chunk \in Packets /\ chunk.seq \in Seqs
      /\ chunk.seq = Len(written) /\ expected = chunk.seq + 1 /\ rPc = "append"
      /\ written \in Seq(Payloads) /\ chunk.data \in Payloads
      /\ UNCHANGED <<serverVars, packets, responses, expected, buffer,
                     finalPending, chunk, destination, cAbort>>
  BY DEF Inv, TypeOK, ClientInStep, AppendChunk
<1>2. /\ written' \in Seq(Payloads) /\ Len(written') = Len(written) + 1
      /\ \A i \in 1 .. Len(written) : written'[i] = written[i]
      /\ written'[Len(written) + 1] = chunk.data
  BY <1>1, AppendProperties DEF AppendChunk
<1>3. /\ rPc' \in {"commit", "receive"}
      /\ rPc' = "commit" <=> chunk.seq = N - 1
  BY <1>1 DEF AppendChunk
<1>4. TypeOK'
  BY <1>1, <1>2, <1>3, ClientFrame DEF TypeOK, RPcs
<1>5. WrittenIsPrefix'
  <2>1. Len(written) \in Nat /\ Len(written') = Len(written) + 1 /\ Len(written) < N
    BY <1>1, <1>2 DEF Seqs
  <2>2. chunk.data = File[Len(written) + 1]
    BY <1>1
  <2>3. \A i \in 1 .. Len(written) : written[i] = File[i]
    BY DEF Inv, WrittenIsPrefix
  <2>4. \A i \in 1 .. Len(written') : i \in 1 .. Len(written) \/ i = Len(written) + 1
    BY <2>1
  <2>. QED
    BY <1>2, <2>1, <2>2, <2>3, <2>4 DEF WrittenIsPrefix
<1>6. ClientInStep'
  BY <1>1, <1>2, <1>3 DEF ClientInStep, Seqs
<1>7. ChannelSound'
  BY <1>1 DEF Inv, ChannelSound, serverVars
<1>8. AcksSound'
  BY <1>1, <1>3 DEF Inv, AcksSound, Buffered, serverVars
<1>9. DiskInStep'
  BY <1>1, <1>3 DEF Inv, DiskInStep
<1>. QED
  BY <1>1, <1>4, <1>5, <1>6, <1>7, <1>8, <1>9, ClientFrame DEF Inv

LEMMA CommitInv == Inv /\ Commit => Inv'
<1>. SUFFICES ASSUME Inv, Commit PROVE Inv'
  OBVIOUS
<1>1. /\ rPc = "commit" /\ rPc' = "confirm" /\ destination' = written
      /\ UNCHANGED <<serverVars, packets, responses, expected, buffer,
                     finalPending, chunk, written, cAbort>>
  BY DEF Commit
<1>2. destination' = File
  BY <1>1, CompletePrefix DEF Inv, ClientInStep
<1>3. TypeOK'
  BY <1>1, ClientFrame DEF Inv, TypeOK, RPcs
<1>4. ChannelSound' /\ ClientInStep' /\ WrittenIsPrefix'
  BY <1>1 DEF Inv, ChannelSound, ClientInStep, WrittenIsPrefix, serverVars
<1>5. AcksSound'
  BY <1>1 DEF Inv, AcksSound, Buffered, serverVars
<1>6. DiskInStep'
  BY <1>1, <1>2 DEF Inv, DiskInStep
<1>. QED
  BY <1>1, <1>3, <1>4, <1>5, <1>6, ClientFrame DEF Inv

LEMMA ConfirmReceiveInv == Inv /\ ConfirmReceive => Inv'
<1>. SUFFICES ASSUME Inv, ConfirmReceive PROVE Inv'
  OBVIOUS
<1>. USE FileFacts, PacketFacts, ResponseFacts
<1>1. /\ TypeOK /\ rPc = "confirm" /\ rPc' = "success"
      /\ chunk.seq = N - 1 /\ chunk.seq \in Seqs /\ expected = N
      /\ UNCHANGED <<serverVars, packets, expected, buffer, chunk, written,
                     destination, cAbort>>
  BY DEF Inv, TypeOK, ClientInStep, ConfirmReceive
<1>2. /\ responses' \subseteq responses \cup {Ack(chunk.seq)}
      /\ finalPending' \in {finalPending, None}
  BY DEF ConfirmReceive
<1>3. TypeOK'
  BY <1>1, <1>2, ClientFrame DEF TypeOK, RPcs
<1>4. ChannelSound' /\ ClientInStep' /\ WrittenIsPrefix'
  BY <1>1 DEF Inv, ChannelSound, ClientInStep, WrittenIsPrefix, serverVars
<1>5. AcksSound'
  BY <1>1 DEF AcksSound, Seqs
<1>6. DiskInStep'
  BY <1>1, <1>2 DEF Inv, DiskInStep
<1>. QED
  BY <1>1, <1>3, <1>4, <1>5, <1>6, ClientFrame DEF Inv

LEMMA ClientNextInv == Inv /\ (ClientNext \/ RequestClientAbort) => Inv'
<1>. SUFFICES ASSUME Inv, ClientNext \/ RequestClientAbort PROVE Inv'
  OBVIOUS
<1>1. CASE Receive
  BY <1>1, ReceiveBufferedInv, ReceiveOldInv, ReceiveNewInv DEF Receive
<1>2. CASE ReceiveFails \/ ReceiveAborted
  BY <1>2, FailureInv DEF ReceiveFails, ReceiveAborted, InReceiveLoop
<1>3. CASE AppendChunk
  BY <1>3, AppendChunkInv
<1>4. CASE AppendFails \/ CommitFails
  BY <1>4, FailureInv DEF AppendFails, CommitFails, Reject
<1>5. CASE Commit
  BY <1>5, CommitInv
<1>6. CASE ConfirmReceive
  BY <1>6, ConfirmReceiveInv
<1>7. CASE ConfirmFails
  BY <1>7, FailureInv DEF ConfirmFails
<1>8. CASE RequestClientAbort
  <2>1. /\ cAbort' \in BOOLEAN
        /\ UNCHANGED <<serverVars, packets, responses, rPc, expected, buffer,
                       finalPending, chunk, written, destination>>
    BY <1>8 DEF RequestClientAbort
  <2>2. TypeOK'
    BY <2>1, ClientFrame DEF Inv, TypeOK
  <2>3. ChannelSound' /\ AcksSound'
    BY <2>1 DEF Inv, ChannelSound, AcksSound, Buffered, serverVars
  <2>4. ClientInStep' /\ WrittenIsPrefix' /\ DiskInStep'
    BY <2>1 DEF Inv, ClientInStep, WrittenIsPrefix, DiskInStep
  <2>. QED
    BY <2>1, <2>2, <2>3, <2>4, ClientFrame DEF Inv
<1>. QED
  BY <1>1, <1>2, <1>3, <1>4, <1>5, <1>6, <1>7, <1>8 DEF ClientNext, Store

\* A lost datagram takes nothing away that the invariant needs.
LEMMA NetworkNextInv == Inv /\ NetworkNext => Inv'
<1>. SUFFICES ASSUME Inv, NetworkNext PROVE Inv'
  OBVIOUS
<1>1. /\ packets' \subseteq packets /\ responses' \subseteq responses
      /\ UNCHANGED serverVars /\ UNCHANGED clientVars
  BY DEF NetworkNext, LosePacket, LoseResponse
<1>2. TypeOK'
  BY <1>1, ClientFrame DEF Inv, TypeOK, clientVars
<1>3. ChannelSound' /\ AcksSound'
  BY <1>1 DEF Inv, ChannelSound, AcksSound, Buffered, serverVars, clientVars
<1>4. ClientInStep' /\ WrittenIsPrefix' /\ DiskInStep'
  BY <1>1 DEF Inv, ClientInStep, WrittenIsPrefix, DiskInStep, clientVars
<1>. QED
  BY <1>1, <1>2, <1>3, <1>4, ClientFrame DEF Inv

LEMMA NextInv == Inv /\ [Next]_vars => Inv'
<1>. SUFFICES ASSUME Inv, [Next]_vars PROVE Inv'
  OBVIOUS
<1>1. CASE Next
  <2>1. CASE Ended
    <3>1. UNCHANGED <<serverVars, clientVars>> /\ UNCHANGED <<packets, responses>>
      BY <2>1 DEF Ended, vars
    <3>. QED
      BY <3>1, ServerControlInv DEF Inv, TypeOK, SuccessIsFlushed, serverVars
  <2>. QED
    BY <1>1, <2>1, ServerNextInv, ClientNextInv, NetworkNextInv DEF Next
<1>2. CASE UNCHANGED vars
  <2>1. UNCHANGED <<serverVars, clientVars>> /\ UNCHANGED <<packets, responses>>
    BY <1>2 DEF vars
  <2>. QED
    BY <2>1, ServerControlInv DEF Inv, TypeOK, SuccessIsFlushed, serverVars
<1>. QED
  BY <1>1, <1>2

\* The inductive invariant holds throughout: it ties every acknowledgement the
\* server's RdtSender acted on to what the client received, wrote and saved.
THEOREM Invariance == Spec => []Inv
<1>. QED
  BY InitInv, NextInv, PTL DEF Spec

-----------------------------------------------------------------------------
(* What follows from it *)

\* The variables keep their types and no packet is sent again more than
\* MaxRetries times.
THEOREM TypeCorrect == Spec => []TypeOK
<1>1. Inv => TypeOK
  BY DEF Inv
<1>. QED
  BY <1>1, Invariance, PTL

\* Once the server's worker has returned success the client has saved the file.
LEMMA FlushedIsSaved ==
  ASSUME Inv, base = N
  PROVE  destination = File /\ rPc = "success"
<1>1. N - 1 \in Seqs /\ N - 1 \in acked
  BY FileFacts DEF Inv, SenderWindow, Seqs
<1>. QED
  BY <1>1 DEF Inv, AcksSound, DiskInStep

\* 226 is sent only for a download the client has saved, whatever the network
\* and the aborts do (finishTransfer, confirmReceive).
THEOREM CompleteReply == Spec => []CompleteReplyMeansSaved
<1>1. Inv => CompleteReplyMeansSaved
  BY FlushedIsSaved DEF Inv, SuccessIsFlushed, CompleteReplyMeansSaved
<1>. QED
  BY <1>1, Invariance, PTL

\* The ACK of the final datagram and every NAK agree with the client's disk.
THEOREM HonestResponses == Spec => []ResponsesMatchDisk
<1>1. Inv => ResponsesMatchDisk
  BY FileFacts DEF Inv, AcksSound, DiskInStep, ResponsesMatchDisk, Seqs
<1>. QED
  BY <1>1, Invariance, PTL

\* The temporary file is always a prefix of the served file.
THEOREM PrefixWritten == Spec => []WrittenIsPrefix
<1>1. Inv => WrittenIsPrefix
  BY DEF Inv
<1>. QED
  BY <1>1, Invariance, PTL

\* The sender forgets a packet only when the receiver has it.
THEOREM NothingForgotten == Spec => []AckedIsReceived
<1>1. Inv => AckedIsReceived
  BY DEF Inv, TypeOK, AcksSound, AckedIsReceived
<1>. QED
  BY <1>1, Invariance, PTL

\* The receive window is never overrun, however large cwnd has grown.
THEOREM NoOverrun == Spec => []WindowNeverOverrun
<1>1. ASSUME Inv, InReceiveLoop, NEW p \in packets
      PROVE  p.seq < expected + ReceiveWindow
  <2>1. /\ base \in 0 .. N /\ next \in 0 .. N /\ expected \in 0 .. N
        /\ p.seq \in Seqs /\ p.seq < next /\ next - base <= ReceiveWindow
    BY <1>1, PacketFacts DEF Inv, TypeOK, SenderWindow, ChannelSound
  <2>2. base <= expected
    <3>1. SUFFICES ASSUME expected < base PROVE FALSE
      BY <2>1, FileFacts
    <3>2. expected \in acked /\ expected \in Seqs
      BY <1>1, <2>1, <3>1, FileFacts DEF Inv, SenderWindow, Seqs
    <3>. QED
      BY <1>1, <2>1, <3>2, FileFacts DEF Inv, AcksSound, InReceiveLoop
  <2>. QED
    BY <2>1, <2>2, FileFacts, WindowAssumption DEF Seqs
<1>2. Inv => WindowNeverOverrun
  BY <1>1 DEF WindowNeverOverrun
<1>. QED
  BY <1>2, Invariance, PTL

\* Only Commit changes the destination, and it installs the whole file.
THEOREM ReplacedWhole == Spec => DestinationReplacedWhole
<1>1. ASSUME Inv, [Next]_vars
      PROVE  [destination' # destination
                => destination = OldFile /\ destination' = File]_vars
  <2>1. CASE Commit
    BY <1>1, <2>1, CompletePrefix DEF Inv, ClientInStep, DiskInStep, Commit
  <2>2. CASE ~ Commit
    <3>1. destination' = destination
      BY <1>1, <2>2
         DEF Next, vars, serverVars, clientVars, ServerNext, SendChunk, PollAgain,
             SendComplete, ReceiveAck, ReceiveNak, NoTimeout, Timeout, Retransmit,
             GiveUp, SendError, RetransmitError, SenderAborts, FinishTransfer, ClientNext, Receive,
             ReceiveBuffered, ReceiveOld, ReceiveNew, ReceiveFails, ReceiveAborted,
             Store, AppendChunk, AppendFails, CommitFails, ConfirmReceive,
             ConfirmFails, NetworkNext, LosePacket, LoseResponse,
             RequestServerAbort, RequestClientAbort, Ended
    <3>. QED
      BY <3>1
  <2>. QED
    BY <2>1, <2>2
<1>. QED
  BY <1>1, Invariance, PTL DEF Spec, DestinationReplacedWhole

-----------------------------------------------------------------------------
(* The contract of RETR *)

ContractStep == [Contract!Next]_(Contract!vars)

\* A step that changes neither the destination, the reply nor where the client
\* is as far as the contract can see.
LEMMA Invisible ==
  ASSUME UNCHANGED <<destination, reply>>,
         \/ rPc' = rPc
         \/ /\ rPc \notin {"success", "failure"}
            /\ rPc' \notin {"success", "failure"}
  PROVE  ContractStep
  BY DEF ContractStep, Contract!vars, clientState

LEMMA ServerContract == Inv /\ (ServerNext \/ RequestServerAbort) => ContractStep
<1>. SUFFICES ASSUME Inv, ServerNext \/ RequestServerAbort PROVE ContractStep
  OBVIOUS
<1>1. CASE FinishTransfer
  <2>1. reply = "none" /\ UNCHANGED <<destination, rPc>>
    BY <1>1 DEF Inv, SuccessIsFlushed, FinishTransfer, clientVars
  <2>2. CASE reply' = "226"
    <3>1. rPc = "success"
      BY <1>1, <2>2, FlushedIsSaved DEF Inv, SuccessIsFlushed, FinishTransfer
    <3>2. Contract!ReplyComplete
      BY <2>1, <2>2, <3>1 DEF Contract!ReplyComplete, clientState
    <3>. QED
      BY <3>2 DEF ContractStep, Contract!Next, Contract!ServerEnds
  <2>3. CASE reply' \in {"426", "suppressed"}
    <3>1. Contract!ReplyFailed
      BY <2>1, <2>3 DEF Contract!ReplyFailed, clientState
    <3>. QED
      BY <3>1 DEF ContractStep, Contract!Next, Contract!ServerEnds
  <2>. QED
    BY <1>1, <2>2, <2>3 DEF FinishTransfer
<1>2. CASE ~ FinishTransfer
  <2>1. UNCHANGED <<destination, reply, rPc>>
    BY <1>2 DEF ServerNext, clientVars, SendChunk, PollAgain, SendComplete,
         ReceiveAck, ReceiveNak, NoTimeout, Timeout, Retransmit, GiveUp,
         SendError, RetransmitError, SenderAborts, RequestServerAbort
  <2>. QED
    BY <2>1, Invisible
<1>. QED
  BY <1>1, <1>2

LEMMA ClientContract == Inv /\ (ClientNext \/ RequestClientAbort) => ContractStep
<1>. SUFFICES ASSUME Inv, ClientNext \/ RequestClientAbort PROVE ContractStep
  OBVIOUS
<1>1. CASE Commit
  <2>1. Contract!CommitFile
    BY <1>1, CompletePrefix
       DEF Contract!CommitFile, clientState, Commit, Inv, DiskInStep,
           ClientInStep, serverVars
  <2>. QED
    BY <2>1 DEF ContractStep, Contract!Next
<1>2. CASE ConfirmReceive
  <2>1. Contract!ClientSaved
    BY <1>2 DEF Contract!ClientSaved, clientState, ConfirmReceive, Inv,
         DiskInStep, serverVars
  <2>. QED
    BY <2>1 DEF ContractStep, Contract!Next, Contract!ClientEnds
<1>3. CASE ReceiveFails \/ ReceiveAborted \/ AppendFails \/ CommitFails \/ ConfirmFails
  <2>1. /\ rPc \notin {"success", "failure"} /\ rPc' = "failure"
        /\ UNCHANGED <<destination, reply>>
    BY <1>3 DEF ReceiveFails, InReceiveLoop, ReceiveAborted, AppendFails,
         CommitFails, ConfirmFails, Reject, serverVars
  <2>2. Contract!ClientFailed
    BY <2>1 DEF Contract!ClientFailed, clientState
  <2>. QED
    BY <2>2 DEF ContractStep, Contract!Next, Contract!ClientEnds
<1>4. CASE Receive \/ AppendChunk \/ RequestClientAbort
  <2>1. /\ UNCHANGED <<destination, reply>>
        /\ \/ rPc' = rPc
           \/ /\ rPc \notin {"success", "failure"}
              /\ rPc' \notin {"success", "failure"}
    BY <1>4 DEF Receive, ReceiveBuffered, ReceiveOld, ReceiveNew, InReceiveLoop,
         Deliver, AppendChunk, RequestClientAbort, serverVars, clientVars
  <2>. QED
    BY <2>1, Invisible
<1>. QED
  BY <1>1, <1>2, <1>3, <1>4 DEF ClientNext, Store

\* Every RETR keeps the contract: its steps map to steps of DownloadContract or
\* to stuttering.
THEOREM KeepsContract == Spec => ContractSafety
<1>1. Init => Contract!Init
  BY DEF Init, Contract!Init, clientState
<1>2. Inv /\ [Next]_vars => ContractStep
  <2>. SUFFICES ASSUME Inv, [Next]_vars PROVE ContractStep
    OBVIOUS
  <2>1. CASE NetworkNext \/ Ended \/ UNCHANGED vars
    <3>1. UNCHANGED <<destination, reply, rPc>>
      BY <2>1 DEF NetworkNext, LosePacket, LoseResponse, Ended, vars,
           serverVars, clientVars
    <3>. QED
      BY <3>1, Invisible
  <2>. QED
    BY <2>1, ServerContract, ClientContract DEF Next
<1>. QED
  BY <1>1, <1>2, Invariance, PTL DEF Spec, ContractSafety, ContractStep

=============================================================================
