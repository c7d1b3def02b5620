------------------------- MODULE StorTransferProofs -------------------------
(***************************************************************************)
(* The invariants of StorTransfer, for a file of any length, any receive   *)
(* window and any number of attempts.                                      *)
(***************************************************************************)
EXTENDS StorTransfer, SequenceTheorems, TLAPS

\* The uploaded file has N > 0 chunks.
LEMMA FileFacts ==
  /\ N \in Nat \ {0}
  /\ File \in Seq(Payloads)
  /\ \A s \in Seqs : File[s + 1] \in Payloads
<1>1. File \in Seq(Payloads)
  BY UploadFileAssumption DEF Payloads
<1>2. Len(File) \in Nat /\ DOMAIN File = 1 .. Len(File)
  BY <1>1
<1>3. Len(File) # 0
  BY <1>1, UploadFileAssumption, EmptySeq
<1>. QED
  BY <1>1, <1>2, <1>3 DEF N, Seqs, Payloads

\* A DATA datagram is determined by its sequence number.
LEMMA PacketFacts ==
  /\ \A s \in Seqs : Packet(s) \in Packets /\ Packet(s).seq = s
  /\ \A p \in Packets : /\ p.seq \in Seqs
                        /\ p.fin <=> p.seq = N - 1
                        /\ p.data = File[p.seq + 1]
                        /\ p.data \in Payloads
<1>1. ASSUME NEW s \in Seqs
      PROVE  /\ Packet(s) \in Packets
             /\ Packet(s).seq = s
             /\ Packet(s).data = File[s + 1]
             /\ Packet(s).fin = (s = N - 1)
  BY DEF Packet, Packets
<1>2. ASSUME NEW p \in Packets
      PROVE  /\ p.seq \in Seqs
             /\ p.fin <=> p.seq = N - 1
             /\ p.data = File[p.seq + 1]
             /\ p.data \in Payloads
  <2>1. PICK s \in Seqs : p = Packet(s)
    BY DEF Packets
  <2>2. p.seq = s /\ p.data = File[s + 1] /\ p.fin = (s = N - 1)
    BY <1>1, <2>1
  <2>. QED
    BY <2>2, FileFacts
<1>. QED
  BY <1>1, <1>2

\* A temporary file with all the chunks is the uploaded file.
LEMMA CompleteTemporary ==
  ASSUME Inv, sPc = "commit"
  PROVE  temporary = File
<1>1. /\ temporary \in Seq(Payloads) /\ File \in Seq(Payloads)
      /\ Len(temporary) = Len(File)
      /\ \A i \in 1 .. Len(temporary) : temporary[i] = File[i]
  BY FileFacts DEF Inv, ReceiverInStep, N
<1>. QED
  BY <1>1, SeqEqual

-----------------------------------------------------------------------------
(* The inductive invariant *)

LEMMA InitInv == Init => Inv
<1>. SUFFICES ASSUME Init PROVE Inv
  OBVIOUS
<1>. USE FileFacts DEF Init
<1>1. temporary \in Seq(Payloads) /\ Len(temporary) = 0
  BY EmptySeq
<1>2. TypeOK
  <2>1. cAbort \in BOOLEAN /\ sAbort \in BOOLEAN /\ success \in BOOLEAN
    BY Zenon
  <2>2. seq \in Seqs /\ attempt \in 0 .. MaxRetries /\ expected \in 0 .. N
    BY AttemptsAssumption DEF Seqs
  <2>3. chunk \in Packets
    BY PacketFacts DEF Seqs
  <2>4. staging \in {Absent} \cup Seq(Payloads)
    BY EmptySeq
  <2>5. /\ kind \in {"Store", "Unique", "Append"}
        /\ before \in {Absent, OldFile, <<>>}
    OBVIOUS
  <2>. QED
    BY <1>1, <2>1, <2>2, <2>3, <2>4, <2>5 DEF TypeOK
<1>3. ChannelInStep
  BY DEF ChannelInStep, LockStep
<1>4. ReceiverInStep
  BY <1>1 DEF ReceiverInStep
<1>5. FilesInStep /\ ReplyInStep
  BY DEF FilesInStep, ReplyInStep, Unreceived
<1>. QED
  BY <1>2, <1>3, <1>4, <1>5 DEF Inv

\* The worker's facts survive a step that leaves the server alone.
LEMMA ServerUntouched ==
  ASSUME Inv, UNCHANGED serverVars
  PROVE  ReceiverInStep' /\ FilesInStep' /\ ReplyInStep'
  BY DEF Inv, ReceiverInStep, FilesInStep, ReplyInStep, serverVars, fileVars,
         Result, Content, Unreceived

LEMMA ClientStep ==
  ASSUME Inv, UNCHANGED serverVars,
         cPc' \in {"send", "wait", "success", "failure"},
         seq' \in Seqs, attempt' \in 0 .. MaxRetries, cAbort' \in BOOLEAN,
         packets' \subseteq Packets, acks' \subseteq Seqs, ChannelInStep'
  PROVE  Inv'
<1>1. TypeOK'
  BY DEF Inv, TypeOK, serverVars, fileVars, Result, Content
<1>. QED
  BY <1>1, ServerUntouched DEF Inv

LEMMA ClientNextInv == Inv /\ (ClientNext \/ RequestClientAbort \/ NetworkNext) => Inv'
<1>. SUFFICES ASSUME Inv, ClientNext \/ RequestClientAbort \/ NetworkNext
              PROVE  Inv'
  OBVIOUS
<1>. USE FileFacts, PacketFacts, AttemptsAssumption
<1>0. /\ cPc \in {"send", "wait", "success", "failure"}
      /\ seq \in Seqs /\ attempt \in 0 .. MaxRetries /\ cAbort \in BOOLEAN
      /\ packets \subseteq Packets /\ acks \subseteq Seqs
      /\ expected \in 0 .. N /\ ChannelInStep
  BY DEF Inv, TypeOK
<1>1. CASE SendAttempt
  <2>1. /\ cPc' = "wait" /\ attempt' \in 0 .. MaxRetries
        /\ packets' = packets \cup {Packet(seq)}
        /\ UNCHANGED <<seq, cAbort, acks, serverVars>>
    BY <1>0, <1>1 DEF SendAttempt
  <2>2. \A p \in packets' : p \in Packets /\ p.seq <= seq'
    BY <1>0, <2>1 DEF ChannelInStep, Seqs
  <2>3. ChannelInStep'
    BY <1>0, <2>1, <2>2 DEF ChannelInStep, LockStep, serverVars
  <2>. QED
    BY <1>0, <2>1, <2>2, <2>3, ClientStep
<1>2. CASE SendAttemptFails \/ AckTimeout \/ AttemptsExhausted \/ SenderAborts
  <2>1. /\ cPc' \in {"send", "failure"} /\ attempt' \in 0 .. MaxRetries
        /\ UNCHANGED <<seq, cAbort, packets, acks, serverVars>>
    BY <1>0, <1>2 DEF SendAttemptFails, AckTimeout, AttemptsExhausted,
                      SenderAborts, netVars
  <2>2. ChannelInStep'
    BY <1>0, <2>1 DEF ChannelInStep, LockStep, serverVars
  <2>. QED
    BY <1>0, <2>1, <2>2, ClientStep
<1>3. CASE \E s \in acks : ReceiveAck(s)
  <2>1. /\ seq \in acks /\ UNCHANGED <<cAbort, packets, acks, serverVars>>
        /\ \/ seq = N - 1 /\ cPc' = "success" /\ UNCHANGED <<seq, attempt>>
           \/ seq # N - 1 /\ cPc' = "send" /\ seq' = seq + 1 /\ attempt' = 0
    BY <1>3 DEF ReceiveAck, netVars
  <2>2. expected = seq + 1
    BY <1>0, <2>1 DEF ChannelInStep, LockStep, Seqs
  <2>3. seq' \in Seqs /\ attempt' \in 0 .. MaxRetries
    BY <1>0, <2>1 DEF Seqs
  <2>4. ChannelInStep'
    <3>1. LockStep'
      <4>1. expected' = seq + 1 /\ buffer' = {}
        BY <1>0, <2>1, <2>2 DEF ChannelInStep, LockStep, serverVars
      <4>2. expected' \in {seq', seq' + 1}
        BY <1>0, <2>1, <4>1
      <4>3. cPc' = "success" => expected' = N
        BY <2>1, <4>1
      <4>. QED
        BY <4>1, <4>2, <4>3 DEF LockStep
    <3>2. ASSUME NEW p \in packets' PROVE p.seq <= seq'
      <4>1. p \in packets /\ p \in Packets
        BY <1>0, <2>1
      <4>2. p.seq \in Seqs /\ p.seq <= seq
        BY <1>0, <4>1 DEF ChannelInStep
      <4>3. seq' = seq \/ seq' = seq + 1
        BY <2>1
      <4>. QED
        BY <1>0, <4>2, <4>3 DEF Seqs
    <3>. QED
      BY <1>0, <2>1, <3>1, <3>2 DEF ChannelInStep, serverVars
  <2>. QED
    BY <1>0, <2>1, <2>3, <2>4, ClientStep
<1>4. CASE RequestClientAbort
  <2>1. cAbort' \in BOOLEAN /\ UNCHANGED <<cPc, seq, attempt, packets, acks, serverVars>>
    BY <1>4 DEF RequestClientAbort, netVars
  <2>2. ChannelInStep'
    BY <1>0, <2>1 DEF ChannelInStep, LockStep, serverVars
  <2>. QED
    BY <1>0, <2>1, <2>2, ClientStep
<1>5. CASE NetworkNext
  <2>1. /\ packets' \subseteq packets /\ acks' \subseteq acks
        /\ UNCHANGED <<clientVars, serverVars>>
    BY <1>5 DEF NetworkNext, LosePacket, LoseAck
  <2>2. ChannelInStep'
    BY <1>0, <2>1 DEF ChannelInStep, LockStep, clientVars, serverVars
  <2>. QED
    BY <1>0, <2>1, <2>2, ClientStep DEF clientVars
<1>. QED
  BY <1>1, <1>2, <1>3, <1>4, <1>5 DEF ClientNext

LEMMA ReceiveInv == Inv /\ Receive => Inv'
<1>. SUFFICES ASSUME Inv, Receive PROVE Inv'
  OBVIOUS
<1>. USE FileFacts, PacketFacts
<1>0. /\ TypeOK /\ ChannelInStep /\ ReceiverInStep /\ seq \in Seqs
      /\ expected \in 0 .. N
  BY DEF Inv, TypeOK
<1>1. CASE \E p \in packets : ReceiveOld(p)
  <2>1. PICK q \in packets : ReceiveOld(q)
    BY <1>1
  <2>2. /\ q.seq \in Seqs /\ q.seq < expected
        /\ acks' = acks \cup {q.seq} /\ UNCHANGED <<clientVars, packets, serverVars>>
    BY <1>0, <2>1 DEF ReceiveOld, TypeOK
  <2>3. ChannelInStep'
    BY <1>0, <2>2 DEF ChannelInStep, LockStep, clientVars, serverVars
  <2>. QED
    BY <1>0, <2>2, <2>3, ClientStep DEF TypeOK, clientVars
<1>2. CASE \E p \in packets : ReceiveNew(p)
  <2>1. PICK q \in packets : ReceiveNew(q)
    BY <1>2
  <2>2. /\ q \in Packets /\ q.seq \in Seqs /\ q.seq <= seq /\ q.seq >= expected
        /\ sPc = "receive"
    BY <1>0, <2>1 DEF ReceiveNew, InReceiveLoop, TypeOK, ChannelInStep
  <2>3. q.seq = expected /\ expected = seq
    BY <1>0, <2>2 DEF ChannelInStep, LockStep, Seqs
  <2>4. /\ acks' = acks \cup {q.seq} /\ chunk' = q /\ expected' = expected + 1
        /\ sPc' = "append"
        /\ UNCHANGED <<clientVars, packets, buffer, kind, before, fileVars,
                       success, sAbort, reply>>
    BY <2>1, <2>3 DEF ReceiveNew, Deliver
  <2>5. TypeOK'
    <3>1. acks' \subseteq Seqs /\ chunk' \in Packets
      BY <1>0, <2>2, <2>4 DEF TypeOK
    <3>2. expected' \in 0 .. N
      BY <1>0, <2>3, <2>4 DEF Seqs
    <3>. QED
      BY <1>0, <2>4, <3>1, <3>2 DEF TypeOK, clientVars, fileVars, Result, Content
  <2>6. ChannelInStep'
    <3>1. cPc # "success"
      BY <1>0, <2>2, <2>3 DEF ChannelInStep, LockStep, Seqs
    <3>2. LockStep'
      BY <1>0, <2>3, <2>4, <3>1 DEF ChannelInStep, LockStep, clientVars
    <3>3. ASSUME NEW s \in acks' PROVE s < expected'
      <4>1. CASE s = q.seq
        BY <1>0, <2>3, <2>4, <4>1
      <4>2. CASE s \in acks
        <5>1. s \in Seqs /\ s < expected
          BY <1>0, <4>2 DEF ChannelInStep, TypeOK
        <5>. QED
          BY <1>0, <2>4, <5>1 DEF Seqs
      <4>. QED
        BY <2>4, <4>1, <4>2
    <3>. QED
      BY <1>0, <2>4, <3>2, <3>3 DEF ChannelInStep, clientVars
  <2>7. ReceiverInStep'
    BY <1>0, <2>2, <2>3, <2>4 DEF ReceiverInStep, fileVars
  <2>8. FilesInStep' /\ ReplyInStep'
    BY <2>2, <2>4 DEF Inv, FilesInStep, ReplyInStep, fileVars, Result, Content
  <2>. QED
    BY <2>5, <2>6, <2>7, <2>8 DEF Inv
<1>. QED
  BY <1>1, <1>2 DEF Receive

\* The channel's facts survive a step of the worker that does not receive.
LEMMA ChannelUntouched ==
  ASSUME Inv, UNCHANGED <<clientVars, netVars, expected, buffer>>
  PROVE  ChannelInStep'
  BY DEF Inv, ChannelInStep, LockStep, clientVars, netVars

\* What stays are files that were to be removed.
LEMMA StayingFacts ==
  ASSUME NEW files, NEW stay \in Staying(files)
  PROVE  stay \subseteq files
  BY DEF Staying

LEMMA GiveUpInv ==
  ASSUME Inv, sPc \in {"receive", "append", "commit"}, GiveUpReceiving
  PROVE  Inv'
<1>1. /\ sPc' = "cleanup"
      /\ UNCHANGED <<clientVars, netVars, expected, buffer>>
      /\ UNCHANGED <<kind, before, chunk, staging, destination, success, sAbort, reply>>
  BY DEF GiveUpReceiving
<1>2. PICK stay \in Staying({"temporary"}) :
        /\ left' = left \cup stay
        /\ temporary' = IF "temporary" \in stay THEN temporary ELSE Absent
  BY DEF GiveUpReceiving
<1>3. /\ left = {} /\ left' \subseteq {"temporary"}
      /\ temporary' = Absent \/ (temporary' = temporary /\ "temporary" \in left')
  BY <1>2, StayingFacts DEF Inv, FilesInStep
<1>4. TypeOK'
  <2>1. temporary' \in {Absent} \cup Seq(Payloads)
    BY <1>3 DEF Inv, TypeOK
  <2>2. left' \subseteq {"temporary", "combined", "staging", "destination"}
    BY <1>3
  <2>. QED
    BY <1>1, <2>1, <2>2 DEF Inv, TypeOK, clientVars, netVars, Result, Content
<1>5. ReceiverInStep' /\ ReplyInStep'
  BY <1>1 DEF Inv, ReceiverInStep, ReplyInStep
<1>6. FilesInStep'
  BY <1>1, <1>3 DEF Inv, FilesInStep
<1>. QED
  BY <1>1, <1>4, <1>5, <1>6, ChannelUntouched DEF Inv

LEMMA AppendChunkInv == Inv /\ AppendChunk => Inv'
<1>. SUFFICES ASSUME Inv, AppendChunk PROVE Inv'
  OBVIOUS
<1>. USE FileFacts, PacketFacts
<1>1. /\ chunk \in Packets /\ chunk.seq \in Seqs /\ chunk.data \in Payloads
      /\ chunk.seq = Len(temporary) /\ expected = chunk.seq + 1
      /\ temporary \in Seq(Payloads) /\ sPc = "append"
      /\ \A i \in 1 .. Len(temporary) : temporary[i] = File[i]
  BY DEF Inv, TypeOK, ReceiverInStep, AppendChunk
<1>2. /\ temporary' \in Seq(Payloads) /\ Len(temporary') = Len(temporary) + 1
      /\ \A i \in 1 .. Len(temporary) : temporary'[i] = temporary[i]
      /\ temporary'[Len(temporary) + 1] = chunk.data
  BY <1>1, AppendProperties DEF AppendChunk
<1>3. /\ sPc' \in {"commit", "receive"}
      /\ sPc' = "commit" <=> chunk.seq = N - 1
      /\ UNCHANGED <<clientVars, netVars, expected, buffer>>
      /\ UNCHANGED <<kind, before, chunk, staging, destination, left, success, sAbort,
                     reply>>
  BY <1>1 DEF AppendChunk
<1>4. TypeOK'
  BY <1>2, <1>3 DEF Inv, TypeOK, clientVars, netVars, Result, Content
<1>5. ReceiverInStep'
  <2>1. chunk.data = File[Len(temporary) + 1]
    BY <1>1
  <2>2. \A i \in 1 .. Len(temporary') : temporary'[i] = File[i]
    <3>1. Len(temporary) \in Nat
      BY <1>1
    <3>2. ASSUME NEW i \in 1 .. Len(temporary') PROVE temporary'[i] = File[i]
      <4>1. i \in 1 .. Len(temporary) \/ i = Len(temporary) + 1
        BY <1>2, <3>1
      <4>. QED
        BY <1>1, <1>2, <2>1, <4>1
    <3>. QED
      BY <3>2
  <2>3. /\ sPc' = "receive" => Len(temporary') = expected' /\ expected' < N
        /\ sPc' = "commit" => Len(temporary') = N
    BY <1>1, <1>2, <1>3 DEF Seqs
  <2>. QED
    BY <1>2, <1>3, <2>2, <2>3 DEF ReceiverInStep
<1>6. FilesInStep' /\ ReplyInStep'
  BY <1>1, <1>3 DEF Inv, FilesInStep, ReplyInStep
<1>. QED
  BY <1>3, <1>4, <1>5, <1>6, ChannelUntouched DEF Inv

LEMMA CommitInv == Inv /\ Commit => Inv'
<1>. SUFFICES ASSUME Inv, Commit PROVE Inv'
  OBVIOUS
<1>1. temporary = File
  BY CompleteTemporary DEF Commit
<1>2. /\ sPc = "commit" /\ sPc' = "received" /\ temporary' = Absent /\ success' = TRUE
      /\ IF kind = "Append" THEN staging' = File /\ destination' = destination
                            ELSE destination' = File /\ staging' = staging
      /\ UNCHANGED <<clientVars, netVars, expected, buffer>>
      /\ UNCHANGED <<kind, before, chunk, left, sAbort, reply>>
  BY <1>1 DEF Commit
<1>3. destination = before /\ left = {} /\ (kind # "Append" => staging = Absent)
  BY <1>2 DEF Inv, FilesInStep
<1>4. TypeOK'
  <2>1. destination' \in {before', Result', Absent}
    BY <1>2, <1>3 DEF Result
  <2>2. staging' \in {Absent} \cup Seq(Payloads) /\ success' \in BOOLEAN
    BY <1>2, FileFacts DEF Inv, TypeOK
  <2>. QED
    BY <1>2, <2>1, <2>2 DEF Inv, TypeOK, clientVars, netVars
<1>5. ReceiverInStep' /\ ReplyInStep'
  BY <1>2 DEF Inv, ReceiverInStep, ReplyInStep
<1>6. FilesInStep'
  BY <1>2, <1>3 DEF FilesInStep
<1>. QED
  BY <1>2, <1>4, <1>5, <1>6, ChannelUntouched DEF Inv

\* The steps after receiveFile: append, clean-up, reply, abort.
LEMMA WorkerEndInv ==
  ASSUME Inv,
         \/ AppendAtomically \/ AppendAtomicallyFails \/ SkipAppend \/ CleanUp
         \/ FinishTransfer \/ RequestServerAbort \/ AborReply
  PROVE  Inv'
<1>0. /\ TypeOK /\ FilesInStep /\ ReplyInStep /\ Result' = Result
      /\ UNCHANGED <<clientVars, netVars, expected, buffer>>
      /\ UNCHANGED <<kind, before, chunk>> /\ temporary' = temporary
  BY DEF Inv, AppendAtomically, AppendAtomicallyFails, SkipAppend, CleanUp,
         FinishTransfer, RequestServerAbort, AborReply, fileVars, Result, Content
<1>1. CASE AppendAtomically
  <2>1. /\ sPc = "received" /\ sPc' = "cleanup" /\ kind = "Append"
        /\ destination' = Result /\ success
        /\ UNCHANGED <<staging, left, success, sAbort, reply>>
    BY <1>0, <1>1 DEF AppendAtomically, FilesInStep, Result
  <2>2. TypeOK'
    BY <1>0, <2>1 DEF TypeOK, clientVars, netVars
  <2>. QED
    BY <1>0, <2>1, <2>2, ChannelUntouched
       DEF Inv, ReceiverInStep, FilesInStep, ReplyInStep
<1>2. CASE AppendAtomicallyFails
  <2>1. /\ sPc = "received" /\ sPc' = "cleanup" /\ kind = "Append"
        /\ success' = FALSE /\ destination = before
        /\ UNCHANGED <<destination, staging, sAbort, reply>>
    BY <1>0, <1>2 DEF AppendAtomicallyFails, FilesInStep
  <2>2. left = {} /\ left' \subseteq {"combined"}
    BY <1>0, <1>2, <2>1, StayingFacts DEF AppendAtomicallyFails, FilesInStep
  <2>3. TypeOK'
    <3>1. success' \in BOOLEAN
      BY <2>1, Zenon
    <3>2. /\ sPc' \in {"receive", "append", "commit", "received", "cleanup", "finish",
                      "finished"}
          /\ destination' \in {before', Result', Absent}
      BY <1>0, <2>1 DEF TypeOK
    <3>. QED
      BY <1>0, <2>1, <2>2, <3>1, <3>2 DEF TypeOK, clientVars, netVars
  <2>. QED
    BY <1>0, <2>1, <2>2, <2>3, ChannelUntouched
       DEF Inv, ReceiverInStep, FilesInStep, ReplyInStep
<1>3. CASE SkipAppend
  <2>1. /\ sPc = "received" /\ sPc' = "cleanup" /\ success
        /\ UNCHANGED <<destination, staging, left, success, sAbort, reply>>
        /\ destination = Result \/ (kind = "Append" /\ sAbort /\ destination = before)
    BY <1>0, <1>3 DEF SkipAppend, FilesInStep, fileVars, Result
  <2>2. TypeOK'
    BY <1>0, <2>1 DEF TypeOK, clientVars, netVars
  <2>. QED
    BY <1>0, <2>1, <2>2, ChannelUntouched
       DEF Inv, ReceiverInStep, FilesInStep, ReplyInStep
<1>4. CASE CleanUp
  <2>1. sPc = "cleanup" /\ sPc' = "finish" /\ UNCHANGED <<success, sAbort, reply>>
    BY <1>4 DEF CleanUp
  <2>2. PICK stay \in Staying(Unwanted) :
          /\ left' = left \cup stay
          /\ staging' = IF "staging" \in Unwanted \ stay THEN Absent ELSE staging
          /\ destination' = IF "destination" \in Unwanted \ stay THEN Absent
                                                                ELSE destination
    BY <1>4 DEF CleanUp
  <2>3. /\ stay \subseteq {"staging", "destination"}
        /\ "staging" \in Unwanted <=> kind = "Append"
        /\ "destination" \in Unwanted <=> kind = "Unique" /\ ~success
        /\ stay \subseteq Unwanted
    BY <2>2, StayingFacts DEF Unwanted
  <2>4. /\ "destination" \notin left /\ (kind # "Append" => staging = Absent)
        /\ "combined" \in left' => "combined" \in left
        /\ "temporary" \in left => "temporary" \in left'
        /\ ~success => destination = before
    BY <1>0, <2>1, <2>2, <2>3 DEF FilesInStep
  <2>5. staging' = Absent \/ (staging' = staging /\ "staging" \in left')
    BY <2>2, <2>3, <2>4
  <2>6. /\ success => destination' = destination
        /\ ~success => destination' = Unreceived'
    BY <1>0, <2>2, <2>3, <2>4 DEF Unreceived
  <2>7. TypeOK'
    <3>1. left' \subseteq {"temporary", "combined", "staging", "destination"}
      BY <1>0, <2>2, <2>3 DEF TypeOK
    <3>2. staging' \in {Absent} \cup Seq(Payloads)
      BY <1>0, <2>5 DEF TypeOK
    <3>3. destination' \in {before', Result', Absent}
      BY <1>0, <2>2 DEF TypeOK
    <3>. QED
      BY <1>0, <2>1, <3>1, <3>2, <3>3 DEF TypeOK, clientVars, netVars
  <2>8. FilesInStep'
    BY <1>0, <2>1, <2>4, <2>5, <2>6 DEF FilesInStep
  <2>. QED
    BY <1>0, <2>1, <2>7, <2>8, ChannelUntouched DEF Inv, ReceiverInStep, ReplyInStep
<1>5. CASE FinishTransfer
  <2>1. /\ sPc = "finish" /\ sPc' = "finished"
        /\ reply' \in {"226", "426", "suppressed"}
        /\ reply' = "226" => ~sAbort /\ success
        /\ reply' = "426" => ~success
        /\ reply' = "suppressed" => sAbort
        /\ UNCHANGED <<destination, staging, left, success, sAbort>>
    BY <1>5 DEF FinishTransfer, fileVars
  <2>2. TypeOK'
    BY <1>0, <2>1 DEF TypeOK, clientVars, netVars
  <2>3. ReplyInStep'
    BY <1>0, <2>1 DEF FilesInStep, ReplyInStep
  <2>. QED
    BY <1>0, <2>1, <2>2, <2>3, ChannelUntouched 
       DEF Inv, ReceiverInStep, FilesInStep, Unreceived
<1>6. CASE RequestServerAbort
  <2>1. /\ sPc # "finished" /\ sAbort' = TRUE
        /\ UNCHANGED <<sPc, destination, staging, left, success, reply>>
    BY <1>6 DEF RequestServerAbort, fileVars
  <2>2. TypeOK'
    BY <1>0, <2>1 DEF TypeOK, clientVars, netVars
  <2>. QED
    BY <1>0, <2>1, <2>2, ChannelUntouched
       DEF Inv, ReceiverInStep, FilesInStep, ReplyInStep, Unreceived
<1>7. CASE AborReply
  <2>1. /\ reply = "suppressed" /\ reply' = "aborted"
        /\ UNCHANGED <<sPc, destination, staging, left, success, sAbort>>
    BY <1>7 DEF AborReply, fileVars
  <2>2. TypeOK'
    BY <1>0, <2>1 DEF TypeOK, clientVars, netVars
  <2>. QED
    BY <1>0, <2>1, <2>2, ChannelUntouched
       DEF Inv, ReceiverInStep, FilesInStep, ReplyInStep, Unreceived
<1>. QED
  BY <1>1, <1>2, <1>3, <1>4, <1>5, <1>6, <1>7

LEMMA NextInv == Inv /\ [Next]_vars => Inv'
<1>. SUFFICES ASSUME Inv, [Next]_vars PROVE Inv'
  OBVIOUS
<1>1. CASE ClientNext \/ RequestClientAbort \/ NetworkNext
  BY <1>1, ClientNextInv
<1>2. CASE Receive
  BY <1>2, ReceiveInv
<1>3. CASE ReceiveFails \/ ReceiveAborted \/ AppendFails \/ CommitFails
  BY <1>3, GiveUpInv
     DEF ReceiveFails, InReceiveLoop, ReceiveAborted, AppendFails, CommitFails
<1>4. CASE AppendChunk
  BY <1>4, AppendChunkInv
<1>5. CASE Commit
  BY <1>5, CommitInv
<1>6. CASE \/ AppendAtomically \/ AppendAtomicallyFails \/ SkipAppend \/ CleanUp
           \/ FinishTransfer \/ RequestServerAbort \/ AborReply
  BY <1>6, WorkerEndInv
<1>7. CASE Ended \/ UNCHANGED vars
  <2>1. UNCHANGED <<clientVars, netVars, serverVars>>
    BY <1>7 DEF Ended, vars
  <2>2. ChannelInStep'
    BY <2>1, ChannelUntouched DEF serverVars
  <2>. QED
    BY <2>1, <2>2, ClientStep DEF Inv, TypeOK, clientVars, netVars
<1>. QED
  BY <1>1, <1>2, <1>3, <1>4, <1>5, <1>6, <1>7 DEF Next, ServerNext, Store

\* The inductive invariant holds throughout.
THEOREM Invariance == Spec => []Inv
<1>. QED
  BY InitInv, NextInv, PTL DEF Spec

-----------------------------------------------------------------------------
(* What follows from it *)

\* The variables keep their types and no chunk is tried more than MaxRetries times.
THEOREM TypeCorrect == Spec => []TypeOK
<1>1. Inv => TypeOK
  BY DEF Inv
<1>. QED
  BY <1>1, Invariance, PTL

\* Stop-and-wait keeps both ends in lock step over any network, so the server's
\* reorder buffer stays empty.
THEOREM InLockStep == Spec => []LockStep
<1>1. Inv => LockStep
  BY DEF Inv, ChannelInStep
<1>. QED
  BY <1>1, Invariance, PTL

\* 226 for an upload means that the destination holds it.
THEOREM CompleteReply == Spec => []CompleteReplyMeansStored
<1>1. Inv => CompleteReplyMeansStored
  BY DEF Inv, ReplyInStep, CompleteReplyMeansStored
<1>. QED
  BY <1>1, Invariance, PTL

\* What a worker leaves when it ends: a temporary, staging, combined or reserved
\* file only where its removal failed, and the upload only with a 226 or with an
\* ABOR that came after it was in place.
THEOREM CleanEnd == Spec => []NothingLeftBehind
<1>1. ASSUME Inv, sPc = "finished"
      PROVE  /\ temporary # Absent => "temporary" \in left
             /\ staging # Absent => "staging" \in left
             /\ "combined" \in left => destination = before
  BY <1>1 DEF Inv, FilesInStep, Unreceived
<1>2. ASSUME Inv, sPc = "finished"
      PROVE  \/ destination = Result /\ (reply = "226" \/ sAbort)
             \/ destination = Unreceived /\ reply # "226"
  <2>1. CASE success
    <3>1. reply \in {"226", "suppressed", "aborted"}
      BY <1>2, <2>1 DEF Inv, TypeOK, ReplyInStep
    <3>2. destination = Result \/ (kind = "Append" /\ sAbort /\ destination = before)
      BY <1>2, <2>1 DEF Inv, FilesInStep
    <3>. QED
      BY <1>2, <3>1, <3>2 DEF Inv, ReplyInStep, Unreceived
  <2>2. CASE ~success
    BY <1>2, <2>2 DEF Inv, FilesInStep, ReplyInStep
  <2>. QED
    BY <2>1, <2>2
<1>3. Inv => NothingLeftBehind
  BY <1>1, <1>2 DEF NothingLeftBehind
<1>. QED
  BY <1>3, Invariance, PTL

\* The destination is replaced as a whole, once, or removed after a failed STOU.
THEOREM ReplacedWhole == Spec => DestinationReplacedWhole
<1>1. ASSUME Inv, [Next]_vars, destination' # destination
      PROVE  /\ destination = before
             /\ destination' = Result \/ (kind = "Unique" /\ destination' = Absent)
  <2>1. CASE Commit
    BY <2>1, <1>1, CompleteTemporary DEF Inv, FilesInStep, Commit, Result
  <2>2. CASE AppendAtomically
    BY <2>2, <1>1 DEF Inv, FilesInStep, AppendAtomically, Result
  <2>3. CASE CleanUp
    <3>1. PICK stay \in Staying(Unwanted) :
            destination' = IF "destination" \in Unwanted \ stay THEN Absent
                                                              ELSE destination
      BY <2>3 DEF CleanUp
    <3>2. destination' = Absent /\ "destination" \in Unwanted
      BY <1>1, <3>1
    <3>3. kind = "Unique" /\ ~success
      BY <3>2 DEF Unwanted
    <3>. QED
      BY <2>3, <1>1, <3>2, <3>3 DEF Inv, FilesInStep, CleanUp
  <2>4. CASE ~ (Commit \/ AppendAtomically \/ CleanUp)
    BY <2>4, <1>1
       DEF Next, vars, serverVars, fileVars, ClientNext, SendAttempt,
           SendAttemptFails, ReceiveAck, AckTimeout, AttemptsExhausted,
           SenderAborts, RequestClientAbort, ServerNext, Receive, ReceiveOld,
           ReceiveNew, ReceiveFails, ReceiveAborted, GiveUpReceiving, Store,
           AppendChunk, AppendFails, CommitFails, AppendAtomicallyFails,
           SkipAppend, FinishTransfer, RequestServerAbort, AborReply,
           NetworkNext, LosePacket, LoseAck, Ended
  <2>. QED
    BY <2>1, <2>2, <2>3, <2>4
<1>2. Inv /\ [Next]_vars =>
        [destination' # destination =>
           /\ destination = before
           /\ destination' = Result \/ (kind = "Unique" /\ destination' = Absent)]_vars
  BY <1>1
<1>. QED
  BY <1>2, Invariance, PTL DEF Spec, DestinationReplacedWhole

=============================================================================
