---------------------------- MODULE AsciiStream ----------------------------
(***************************************************************************)
(* A file on its way through the readers, the translator and the receiving *)
(* loop of DataChannelSession, byte by byte.  The stream is cut twice: the *)
(* file into blocks that are translated, and what comes out of that into   *)
(* chunks that are sent and translated again.  The chunks arrive once and  *)
(* in order (Handshake, RetrTransfer, StorTransfer); failures of the       *)
(* transport and aborts are modelled there.                                *)
(***************************************************************************)
EXTENDS Integers, SequencesExt

CONSTANTS MaxLength,   \* bound: bytes of a file
          ChunkSize    \* ChunkedFileReader::CHUNK_SIZE

ASSUME BoundsAssumption == MaxLength \in Nat /\ ChunkSize \in Nat \ {0}

Bytes == {"CR", "LF", "x"}   \* "x" stands for every other byte
Files == UNION {[1 .. n -> Bytes] : n \in 0 .. MaxLength}
Modes == {"ASCII", "Binary"}

VARIABLES
  file, mode,  \* what is sent, and how
  read,        \* bytes read so far
  broken,      \* a read has failed
  encodeCR,    \* encodeCarryCR of the sender's translator
  pending,     \* pendingOutput: translated, not yet in a chunk
  current,     \* the chunk held back until it is known whether another follows
  sender,      \* "first": no chunk yet, "next": looks ahead, "sent": all are sent
  wire,        \* chunks on their way, each with its FIN flag
  decodeCR,    \* decodeCarryCR of the receiver's translator
  stored,      \* what the receiver has written
  committed    \* the final chunk has been written

vars == <<file, mode, read, broken, encodeCR, pending, current, sender, wire, decodeCR,
          stored, committed>>

-----------------------------------------------------------------------------
(* AsciiTranslator *)

\* One byte: a LF gets a CR unless there was one before it.
AddByte(acc, b) ==
  [out |-> acc.out \o IF b = "LF" /\ ~acc.cr THEN <<"CR", "LF">> ELSE <<b>>,
   cr |-> b = "CR"]

\* The loop: what has been put out, and prevWasCR, after each byte of s.
Normalizing(s, carry) ==
  LET acc[k \in 0 .. Len(s)] ==
        IF k = 0 THEN [out |-> <<>>, cr |-> carry] ELSE AddByte(acc[k - 1], s[k])
  IN  acc

\* Mutant: every call starts afresh.
NormalizeAfresh(s, carry) == Normalizing(s, FALSE)[Len(s)]

\* normalizeToCRLF; cr is what it leaves in carryPrevCR.
NormalizeToCRLF(s, carry) == Normalizing(s, carry)[Len(s)]

Encode(s) == IF mode = "ASCII" THEN NormalizeToCRLF(s, encodeCR)
             ELSE [out |-> s, cr |-> FALSE]
Decode(s) == IF mode = "ASCII" THEN NormalizeToCRLF(s, decodeCR)
             ELSE [out |-> s, cr |-> FALSE]

-----------------------------------------------------------------------------
(* Sender *)

Smaller(m, n) == IF m < n THEN m ELSE n

\* What stream.read delivers; nothing once it has failed.
Deliverable == IF broken THEN 0 ELSE Smaller(ChunkSize, Len(file) - read)

Reading == sender \in {"first", "next"} /\ Len(pending) < ChunkSize

\* A block is read and translated, a short one if the disk fails.  In binary mode the
\* block is the chunk.
Fill ==
  /\ Reading
  /\ \E n \in 1 .. Deliverable :
       LET e == Encode(SubSeq(file, read + 1, read + n)) IN
       /\ read' = read + n
       /\ broken' = (broken \/ n < Deliverable)
       /\ encodeCR' = e.cr /\ pending' = pending \o e.out
  /\ UNCHANGED <<file, mode, current, sender, wire, decodeCR, stored, committed>>

\* There is enough for a chunk, or nothing more comes: the file is at its end or the
\* read fails, which nextChunk does not tell apart.
FillStops ==
  \/ sender # "sent" /\ Len(pending) >= ChunkSize /\ UNCHANGED broken
  \/ Reading /\ Deliverable = 0 /\ UNCHANGED broken
  \/ Reading /\ Deliverable > 0 /\ broken' = TRUE

Taken == SubSeq(pending, 1, Smaller(ChunkSize, Len(pending)))

\* The first chunk; a file without bytes is one empty final chunk.
TakeFirst ==
  /\ sender = "first" /\ FillStops
  /\ current' = Taken
  /\ pending' = SubSeq(pending, Len(Taken) + 1, Len(pending))
  /\ sender' = IF Taken = <<>> THEN "sent" ELSE "next"
  /\ wire' = IF Taken = <<>> THEN Append(wire, [data |-> <<>>, final |-> TRUE]) ELSE wire
  /\ UNCHANGED <<file, mode, read, encodeCR, decodeCR, stored, committed>>

\* Mutant: a chunk that is not full is taken for the last.
TakeNextEager ==
  /\ sender = "next" /\ FillStops
  /\ current' = Taken
  /\ pending' = SubSeq(pending, Len(Taken) + 1, Len(pending))
  /\ sender' = IF Taken = <<>> THEN "sent" ELSE "next"
  /\ wire' = Append(wire, [data |-> current, final |-> Len(current) < ChunkSize])
  /\ UNCHANGED <<file, mode, read, encodeCR, decodeCR, stored, committed>>

\* Mutant: pendingOutput is emptied, also of what does not fit into the chunk.
TakeNextClears ==
  /\ sender = "next" /\ FillStops
  /\ current' = Taken
  /\ pending' = <<>>
  /\ sender' = IF Taken = <<>> THEN "sent" ELSE "next"
  /\ wire' = Append(wire, [data |-> current, final |-> Taken = <<>>])
  /\ UNCHANGED <<file, mode, read, encodeCR, decodeCR, stored, committed>>

\* The look ahead: the chunk before is sent, with FIN if there is no other.
TakeNext ==
  /\ sender = "next" /\ FillStops
  /\ current' = Taken
  /\ pending' = SubSeq(pending, Len(Taken) + 1, Len(pending))
  /\ sender' = IF Taken = <<>> THEN "sent" ELSE "next"
  /\ wire' = Append(wire, [data |-> current, final |-> Taken = <<>>])
  /\ UNCHANGED <<file, mode, read, encodeCR, decodeCR, stored, committed>>

-----------------------------------------------------------------------------
(* Receiver *)

Receive ==
  /\ wire # <<>> /\ ~committed
  /\ LET d == Decode(Head(wire).data) IN
     /\ stored' = stored \o d.out
     /\ decodeCR' = d.cr
  /\ committed' = Head(wire).final
  /\ wire' = Tail(wire)
  /\ UNCHANGED <<file, mode, read, broken, encodeCR, pending, current, sender>>

-----------------------------------------------------------------------------

Init ==
  /\ file \in Files /\ mode \in Modes
  /\ read = 0 /\ broken = FALSE /\ encodeCR = FALSE
  /\ pending = <<>> /\ current = <<>> /\ sender = "first" /\ wire = <<>>
  /\ decodeCR = FALSE /\ stored = <<>> /\ committed = FALSE

Done == committed /\ sender = "sent" /\ UNCHANGED vars

Next == Fill \/ TakeFirst \/ TakeNext \/ Receive \/ Done

Spec == Init /\ [][Next]_vars

-----------------------------------------------------------------------------
(* Properties *)

TypeOK ==
  /\ file \in Seq(Bytes) /\ mode \in Modes /\ read \in 0 .. Len(file)
  /\ pending \in Seq(Bytes) /\ current \in Seq(Bytes) /\ stored \in Seq(Bytes)
  /\ sender \in {"first", "next", "sent"}
  /\ wire \in Seq([data : Seq(Bytes), final : BOOLEAN])
  /\ {broken, encodeCR, decodeCR, committed} \subseteq BOOLEAN

\* What a file is as text on the wire and on disk: each LF that has no CR before it in
\* the file gets one, nothing else changes.
Rendered(f, i) ==
  IF f[i] = "LF" /\ (i = 1 \/ f[i - 1] # "CR") THEN <<"CR", "LF">> ELSE <<f[i]>>

Translated(f) ==
  IF mode = "Binary" THEN f ELSE FlattenSeq([i \in DOMAIN f |-> Rendered(f, i)])

OnWire == FlattenSeq([i \in DOMAIN wire |-> wire[i].data])

\* Wherever the two cuts fall, no byte is lost, doubled or translated twice: the pieces
\* on disk, on their way and in the sender make up the translation of what was read.
PiecesFit ==
  stored \o OnWire \o current \o pending = Translated(SubSeq(file, 1, read))

\* The final chunk is the last one and there is one, also for files without bytes and
\* files of full chunks; no chunk is larger than a packet takes.
OneFinalChunk ==
  /\ \A i \in DOMAIN wire : /\ Len(wire[i].data) <= ChunkSize
                            /\ wire[i].final <=> i = Len(wire) /\ sender = "sent"
  /\ sender = "sent" => committed # (wire # <<>>)
  /\ committed => sender = "sent"

\* A file that is committed is complete, unless a read failed at the sender: then it is
\* a part of it that passes for the whole.
CompleteUnlessBroken ==
  committed /\ ~broken => stored = Translated(file)

\* The carries of the two translators are about the last byte before the cut.
CarriesInStep ==
  mode = "ASCII" =>
    /\ encodeCR <=> read > 0 /\ file[read] = "CR"
    /\ decodeCR <=> stored # <<>> /\ stored[Len(stored)] = "CR"

\* Nothing is held back before the first chunk and after the last, and the last is
\* not taken before the file was read or a read has failed.
SenderInStep ==
  /\ Len(current) <= ChunkSize
  /\ sender = "first" => current = <<>> /\ wire = <<>>
  /\ sender = "sent" => /\ current = <<>> /\ pending = <<>>
                        /\ broken \/ read = Len(file)

\* The inductive invariant.
Inv == TypeOK /\ CarriesInStep /\ SenderInStep /\ PiecesFit /\ OneFinalChunk

=============================================================================
