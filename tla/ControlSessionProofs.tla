------------------------ MODULE ControlSessionProofs ------------------------
(***************************************************************************)
(* Proofs about ControlSession, for any set of verbs and any number of     *)
(* commands.  Inv is split into what it says of the streams, of the client *)
(* and of the server, because no action but SendAbor, AbortOnLeave and the *)
(* reads and answers touches more than one of the three.                   *)
(***************************************************************************)
EXTENDS ControlSession, TLAPS

StreamPart ==
  /\ toServer \in Seq(Commands)
  /\ toClient \in Seq(Replies)

ClientPart ==
  /\ cPc \in {"prompt", "await", "abor", "join", "leave", "gone"}
  /\ current \in Commands \cup {None} /\ sent \in 0 .. MaxCommands
  /\ cMode \in Modes /\ cType \in {"A", "I"}
  /\ cActive \in BOOLEAN /\ cAbort \in BOOLEAN /\ misread \in BOOLEAN
  /\ cWorker \in {"none", "data", "reply", "ended"}
  /\ cXfer \in Commands \cup {None}
  /\ ClientInStep
  /\ cAbort /\ cWorker \in {"data", "reply"} => cPc \in {"join", "leave"}

ServerPart ==
  /\ sPc \in {"recv", "abor", "join", "shutdown", "closed"}
  /\ abor \in Commands \cup {None} /\ sXfer \in Commands \cup {None}
  /\ sUser \in BOOLEAN /\ sAuth \in BOOLEAN
  /\ sMode \in Modes /\ sType \in {"A", "I"}
  /\ sActive \in BOOLEAN /\ sAbort \in BOOLEAN
  /\ sWorker \in {"none", "data", "report", "reported", "ended"}
  /\ ServerInStep
  /\ NothingLeftBehind
  /\ sAbort /\ sWorker \in {"data", "report"} => sPc \in {"join", "shutdown"}

LEMMA Parts == Inv <=> StreamPart /\ ClientPart /\ ServerPart
  BY DEF Inv, TypeOK, NoThreadOverwritten, AbortAimsAtItsTransfer, StreamPart,
         ClientPart, ServerPart

LEMMA PartsNext == StreamPart' /\ ClientPart' /\ ServerPart' => Inv'
  BY DEF Inv, TypeOK, NoThreadOverwritten, AbortAimsAtItsTransfer, StreamPart,
         ClientPart, ServerPart

LEMMA ClientFrame == ClientPart /\ UNCHANGED clientVars => ClientPart'
  BY DEF ClientPart, clientVars, ClientInStep

LEMMA ServerFrame == ServerPart /\ UNCHANGED serverVars => ServerPart'
  BY DEF ServerPart, serverVars, ServerInStep, NothingLeftBehind

-----------------------------------------------------------------------------
(* The streams *)

\* A command that is typed, or read, is one of Commands, and a reply to it one
\* of Replies.
LEMMA MessageFacts ==
  /\ \A v \in AllVerbs : sent \in 0 .. MaxCommands => [verb |-> v, id |-> sent] \in Commands
  /\ \A v \in AllVerbs : sent \in 0 .. MaxCommands /\ sent < MaxCommands
       => Command(v) \in Commands
  /\ \A code \in Codes : \A c \in Commands \cup {None} : Reply(code, c) \in Replies
  BY MaxCommandsAssumption DEF Commands, Command, None, Reply, Replies

LEMMA SequenceFacts ==
  ASSUME NEW S, NEW q \in Seq(S)
  PROVE  /\ \A e \in S : Append(q, e) \in Seq(S)
         /\ \A e, f \in S : q \o <<e, f>> \in Seq(S)
         /\ q # <<>> => Head(q) \in S /\ Tail(q) \in Seq(S)
  OBVIOUS

\* Answer leaves both streams well formed.
LEMMA AnswerStreams ==
  ASSUME StreamPart, Reading, NEW code \in Codes, Answer(code)
  PROVE  StreamPart'
<1>1. Received \in Commands /\ Tail(toServer) \in Seq(Commands)
  BY SequenceFacts DEF StreamPart, Reading, Received
<1>2. Reply(code, Received) \in Replies
  BY <1>1, MessageFacts
<1>. QED
  BY <1>1, <1>2, SequenceFacts DEF StreamPart, Answer

-----------------------------------------------------------------------------
(* The client *)

LEMMA TypingInv == Inv /\ Typing => Inv'
<1>. SUFFICES ASSUME Inv, Typing PROVE Inv'
  OBVIOUS
<1>0. StreamPart /\ ClientPart /\ ServerPart
  BY Parts
<1>1. CASE \E v \in Verbs : TypeCommand(v)
  <2>1. PICK v \in Verbs : TypeCommand(v)
    BY <1>1
  <2>2. v \in AllVerbs /\ sent \in 0 .. MaxCommands /\ sent < MaxCommands
    BY <1>0, <2>1, VerbsAssumption DEF TypeCommand, Send, ClientPart
  <2>3. Command(v) \in Commands
    BY <2>2, MessageFacts
  <2>4. StreamPart'
    BY <1>0, <2>1, <2>3, SequenceFacts DEF StreamPart, TypeCommand, Send
  <2>5. sent' \in 0 .. MaxCommands
    BY <2>1, <2>2, MaxCommandsAssumption DEF TypeCommand, Send
  <2>6. ClientPart'
    BY <1>0, <2>1, <2>3, <2>5
       DEF ClientPart, ClientInStep, TypeCommand, Joined, Modes
  <2>. QED
    BY <1>0, <2>1, <2>4, <2>6, ServerFrame, PartsNext DEF TypeCommand
<1>2. CASE PortFailsLocally
  <2>1. ClientPart'
    BY <1>0, <1>2 DEF ClientPart, ClientInStep, PortFailsLocally, Joined, Modes
  <2>. QED
    BY <1>0, <1>2, <2>1, ServerFrame, PartsNext DEF PortFailsLocally, StreamPart
<1>3. CASE TypeAbor
  <2>1. ClientPart'
    BY <1>0, <1>3 DEF ClientPart, ClientInStep, TypeAbor
  <2>. QED
    BY <1>0, <1>3, <2>1, ServerFrame, PartsNext DEF TypeAbor, StreamPart
<1>. QED
  BY <1>1, <1>2, <1>3 DEF Typing

\* Taking a reply leaves both streams well formed.
LEMMA TakeStreams ==
  ASSUME StreamPart, toClient # <<>>, Take, UNCHANGED toServer
  PROVE  StreamPart'
  BY SequenceFacts DEF StreamPart, Take

LEMMA ReadInv == Inv /\ (ReadReply \/ ReadRefusal \/ StartTransfer \/ StartTransferFails)
                   => Inv'
<1>. SUFFICES ASSUME Inv, ReadReply \/ ReadRefusal \/ StartTransfer \/ StartTransferFails
              PROVE  Inv'
  OBVIOUS
<1>0. StreamPart /\ ClientPart /\ ServerPart
  BY Parts
<1>1. StreamPart' /\ UNCHANGED serverVars
  BY <1>0, TakeStreams DEF ReadReply, ReadRefusal, StartTransfer, StartTransferFails
<1>2. misread' \in BOOLEAN
  BY <1>0 DEF ReadReply, ReadRefusal, StartTransfer, StartTransferFails, Misread
<1>3. ClientPart'
  <2>1. CASE ReadReply
    <3>1. cMode' \in Modes
      BY <1>0, <2>1 DEF ClientPart, ReadReply, Modes
    <3>2. cType' \in {"A", "I"}
      BY <1>0, <2>1 DEF ClientPart, ReadReply, TypeAfter, TypeOf
    <3>. QED
      BY <1>0, <1>2, <2>1, <3>1, <3>2 DEF ClientPart, ClientInStep, ReadReply
  <2>2. CASE ReadRefusal
    BY <1>0, <1>2, <2>2 DEF ClientPart, ClientInStep, ReadRefusal, Modes
  <2>3. CASE StartTransfer
    <3>1. Joined(cActive, cWorker) = "none"
      BY <1>0, <2>3 DEF ClientPart, ClientInStep, StartTransfer, Joined
    <3>. QED
      BY <1>0, <1>2, <2>3, <3>1 DEF ClientPart, ClientInStep, StartTransfer, Modes
  <2>4. CASE StartTransferFails
    <3>1. Joined(cActive, cWorker) = "none"
      BY <1>0, <2>4 DEF ClientPart, ClientInStep, StartTransferFails, Joined
    <3>. QED
      BY <1>0, <1>2, <2>4, <3>1 DEF ClientPart, ClientInStep, StartTransferFails, Modes
  <2>. QED
    BY <2>1, <2>2, <2>3, <2>4
<1>. QED
  BY <1>0, <1>1, <1>3, ServerFrame, PartsNext

LEMMA AborInv == Inv /\ (SendAbor \/ AbortOnLeave) => Inv'
<1>. SUFFICES ASSUME Inv, SendAbor \/ AbortOnLeave PROVE Inv'
  OBVIOUS
<1>0. StreamPart /\ ClientPart /\ ServerPart
  BY Parts
<1>1. "ABOR" \in AllVerbs /\ sent \in 0 .. MaxCommands
  BY <1>0 DEF AllVerbs, ClientPart
<1>2. CASE SendAbor
  <2>1. Command("ABOR") \in Commands
    BY <1>1, <1>2, MessageFacts DEF SendAbor, Send
  <2>2. StreamPart'
    BY <1>0, <1>2, <2>1, SequenceFacts DEF StreamPart, SendAbor, Send
  <2>3. sent' \in 0 .. MaxCommands
    BY <1>1, <1>2, MaxCommandsAssumption DEF SendAbor, Send
  <2>4. ClientPart'
    BY <1>0, <1>2, <2>3 DEF ClientPart, ClientInStep, SendAbor
  <2>. QED
    BY <1>0, <1>2, <2>2, <2>4, ServerFrame, PartsNext DEF SendAbor
<1>3. CASE AbortOnLeave
  <2>1. [verb |-> "ABOR", id |-> sent] \in Commands
    BY <1>1, MessageFacts
  <2>2. StreamPart'
    BY <1>0, <1>3, <2>1, SequenceFacts DEF StreamPart, AbortOnLeave
  <2>3. ClientPart'
    BY <1>0, <1>3 DEF ClientPart, ClientInStep, AbortOnLeave
  <2>. QED
    BY <1>0, <1>3, <2>2, <2>3, ServerFrame, PartsNext DEF AbortOnLeave
<1>. QED
  BY <1>2, <1>3

\* The steps of the main thread that leave the streams alone.
LEMMA LeaveInv == Inv /\ (JoinWorker \/ Leave \/ Exit \/ Crash) => Inv'
<1>. SUFFICES ASSUME Inv, JoinWorker \/ Leave \/ Exit \/ Crash PROVE Inv'
  OBVIOUS
<1>0. StreamPart /\ ClientPart /\ ServerPart
  BY Parts
<1>1. UNCHANGED <<toServer, toClient, serverVars>>
  BY DEF JoinWorker, Leave, Exit, Crash
<1>2. ClientPart'
  <2>1. CASE JoinWorker
    BY <1>0, <2>1 DEF ClientPart, ClientInStep, JoinWorker
  <2>2. CASE Leave
    BY <1>0, <2>2 DEF ClientPart, ClientInStep, Leave
  <2>3. CASE Exit
    BY <1>0, <2>3 DEF ClientPart, ClientInStep, Exit, Modes
  <2>4. CASE Crash
    BY <1>0, <2>4 DEF ClientPart, ClientInStep, Crash, Modes
  <2>. QED
    BY <2>1, <2>2, <2>3, <2>4
<1>. QED
  BY <1>0, <1>1, <1>2, ServerFrame, PartsNext DEF StreamPart

LEMMA ClientWorkerInv == Inv /\ ClientWorker => Inv'
<1>. SUFFICES ASSUME Inv, ClientWorker PROVE Inv'
  OBVIOUS
<1>0. StreamPart /\ ClientPart /\ ServerPart
  BY Parts
<1>1. UNCHANGED serverVars
  BY DEF ClientWorker, ClientDataEnds, ReadCompletion, CompletionLost
<1>2. CASE ClientDataEnds
  <2>1. ClientPart'
    BY <1>0, <1>2 DEF ClientPart, ClientInStep, ClientDataEnds
  <2>. QED
    BY <1>0, <1>1, <1>2, <2>1, ServerFrame, PartsNext DEF ClientDataEnds, StreamPart
<1>3. CASE ReadCompletion
  <2>1. StreamPart'
    BY <1>0, <1>3, TakeStreams DEF ReadCompletion
  <2>2. misread' \in BOOLEAN
    BY <1>3 DEF ReadCompletion
  <2>3. ClientPart'
    BY <1>0, <1>3, <2>2 DEF ClientPart, ClientInStep, ReadCompletion
  <2>. QED
    BY <1>0, <1>1, <2>1, <2>3, ServerFrame, PartsNext
<1>4. CASE CompletionLost
  <2>1. ClientPart'
    BY <1>0, <1>4 DEF ClientPart, ClientInStep, CompletionLost
  <2>. QED
    BY <1>0, <1>1, <1>4, <2>1, ServerFrame, PartsNext DEF CompletionLost, StreamPart
<1>. QED
  BY <1>2, <1>3, <1>4 DEF ClientWorker

-----------------------------------------------------------------------------
(* The server *)

\* The commands that are answered with one reply and start no transfer.
LEMMA AnswerInv ==
  Inv /\ (\/ RefuseNotLoggedIn \/ RefuseBusy \/ Noop \/ SetType \/ Quit
          \/ RefuseTransfer \/ AborIdle
          \/ \E ok \in BOOLEAN : User(ok) \/ Pass(ok) \/ Pasv(ok) \/ Port(ok)) => Inv'
<1>. SUFFICES ASSUME Inv,
                     \/ RefuseNotLoggedIn \/ RefuseBusy \/ Noop \/ SetType \/ Quit
                     \/ RefuseTransfer \/ AborIdle
                     \/ \E ok \in BOOLEAN : User(ok) \/ Pass(ok) \/ Pasv(ok) \/ Port(ok)
              PROVE  Inv'
  OBVIOUS
<1>0. StreamPart /\ ClientPart /\ ServerPart
  BY Parts
<1>1. Reading /\ (\E code \in Codes : Answer(code)) /\ UNCHANGED clientVars
  BY DEF RefuseNotLoggedIn, RefuseBusy, Noop, SetType, Quit, RefuseTransfer, AborIdle,
         User, Pass, Pasv, Port, Execute, Codes, PositiveCodes
<1>2. StreamPart'
  BY <1>0, <1>1, AnswerStreams
<1>3. CASE RefuseNotLoggedIn \/ RefuseBusy
  BY <1>0, <1>1, <1>2, <1>3, ClientFrame, ServerFrame, PartsNext
     DEF RefuseNotLoggedIn, RefuseBusy
<1>4. CASE \/ Noop \/ SetType \/ Quit \/ RefuseTransfer \/ AborIdle
           \/ \E ok \in BOOLEAN : User(ok) \/ Pass(ok) \/ Pasv(ok) \/ Port(ok)
  <2>1. /\ sPc = "recv" /\ ~sActive /\ sWorker' = "none" /\ UNCHANGED abor
        /\ sActive' = sActive /\ sXfer' = sXfer
    <3>1. \E verbs : Execute(verbs)
      BY <1>4 DEF Noop, SetType, Quit, RefuseTransfer, AborIdle, User, Pass, Pasv, Port
    <3>2. /\ sPc = "recv" /\ ~sActive /\ sWorker' = "none" /\ UNCHANGED abor
      BY <3>1 DEF Execute, Reading, Joined
    <3>3. sActive' = sActive /\ sXfer' = sXfer
      BY <1>4 DEF Noop, SetType, Quit, RefuseTransfer, AborIdle, User, Pass, Pasv, Port
    <3>. QED
      BY <3>2, <3>3
  <2>2. /\ sUser' \in BOOLEAN /\ sAuth' \in BOOLEAN /\ sAbort' \in BOOLEAN
        /\ sMode' \in Modes /\ sType' \in {"A", "I"}
    <3>1. CASE Noop \/ RefuseTransfer \/ AborIdle \/ Quit
      BY <1>0, <3>1 DEF ServerPart, Modes, Noop, RefuseTransfer, AborIdle, Quit
    <3>2. CASE SetType
      <4>1. Received.verb \in DOMAIN TypeOf /\ sType' = TypeOf[Received.verb]
        BY <3>2 DEF SetType, Execute
      <4>2. sType' \in {"A", "I"}
        BY <4>1 DEF TypeOf
      <4>. QED
        BY <1>0, <3>2, <4>2 DEF ServerPart, SetType
    <3>3. CASE \E ok \in BOOLEAN : User(ok) \/ Pass(ok)
      BY <1>0, <3>3 DEF ServerPart, User, Pass
    <3>4. CASE \E ok \in BOOLEAN : Pasv(ok) \/ Port(ok)
      BY <1>0, <3>4 DEF ServerPart, Modes, Pasv, Port
    <3>. QED
      BY <1>4, <3>1, <3>2, <3>3, <3>4
  <2>3. sPc' = "recv" \/ (sPc' = "closed" /\ sMode' = "None")
    BY <1>4, <2>1
       DEF Noop, SetType, Quit, RefuseTransfer, AborIdle, User, Pass, Pasv, Port
  <2>4. ServerPart'
    BY <1>0, <2>1, <2>2, <2>3 DEF ServerPart, ServerInStep, NothingLeftBehind
  <2>. QED
    BY <1>0, <1>1, <1>2, <2>4, ClientFrame, PartsNext
<1>. QED
  BY <1>3, <1>4

\* Opening a transfer assigns the thread only when there is none to join.
LEMMA OpenInv == Inv /\ (OpenTransfer \/ OpenTransferFails \/ AborSeesTransfer) => Inv'
<1>. SUFFICES ASSUME Inv, OpenTransfer \/ OpenTransferFails \/ AborSeesTransfer PROVE Inv'
  OBVIOUS
<1>0. StreamPart /\ ClientPart /\ ServerPart
  BY Parts
<1>1. /\ Reading /\ UNCHANGED clientVars
      /\ Received \in Commands /\ Tail(toServer) \in Seq(Commands)
  BY <1>0, SequenceFacts
     DEF OpenTransfer, OpenTransferFails, AborSeesTransfer, Execute, Reading,
         StreamPart, Received
<1>2. {"150", "425"} \subseteq Codes
  BY DEF Codes
<1>3. CASE OpenTransfer
  <2>1. StreamPart'
    BY <1>0, <1>1, <1>2, <1>3, AnswerStreams DEF OpenTransfer
  <2>2. Joined(sActive, sWorker) = "none"
    BY <1>3 DEF OpenTransfer, Joined
  <2>3. ServerPart'
    BY <1>0, <1>1, <1>3, <2>2
       DEF ServerPart, ServerInStep, NothingLeftBehind, OpenTransfer, Reading, Modes
  <2>. QED
    BY <1>0, <1>1, <2>1, <2>3, ClientFrame, PartsNext
<1>4. CASE OpenTransferFails
  <2>1. Reply("150", Received) \in Replies /\ Reply("425", Received) \in Replies
    BY <1>1, <1>2, MessageFacts
  <2>2. StreamPart'
    BY <1>0, <1>1, <1>4, <2>1, SequenceFacts DEF StreamPart, OpenTransferFails
  <2>3. ServerPart'
    BY <1>0, <1>1, <1>4
       DEF ServerPart, ServerInStep, NothingLeftBehind, OpenTransferFails, Execute,
           Reading, Joined, Modes
  <2>. QED
    BY <1>0, <1>1, <2>2, <2>3, ClientFrame, PartsNext
<1>5. CASE AborSeesTransfer
  <2>1. StreamPart'
    BY <1>0, <1>1, <1>5 DEF StreamPart, AborSeesTransfer
  <2>2. ServerPart'
    BY <1>0, <1>1, <1>5
       DEF ServerPart, ServerInStep, NothingLeftBehind, AborSeesTransfer, Reading
  <2>. QED
    BY <1>0, <1>1, <2>1, <2>2, ClientFrame, PartsNext
<1>. QED
  BY <1>3, <1>4, <1>5

\* The ends of a transfer: the ABOR that joins it, the shutdown, the worker.
LEMMA EndInv ==
  Inv /\ (\/ AborRequests \/ AborJoins \/ Disconnect \/ ConnectionFails
          \/ ShutdownJoins \/ ServerWorker) => Inv'
<1>. SUFFICES ASSUME Inv,
                     \/ AborRequests \/ AborJoins \/ Disconnect \/ ConnectionFails
                     \/ ShutdownJoins \/ ServerWorker
              PROVE  Inv'
  OBVIOUS
<1>0. StreamPart /\ ClientPart /\ ServerPart
  BY Parts
<1>1. UNCHANGED <<toServer, clientVars>>
  BY DEF AborRequests, AborJoins, Disconnect, ConnectionFails, ShutdownJoins,
         ServerWorker, ServerDataEnds, Report, WorkerEnds
<1>2. StreamPart'
  <2>1. CASE AborJoins
    <3>1. Reply("426", abor) \in Replies
      BY <1>0, MessageFacts DEF ServerPart, Codes
    <3>. QED
      BY <1>0, <1>1, <2>1, <3>1, SequenceFacts DEF StreamPart, AborJoins
  <2>2. CASE \E code \in {"226", "426"} : Report(code)
    <3>1. PICK code \in {"226", "426"} : Report(code)
      BY <2>2
    <3>2. Reply(code, sXfer) \in Replies
      BY <1>0, MessageFacts DEF ServerPart, Codes, PositiveCodes
    <3>. QED
      BY <1>0, <1>1, <3>1, <3>2, SequenceFacts DEF StreamPart, Report
  <2>3. CASE AborRequests \/ Disconnect \/ ShutdownJoins \/ ServerDataEnds \/ WorkerEnds
    BY <1>0, <2>3
       DEF StreamPart, AborRequests, Disconnect, ShutdownJoins, ServerDataEnds, WorkerEnds
  <2>4. CASE ConnectionFails
    <3>1. <<>> \in Seq(Replies)
      OBVIOUS
    <3>2. toServer' = toServer /\ (toClient' = toClient \/ toClient' = <<>>)
      BY <2>4 DEF ConnectionFails
    <3>. QED
      BY <1>0, <3>1, <3>2 DEF StreamPart
  <2>. QED
    BY <2>1, <2>2, <2>3, <2>4 DEF ServerWorker
<1>3. ServerPart'
  <2>1. CASE AborRequests
    BY <1>0, <2>1 DEF ServerPart, ServerInStep, NothingLeftBehind, AborRequests
  <2>2. CASE AborJoins
    BY <1>0, <2>2 DEF ServerPart, ServerInStep, NothingLeftBehind, AborJoins, Modes
  <2>3. CASE Disconnect
    BY <1>0, <2>3 DEF ServerPart, ServerInStep, NothingLeftBehind, Disconnect
  <2>4. CASE ShutdownJoins
    BY <1>0, <2>4 DEF ServerPart, ServerInStep, NothingLeftBehind, ShutdownJoins, Modes
  <2>5. CASE ServerDataEnds
    BY <1>0, <2>5 DEF ServerPart, ServerInStep, NothingLeftBehind, ServerDataEnds
  <2>6. CASE \E code \in {"226", "426"} : Report(code)
    BY <1>0, <2>6 DEF ServerPart, ServerInStep, NothingLeftBehind, Report
  <2>7. CASE WorkerEnds
    BY <1>0, <2>7 DEF ServerPart, ServerInStep, NothingLeftBehind, WorkerEnds
  <2>8. CASE ConnectionFails
    BY <1>0, <2>8 DEF ServerPart, ServerInStep, NothingLeftBehind, ConnectionFails
  <2>. QED
    BY <2>1, <2>2, <2>3, <2>4, <2>5, <2>6, <2>7, <2>8 DEF ServerWorker
<1>. QED
  BY <1>0, <1>1, <1>2, <1>3, ClientFrame, PartsNext

-----------------------------------------------------------------------------
(* The invariant *)

LEMMA InitInv == Init => Inv
<1>. SUFFICES ASSUME Init PROVE Inv
  OBVIOUS
<1>1. StreamPart
  BY DEF Init, StreamPart
<1>2. ClientPart
  <2>1. 0 \in 0 .. MaxCommands
    BY MaxCommandsAssumption
  <2>. QED
    BY <2>1 DEF Init, ClientPart, ClientInStep, Modes
<1>3. ServerPart
  BY DEF Init, ServerPart, ServerInStep, NothingLeftBehind, Modes
<1>. QED
  BY <1>1, <1>2, <1>3, Parts

LEMMA NextInv == Inv /\ [Next]_vars => Inv'
<1>. SUFFICES ASSUME Inv, [Next]_vars PROVE Inv'
  OBVIOUS
<1>1. CASE Typing
  BY <1>1, TypingInv
<1>2. CASE ClientMain
  BY <1>2, ReadInv, AborInv, LeaveInv DEF ClientMain
<1>3. CASE Leave \/ Crash
  BY <1>3, LeaveInv
<1>4. CASE ClientWorker
  BY <1>4, ClientWorkerInv
<1>5. CASE ServerMain
  BY <1>5, AnswerInv, OpenInv, EndInv DEF ServerMain, Dispatch
<1>6. CASE ServerWorker \/ ConnectionFails
  BY <1>6, EndInv
<1>7. CASE UNCHANGED vars
  <2>1. StreamPart /\ ClientPart /\ ServerPart
    BY Parts
  <2>. QED
    BY <1>7, <2>1, ClientFrame, ServerFrame, PartsNext DEF vars, StreamPart
<1>. QED
  BY <1>1, <1>2, <1>3, <1>4, <1>5, <1>6, <1>7 DEF Next, Over

\* What the flags transferActive and abortRequested, the worker threads and the
\* control threads say of each other holds in every reachable state of a
\* control connection, whatever the user types and whenever either end goes.
THEOREM Invariance == Spec => []Inv
  BY InitInv, NextInv, PTL DEF Spec

\* Every variable of the session has its type.
THEOREM TypeCorrect == Spec => []TypeOK
<1>1. Inv => TypeOK
  BY DEF Inv
<1>. QED
  BY <1>1, Invariance, PTL

\* Neither program is terminated by an assignment to a joinable std::thread:
\* joinCompletedTransfer always runs before the next transfer is started.
THEOREM ThreadsJoined == Spec => []NoThreadOverwritten
<1>1. Inv => NoThreadOverwritten
  BY DEF Inv
<1>. QED
  BY <1>1, Invariance, PTL

\* An ABOR ends the transfer it finds and never the next one.
THEOREM AbortAimed == Spec => []AbortAimsAtItsTransfer
<1>1. Inv => AbortAimsAtItsTransfer
  BY DEF Inv
<1>. QED
  BY <1>1, Invariance, PTL

\* A session that is closed on the server has no worker, no data endpoint and no
\* transfer in progress.
THEOREM CleanClose == Spec => []NothingLeftBehind
<1>1. Inv => NothingLeftBehind
  BY DEF Inv
<1>. QED
  BY <1>1, Invariance, PTL

=============================================================================
