--------------------------- MODULE ControlSession ---------------------------
(***************************************************************************)
(* One control connection: the client's prompt loop and transfer worker,   *)
(* the server's control thread and transfer worker, and the TCP stream     *)
(* between them.  What the workers do on the data channel is the subject   *)
(* of RetrTransfer and StorTransfer; here it only takes its time.          *)
(*                                                                         *)
(* XFER stands for RETR, STOR, STOU and APPE, which share their control    *)
(* flow, and NOOP for every command that needs no login and leaves the     *)
(* session alone.  A reply is tagged with the command it answers, which    *)
(* the program cannot see: it takes the next reply for the right one.      *)
(***************************************************************************)
EXTENDS Integers, Sequences, Functions

CONSTANTS Verbs,        \* what the user may type
          ThreadsFail,  \* whether the client may be unable to start a thread
          MaxCommands   \* bound on the commands sent over the connection

AllVerbs == {"USER", "PASS", "NOOP", "TYPE A", "TYPE I", "PASV", "PORT", "XFER",
             "ABOR", "QUIT"}

ASSUME VerbsAssumption == Verbs \subseteq AllVerbs
ASSUME ThreadsFailAssumption == ThreadsFail \in BOOLEAN
ASSUME MaxCommandsAssumption == MaxCommands \in Nat \ {0}

VARIABLES
  \* the TCP stream
  toServer,     \* commands under way
  toClient,     \* replies under way
  \* client
  cPc,          \* where the main thread is
  current,      \* command whose reply it waits for
  sent,         \* number of commands sent
  cMode,        \* ClientState::dataMode
  cType,        \* ClientState::transferMode
  cActive,      \* ClientState::transferActive
  cAbort,       \* ClientState::abortRequested
  cWorker,      \* ClientState::transferWorker: none, or joinable and where it is
  cXfer,        \* command that the worker works for
  misread,      \* a reply was read that answers another command
  \* server
  sPc,          \* where the control thread is
  abor,         \* the ABOR that it handles
  sUser,        \* ClientSession::username is set
  sAuth,        \* ClientSession::authenticated
  sMode,        \* ClientSession::dataChannelMode
  sType,        \* ClientSession::transferMode
  sActive,      \* ClientSession::transferActive
  sAbort,       \* ClientSession::abortRequested
  sWorker,      \* ClientSession::transferWorker
  sXfer,        \* command of the last transfer that was opened
  \* history
  unpaired      \* a transfer was given a reply too many, or a read too few

clientVars == <<cPc, current, sent, cMode, cType, cActive, cAbort, cWorker, cXfer,
                misread>>
serverVars == <<sPc, abor, sUser, sAuth, sMode, sType, sActive, sAbort, sWorker, sXfer>>
vars == <<toServer, toClient, clientVars, serverVars, unpaired>>

None == [verb |-> "none", id |-> 0]
Commands == [verb : AllVerbs, id : 0 .. MaxCommands]

\* Mutant: nothing is joined.
NeverJoined(active, worker) == worker

\* joinCompletedTransfer waits for a worker that reported its end; threads that
\* still run are left alone.
Joined(active, worker) == IF active THEN worker ELSE "none"
CanJoin(active, worker) == active \/ worker \in {"none", "ended"}

-----------------------------------------------------------------------------
(* Client: runClientSession *)

Command(v) == [verb |-> v, id |-> sent + 1]

\* sendCommand.
Send(v) ==
  /\ sent < MaxCommands
  /\ toServer' = Append(toServer, Command(v))
  /\ sent' = sent + 1

\* storeFile and retrieveFile return without a word to the server when a local
\* check fails: the arguments, the data endpoint, the local file.
ReadyToTransfer == cMode # "None"

\* Mutant: PASV and PORT leave the old data endpoint alone.
TypeCommandKeepsEndpoint(v) ==
  /\ cPc = "prompt" /\ ~cActive
  /\ CanJoin(cActive, cWorker)
  /\ v = "XFER" => ReadyToTransfer
  /\ Send(v)
  /\ current' = Command(v)
  /\ cWorker' = Joined(cActive, cWorker)
  /\ cPc' = "await"
  /\ UNCHANGED <<toClient, cMode, cType, cActive, cAbort, cXfer, misread,
                 serverVars, unpaired>>

\* A command typed at the prompt while no transfer is active.  PASV and PORT
\* drop the old data endpoint first; a transfer needs one.
TypeCommand(v) ==
  /\ cPc = "prompt" /\ ~cActive
  /\ CanJoin(cActive, cWorker)
  /\ v = "XFER" => ReadyToTransfer
  /\ Send(v)
  /\ current' = Command(v)
  /\ cMode' = IF v \in {"PASV", "PORT"} THEN "None" ELSE cMode
  /\ cWorker' = Joined(cActive, cWorker)
  /\ cPc' = "await"
  /\ UNCHANGED <<toClient, cType, cActive, cAbort, cXfer, misread, serverVars,
                 unpaired>>

\* enterActiveMode finds no local address or port.
PortFailsLocally ==
  /\ cPc = "prompt" /\ ~cActive
  /\ CanJoin(cActive, cWorker)
  /\ "PORT" \in Verbs
  /\ cMode' = "None"
  /\ cWorker' = Joined(cActive, cWorker)
  /\ UNCHANGED <<toServer, toClient, cPc, current, sent, cType, cActive, cAbort,
                 cXfer, misread, serverVars, unpaired>>

\* What TYPE asks for, and the replies by which the client takes it as granted.
TypeOf == [v \in {"TYPE A", "TYPE I"} |-> IF v = "TYPE A" THEN "A" ELSE "I"]
PositiveCodes == {"200", "221", "226", "227", "230", "250"}

\* Mutant: the type is taken as granted whatever the reply.
TypeAfterUnchecked(code) ==
  IF current.verb \in DOMAIN TypeOf THEN TypeOf[current.verb] ELSE cType

TypeAfter(code) ==
  IF current.verb \in DOMAIN TypeOf /\ code \in PositiveCodes
  THEN TypeOf[current.verb] ELSE cType

Take == toClient' = Tail(toClient)

Misread(own) == misread' = (misread \/ Head(toClient).of # own.id)

\* The reply of a command that starts no transfer.
ReadReply ==
  /\ cPc = "await" /\ current.verb # "XFER"
  /\ toClient # <<>>
  /\ Take /\ Misread(current)
  /\ LET code == Head(toClient).code IN
     /\ \/ cMode' = CASE current.verb = "PASV" /\ code = "227" -> "Passive"
                      [] current.verb = "PORT" /\ code = "200" -> "Active"
                      [] OTHER -> cMode
        \/ current.verb = "PASV" /\ UNCHANGED cMode  \* the data socket cannot be opened
     /\ cType' = TypeAfter(code)
  /\ cPc' = IF current.verb = "QUIT" THEN "leave" ELSE "prompt"
  /\ UNCHANGED <<toServer, current, sent, cActive, cAbort, cWorker, cXfer,
                 serverVars, unpaired>>

\* A transfer that is refused: closeDataState.
ReadRefusal ==
  /\ cPc = "await" /\ current.verb = "XFER"
  /\ toClient # <<>> /\ Head(toClient).code # "150"
  /\ Take /\ Misread(current)
  /\ cMode' = "None"
  /\ cPc' = "prompt"
  /\ UNCHANGED <<toServer, current, sent, cType, cActive, cAbort, cWorker, cXfer,
                 serverVars, unpaired>>

\* 150: the worker takes the data endpoint.  Assigning a std::thread that is
\* still joinable would terminate the process.
StartTransfer ==
  /\ cPc = "await" /\ current.verb = "XFER"
  /\ toClient # <<>> /\ Head(toClient).code = "150"
  /\ CanJoin(cActive, cWorker)
  /\ Take /\ Misread(current)
  /\ cMode' = "None"
  /\ cAbort' = FALSE /\ cActive' = TRUE
  /\ cXfer' = current
  /\ IF Joined(cActive, cWorker) = "none"
     THEN cWorker' = "data" /\ cPc' = "prompt"
     ELSE cPc' = "terminated" /\ UNCHANGED cWorker
  /\ UNCHANGED <<toServer, current, sent, cType, serverVars, unpaired>>

\* The thread cannot be created: the completion reply will be read by nobody.
StartTransferFails ==
  /\ ThreadsFail
  /\ cPc = "await" /\ current.verb = "XFER"
  /\ toClient # <<>> /\ Head(toClient).code = "150"
  /\ CanJoin(cActive, cWorker)
  /\ Take /\ Misread(current)
  /\ cMode' = "None"
  /\ cAbort' = FALSE
  /\ cWorker' = Joined(cActive, cWorker)
  /\ cPc' = "prompt"
  /\ unpaired' = TRUE
  /\ UNCHANGED <<toServer, current, sent, cType, cActive, cXfer, serverVars>>

\* ABOR is typed: the loop sees transferActive ...
TypeAbor ==
  /\ cPc = "prompt" /\ cActive
  /\ "ABOR" \in Verbs /\ sent < MaxCommands
  /\ cPc' = "abor"
  /\ UNCHANGED <<toServer, toClient, current, sent, cMode, cType, cActive, cAbort,
                 cWorker, cXfer, misread, serverVars, unpaired>>

\* ... and tells its worker and the server, whose reply the worker is to read.
SendAbor ==
  /\ cPc = "abor"
  /\ cAbort' = TRUE
  /\ Send("ABOR")
  /\ cPc' = "join"
  /\ unpaired' = (unpaired \/ sWorker \notin {"data", "report"})
  /\ UNCHANGED <<toClient, current, cMode, cType, cActive, cWorker, cXfer, misread,
                 serverVars>>

\* When ABOR could not be sent the loop ends here, which is Leave at the prompt.
JoinWorker ==
  /\ cPc = "join" /\ cWorker = "ended"
  /\ cWorker' = "none" /\ cActive' = FALSE
  /\ cPc' = "prompt"
  /\ UNCHANGED <<toServer, toClient, current, sent, cMode, cType, cAbort, cXfer,
                 misread, serverVars, unpaired>>

\* End of input, or a connection found closed.
ServerGone == sPc \in {"closed", "terminated"} /\ toClient = <<>>

Leave ==
  /\ \/ cPc = "prompt"
     \/ cPc = "await" /\ ServerGone
  /\ cPc' = "leave"
  /\ UNCHANGED <<toServer, toClient, current, sent, cMode, cType, cActive, cAbort,
                 cWorker, cXfer, misread, serverVars, unpaired>>

\* After the loop an active transfer is aborted.  This ABOR is past the bound
\* on commands.
AbortOnLeave ==
  /\ cPc = "leave" /\ cActive /\ ~cAbort
  /\ cAbort' = TRUE
  /\ toServer' = Append(toServer, [verb |-> "ABOR", id |-> sent])
  /\ UNCHANGED <<toClient, cPc, current, sent, cMode, cType, cActive, cWorker,
                 cXfer, misread, serverVars, unpaired>>

Exit ==
  /\ cPc = "leave" /\ (cActive => cAbort)
  /\ cWorker \in {"none", "ended"}
  /\ cWorker' = "none" /\ cMode' = "None"
  /\ cPc' = "gone"
  /\ UNCHANGED <<toServer, toClient, current, sent, cType, cActive, cAbort, cXfer,
                 misread, serverVars, unpaired>>

\* The client process dies.  Its system lives on and closes the connection, which
\* the server's recv reports (Disconnect).  A host that goes down, or a link that
\* is cut, reports nothing and is not modelled.
Crash ==
  /\ cPc \notin {"gone", "terminated"}
  /\ cPc' = "gone" /\ cWorker' = "none" /\ cMode' = "None" /\ cActive' = FALSE
  /\ UNCHANGED <<toServer, toClient, current, sent, cType, cAbort, cXfer, misread,
                 serverVars, unpaired>>

-----------------------------------------------------------------------------
(* Client: transfer worker *)

ClientDataEnds ==
  /\ cWorker = "data"
  /\ cWorker' = "reply"
  /\ UNCHANGED <<toServer, toClient, cPc, current, sent, cMode, cType, cActive,
                 cAbort, cXfer, misread, serverVars, unpaired>>

\* The worker reads one reply, whether or not an ABOR was sent, and reports its
\* end.  After an ABOR the reply of either command will do.
ReadCompletion ==
  /\ cWorker = "reply" /\ toClient # <<>>
  /\ Take
  /\ misread' = (misread \/ Head(toClient).of \notin
                              {cXfer.id} \cup (IF cAbort THEN {sent} ELSE {}))
  /\ cActive' = FALSE
  /\ cWorker' = "ended"
  /\ UNCHANGED <<toServer, cPc, current, sent, cMode, cType, cAbort, cXfer,
                 serverVars, unpaired>>

CompletionLost ==
  /\ cWorker = "reply" /\ ServerGone
  /\ cActive' = FALSE
  /\ cWorker' = "ended"
  /\ UNCHANGED <<toServer, toClient, cPc, current, sent, cMode, cType, cAbort, cXfer,
                 misread, serverVars, unpaired>>

-----------------------------------------------------------------------------
(* Server: executeCommand *)

Reply(code, of) == [code |-> code, of |-> of.id]
Codes == PositiveCodes \cup {"150", "331", "425", "426", "500", "503", "530", "550"}
Replies == [code : Codes, of : 0 .. MaxCommands]

Received == Head(toServer)

\* The control thread has read a complete command line.
Reading == sPc = "recv" /\ toServer # <<>>

\* It is answered with one reply and done with.
Answer(code) ==
  /\ toServer' = Tail(toServer)
  /\ toClient' = Append(toClient, Reply(code, Received))

NeedsLogin == ~sAuth /\ Received.verb \notin {"USER", "PASS", "NOOP", "QUIT"}

RefuseNotLoggedIn ==
  /\ Reading /\ NeedsLogin
  /\ Answer("530")
  /\ UNCHANGED <<clientVars, serverVars, unpaired>>

Busy == ~NeedsLogin /\ sActive /\ Received.verb # "ABOR"

RefuseBusy ==
  /\ Reading /\ Busy
  /\ Answer("503")
  /\ UNCHANGED <<clientVars, serverVars, unpaired>>

\* The command reaches its handler, after the worker of the last transfer is joined.
Execute(verbs) ==
  /\ Reading /\ ~NeedsLogin /\ ~sActive
  /\ CanJoin(sActive, sWorker)
  /\ Received.verb \in verbs
  /\ sWorker' = Joined(sActive, sWorker)
  /\ UNCHANGED <<clientVars, abor, unpaired>>

User(known) ==
  /\ Execute({"USER"})
  /\ sAuth' = FALSE /\ sUser' = known
  /\ Answer(IF known THEN "331" ELSE "530")
  /\ UNCHANGED <<sPc, sMode, sType, sActive, sAbort, sXfer>>

Pass(correct) ==
  /\ Execute({"PASS"})
  /\ sAuth' = IF sUser THEN correct ELSE sAuth
  /\ Answer(IF ~sUser THEN "503" ELSE IF correct THEN "230" ELSE "530")
  /\ UNCHANGED <<sPc, sUser, sMode, sType, sActive, sAbort, sXfer>>

Noop ==
  /\ Execute({"NOOP"})
  /\ Answer("250")
  /\ UNCHANGED <<sPc, sUser, sAuth, sMode, sType, sActive, sAbort, sXfer>>

SetType ==
  /\ Execute(DOMAIN TypeOf)
  /\ sType' = TypeOf[Received.verb]
  /\ Answer("250")
  /\ UNCHANGED <<sPc, sUser, sAuth, sMode, sActive, sAbort, sXfer>>

\* The old endpoint goes first: clearDataState.
Pasv(opened) ==
  /\ Execute({"PASV"})
  /\ sMode' = IF opened THEN "Passive" ELSE "None"
  /\ Answer(IF opened THEN "227" ELSE "425")
  /\ UNCHANGED <<sPc, sUser, sAuth, sType, sActive, sAbort, sXfer>>

Port(valid) ==
  /\ Execute({"PORT"})
  /\ sMode' = IF valid THEN "Active" ELSE "None"
  /\ Answer(IF valid THEN "200" ELSE "500")
  /\ UNCHANGED <<sPc, sUser, sAuth, sType, sActive, sAbort, sXfer>>

Quit ==
  /\ Execute({"QUIT"})
  /\ Answer("221")
  /\ sAbort' = TRUE /\ sMode' = "None"
  /\ sPc' = "closed"
  /\ UNCHANGED <<sUser, sAuth, sType, sActive, sXfer>>

\* Mutant: no return after the first refusal.
RefuseTransferTwice ==
  /\ Execute({"XFER"})
  /\ toServer' = Tail(toServer)
  /\ toClient' = toClient \o <<Reply("425", Received), Reply("550", Received)>>
  /\ sMode' = "None"
  /\ UNCHANGED <<sPc, sUser, sAuth, sType, sActive, sAbort, sXfer>>

\* The path is refused, or the data endpoint is missing or cannot be used.
RefuseTransfer ==
  /\ Execute({"XFER"})
  /\ \/ Answer("550")
     \/ Answer("425")
  /\ sMode' = "None"
  /\ UNCHANGED <<sPc, sUser, sAuth, sType, sActive, sAbort, sXfer>>

\* Mutant: abortRequested keeps its value.
OpenTransferAbortKept ==
  /\ Reading /\ ~NeedsLogin /\ ~sActive
  /\ CanJoin(sActive, sWorker)
  /\ Received.verb = "XFER" /\ sMode # "None"
  /\ Answer("150")
  /\ sMode' = "None"
  /\ sActive' = TRUE
  /\ sXfer' = Received
  /\ IF Joined(sActive, sWorker) = "none"
     THEN sWorker' = "data" /\ UNCHANGED sPc
     ELSE sPc' = "terminated" /\ UNCHANGED sWorker
  /\ UNCHANGED <<clientVars, abor, sUser, sAuth, sType, sAbort, unpaired>>

\* startDownloadTransfer and startUploadTransfer: 150, and the worker takes the
\* data endpoint.
OpenTransfer ==
  /\ Reading /\ ~NeedsLogin /\ ~sActive
  /\ CanJoin(sActive, sWorker)
  /\ Received.verb = "XFER" /\ sMode # "None"
  /\ Answer("150")
  /\ sMode' = "None"
  /\ sAbort' = FALSE /\ sActive' = TRUE
  /\ sXfer' = Received
  /\ IF Joined(sActive, sWorker) = "none"
     THEN sWorker' = "data" /\ UNCHANGED sPc
     ELSE sPc' = "terminated" /\ UNCHANGED sWorker
  /\ UNCHANGED <<clientVars, abor, sUser, sAuth, sType, unpaired>>

\* The thread cannot be created: 150 is followed by 425.
OpenTransferFails ==
  /\ Execute({"XFER"})
  /\ sMode # "None"
  /\ toServer' = Tail(toServer)
  /\ toClient' = toClient \o <<Reply("150", Received), Reply("425", Received)>>
  /\ sMode' = "None" /\ sAbort' = FALSE
  /\ sXfer' = Received
  /\ UNCHANGED <<sPc, sUser, sAuth, sType, sActive>>

\* ABOR without a transfer.
AborIdle ==
  /\ Execute({"ABOR"})
  /\ sMode' = "None"
  /\ Answer("226")
  /\ UNCHANGED <<sPc, sUser, sAuth, sType, sActive, sAbort, sXfer>>

\* ABOR that found transferActive set.
AborSeesTransfer ==
  /\ Reading /\ ~NeedsLogin /\ sActive
  /\ Received.verb = "ABOR"
  /\ abor' = Received
  /\ toServer' = Tail(toServer)
  /\ sPc' = "abor"
  /\ UNCHANGED <<toClient, clientVars, sUser, sAuth, sMode, sType, sActive, sAbort,
                 sWorker, sXfer, unpaired>>

AborRequests ==
  /\ sPc = "abor"
  /\ sAbort' = TRUE
  /\ sPc' = "join"
  /\ UNCHANGED <<toServer, toClient, clientVars, abor, sUser, sAuth, sMode, sType,
                 sActive, sWorker, sXfer, unpaired>>

\* Mutant: the reply is left to the worker.
AborJoinsSilently ==
  /\ sPc = "join" /\ sWorker = "ended"
  /\ sWorker' = "none" /\ sActive' = FALSE /\ sMode' = "None"
  /\ sPc' = "recv"
  /\ UNCHANGED <<toServer, toClient, clientVars, abor, sUser, sAuth, sType,
                 sAbort, sXfer, unpaired>>

\* The worker is joined, whatever it has reported in the meantime.
AborJoins ==
  /\ sPc = "join" /\ sWorker = "ended"
  /\ sWorker' = "none" /\ sActive' = FALSE /\ sMode' = "None"
  /\ toClient' = Append(toClient, Reply("426", abor))
  /\ sPc' = "recv"
  /\ UNCHANGED <<toServer, clientVars, abor, sUser, sAuth, sType, sAbort, sXfer,
                 unpaired>>

\* Mutant: the end of the connection is noticed only between transfers.
DisconnectWhenIdle ==
  /\ sPc = "recv" /\ cPc \in {"gone", "terminated"}
  /\ sWorker = "none"
  /\ sAbort' = TRUE
  /\ sPc' = "shutdown"
  /\ UNCHANGED <<toServer, toClient, clientVars, abor, sUser, sAuth, sMode, sType,
                 sActive, sWorker, sXfer, unpaired>>

\* The client process has ended and its system has closed the connection: recv
\* reports that, or an error that loses what the client sent last, and
\* shutdownSession follows.
Disconnect ==
  /\ sPc = "recv" /\ cPc \in {"gone", "terminated"}
  /\ sAbort' = TRUE
  /\ sPc' = "shutdown"
  /\ UNCHANGED <<toServer, toClient, clientVars, abor, sUser, sAuth, sMode, sType,
                 sActive, sWorker, sXfer, unpaired>>

\* The connection breaks while the client lives: recv reports an error, and so
\* it does after a reply that could not be sent (stopFailedControlSocket).  What
\* was under way to the client may be lost with it.
ConnectionFails ==
  /\ sPc = "recv" /\ cPc \notin {"gone", "terminated"}
  /\ toClient' \in {toClient, <<>>}
  /\ sAbort' = TRUE
  /\ sPc' = "shutdown"
  /\ UNCHANGED <<toServer, clientVars, abor, sUser, sAuth, sMode, sType, sActive,
                 sWorker, sXfer, unpaired>>

\* Mutant: the worker is left to itself.
ShutdownDetaches ==
  /\ sPc = "shutdown"
  /\ sActive' = FALSE /\ sMode' = "None"
  /\ sPc' = "closed"
  /\ UNCHANGED <<toServer, toClient, clientVars, abor, sUser, sAuth, sType, sAbort,
                 sWorker, sXfer, unpaired>>

ShutdownJoins ==
  /\ sPc = "shutdown" /\ sWorker \in {"none", "ended"}
  /\ sWorker' = "none" /\ sActive' = FALSE /\ sMode' = "None"
  /\ sPc' = "closed"
  /\ UNCHANGED <<toServer, toClient, clientVars, abor, sUser, sAuth, sType,
                 sAbort, sXfer, unpaired>>

-----------------------------------------------------------------------------
(* Server: transfer worker *)

ServerDataEnds ==
  /\ sWorker = "data"
  /\ sWorker' = "report"
  /\ UNCHANGED <<toServer, toClient, clientVars, sPc, abor, sUser, sAuth, sMode,
                 sType, sActive, sAbort, sXfer, unpaired>>

\* An ABOR was sent that has not yet set abortRequested.
AborUnderWay ==
  sPc = "abor" \/ \E i \in DOMAIN toServer : toServer[i].verb = "ABOR"

\* finishTransfer writes the completion reply unless the transfer is aborted ...
Report(code) ==
  /\ sWorker = "report"
  /\ toClient' = IF sAbort THEN toClient ELSE Append(toClient, Reply(code, sXfer))
  /\ sWorker' = "reported"
  /\ unpaired' = (unpaired \/ (~sAbort /\ AborUnderWay))
  /\ UNCHANGED <<toServer, clientVars, sPc, abor, sUser, sAuth, sMode, sType,
                 sActive,
                 sAbort, sXfer>>

\* Mutant: transferActive is left set.
WorkerEndsActive ==
  /\ sWorker = "reported"
  /\ sWorker' = "ended"
  /\ UNCHANGED <<toServer, toClient, clientVars, sPc, abor, sUser, sAuth, sMode,
                 sType, sActive, sAbort, sXfer, unpaired>>

\* ... and only then clears transferActive.
WorkerEnds ==
  /\ sWorker = "reported"
  /\ sWorker' = "ended" /\ sActive' = FALSE
  /\ UNCHANGED <<toServer, toClient, clientVars, sPc, abor, sUser, sAuth, sMode,
                 sType, sAbort, sXfer, unpaired>>

-----------------------------------------------------------------------------

\* Both ends just after the greeting was read.
Init ==
  /\ toServer = <<>> /\ toClient = <<>>
  /\ cPc = "prompt" /\ current = None /\ sent = 0
  /\ cMode = "None" /\ cType = "I"
  /\ cActive = FALSE /\ cAbort = FALSE /\ cWorker = "none"
  /\ cXfer = None /\ misread = FALSE /\ unpaired = FALSE
  /\ sPc = "recv" /\ abor = None
  /\ sUser = FALSE /\ sAuth = FALSE
  /\ sMode = "None" /\ sType = "I"
  /\ sActive = FALSE /\ sAbort = FALSE /\ sWorker = "none" /\ sXfer = None

Typing == (\E v \in Verbs : TypeCommand(v)) \/ PortFailsLocally \/ TypeAbor

ClientMain == ReadReply \/ ReadRefusal \/ StartTransfer \/ StartTransferFails
              \/ SendAbor \/ JoinWorker \/ AbortOnLeave \/ Exit

ClientWorker == ClientDataEnds \/ ReadCompletion \/ CompletionLost

Dispatch ==
  \/ RefuseNotLoggedIn \/ RefuseBusy
  \/ \E ok \in BOOLEAN : User(ok)
  \/ \E ok \in BOOLEAN : Pass(ok)
  \/ \E ok \in BOOLEAN : Pasv(ok)
  \/ \E ok \in BOOLEAN : Port(ok)
  \/ Noop \/ SetType \/ Quit
  \/ RefuseTransfer \/ OpenTransfer \/ OpenTransferFails
  \/ AborIdle \/ AborSeesTransfer

ServerMain == Dispatch \/ AborRequests \/ AborJoins \/ Disconnect \/ ShutdownJoins

ServerWorker == ServerDataEnds \/ (\E code \in {"226", "426"} : Report(code)) \/ WorkerEnds

\* The session is over on both ends.
Over == /\ cPc \in {"gone", "terminated"} /\ sPc \in {"closed", "terminated"}
        /\ UNCHANGED vars

Next == Typing \/ Leave \/ Crash \/ ClientMain \/ ClientWorker
        \/ ServerMain \/ ServerWorker \/ ConnectionFails \/ Over

\* The threads run, a transfer ends (RetrTransfer!TransferEnds,
\* StorTransfer!TransferEnds), and TCP reports a connection that the other end has
\* closed: recv has no timeout of its own.  Nobody has to type anything.
Fairness ==
  /\ WF_vars(ClientMain) /\ WF_vars(ClientWorker)
  /\ WF_vars(ServerMain) /\ WF_vars(ServerWorker)
  /\ WF_vars(cPc = "await" /\ Leave)

Spec == Init /\ [][Next]_vars
FairSpec == Spec /\ Fairness

-----------------------------------------------------------------------------
(* Properties *)

Modes == {"None", "Passive", "Active"}

\* Types of the state of both ends.
TypeOK ==
  /\ toServer \in Seq(Commands) /\ toClient \in Seq(Replies)
  /\ cPc \in {"prompt", "await", "abor", "join", "leave", "gone", "terminated"}
  /\ current \in Commands \cup {None} /\ sent \in 0 .. MaxCommands
  /\ cMode \in Modes /\ cType \in {"A", "I"}
  /\ cActive \in BOOLEAN /\ cAbort \in BOOLEAN /\ misread \in BOOLEAN
  /\ cWorker \in {"none", "data", "reply", "ended"}
  /\ cXfer \in Commands \cup {None}
  /\ sPc \in {"recv", "abor", "join", "shutdown", "closed", "terminated"}
  /\ abor \in Commands \cup {None} /\ sXfer \in Commands \cup {None}
  /\ sUser \in BOOLEAN /\ sAuth \in BOOLEAN
  /\ sMode \in Modes /\ sType \in {"A", "I"}
  /\ sActive \in BOOLEAN /\ sAbort \in BOOLEAN
  /\ sWorker \in {"none", "data", "report", "reported", "ended"}

\* Neither end assigns to a std::thread that is still joinable, which would
\* terminate the process (joinCompletedTransfer, the join of ABOR).
NoThreadOverwritten == cPc # "terminated" /\ sPc # "terminated"

\* abortRequested never outlives the transfer it was meant for: a worker that
\* sees it set is being waited for by an ABOR or by the end of the session.
AbortAimsAtItsTransfer ==
  /\ sAbort /\ sWorker \in {"data", "report"} => sPc \in {"join", "shutdown"}
  /\ cAbort /\ cWorker \in {"data", "reply"} => cPc \in {"join", "leave"}

Quiet == cPc = "prompt" /\ cWorker \in {"none", "ended"}
         /\ toServer = <<>> /\ toClient = <<>> /\ sPc = "recv"

\* As long as no reply was taken for another, both ends are set to the same
\* transfer type when the client is back at its prompt, and if both have a data
\* endpoint it is of the same mode.  The server may have dropped its own: an
\* ABOR without a transfer clears it, and the client is not aware of that.
EndpointsAgree ==
  ~misread /\ Quiet =>
    /\ cType = sType
    /\ cMode = "None" \/ sMode = "None" \/ cMode = sMode

\* As long as no reply was taken for another, the two workers work for the same
\* command, with the same type.
WorkersPaired ==
  ~misread /\ cWorker \in {"data", "reply"} => sXfer = cXfer /\ cType = sType

\* When the session is over on the server nothing of it is left: no worker, no
\* data endpoint (shutdownSession, QUIT).
NothingLeftBehind ==
  sPc = "closed" => sWorker = "none" /\ sMode = "None" /\ ~sActive

\* transferActive is set exactly while a worker may still work, and a thread
\* that waits for a worker has one to wait for.
ServerInStep ==
  /\ sActive <=> sWorker \in {"data", "report", "reported"}
  /\ sPc \in {"abor", "join"} => sWorker # "none"

ClientInStep ==
  /\ cActive <=> cWorker \in {"data", "reply"}
  /\ cPc \in {"abor", "join"} => cWorker # "none"
  /\ cPc = "await" => ~cActive
  /\ cPc = "gone" => cWorker = "none"

\* The inductive invariant: what the atomic flags and the threads say of each
\* other on each end.
Inv ==
  /\ TypeOK
  /\ NoThreadOverwritten
  /\ ServerInStep
  /\ ClientInStep
  /\ AbortAimsAtItsTransfer
  /\ NothingLeftBehind

\* The ledger of the control stream.  The main thread is between commands, or the
\* server's worker may still report, or its control thread will answer an ABOR.
AtPrompt == cPc \in {"prompt", "abor", "join"}
Working == sWorker \in {"data", "report"}
Aborting == sPc \in {"abor", "join"}
Down == sPc \in {"shutdown", "closed"}

\* The command that the main thread waits for is the last one under way, and
\* what is under way besides can only be an ABOR.
CommandsInLine ==
  /\ \A c \in Range(toServer) : c.id <= sent
  /\ AtPrompt \/ cActive => \A c \in Range(toServer) : c.verb = "ABOR"
  /\ cPc = "await" =>
       \A i \in DOMAIN toServer :
         IF i = Len(toServer) THEN toServer[i] = current
                              ELSE toServer[i].verb = "ABOR" /\ toServer[i].id < sent

\* The server has handled nothing that was not sent, and the command that the
\* main thread waits for only when nothing is under way behind it.
Handled(id) ==
  /\ id <= sent
  /\ cPc = "await" /\ toServer # <<>> => id < sent

HandledInOrder ==
  /\ \A r \in Range(toClient) : Handled(r.of)
  /\ Handled(sXfer.id) /\ Handled(abor.id)
  /\ sXfer = None \/ sXfer.verb = "XFER"
  /\ abor = None \/ abor.verb = "ABOR"
  /\ cPc = "await" =>
       /\ current.id = sent /\ sent > 0
       /\ sXfer.id = sent => sXfer = current
       /\ abor.id = sent => abor = current

\* What the reply to the command that is waited for says of the server is true.
ReplyHolds(r) ==
  /\ r.code = "150" => sXfer = current
  /\ current.verb \in DOMAIN TypeOf => sType = TypeAfter(r.code)
  /\ current.verb = "PASV" /\ r.code = "227" => sMode \in {"Passive", "None"}
  /\ current.verb = "PORT" /\ r.code = "200" => sMode \in {"Active", "None"}

RepliesHold ==
  cPc = "await" => \A r \in Range(toClient) : r.of = sent => ReplyHolds(r)

\* Both ends have the same settings, and their workers the same command, except
\* while the command that changes them is under way.
SettingsAgree ==
  /\ AtPrompt \/ cActive => cType = sType
  /\ cPc = "await" /\ (toServer # <<>> \/ current.verb \notin DOMAIN TypeOf)
       => cType = sType
  /\ AtPrompt \/ cPc = "await" => cMode = "None" \/ sMode = "None" \/ cMode = sMode
  /\ cPc = "await" /\ current.verb \in {"PASV", "PORT"} => cMode = "None"
  /\ cActive => sXfer = cXfer

InLine == ~misread => CommandsInLine /\ HandledInOrder /\ RepliesHold /\ SettingsAgree

\* The replies that the server has given or may still give: those under way, the
\* completion of a transfer that no ABOR is going to silence, the answer to the
\* ABOR it handles, and one for each command that it will still read.
Unreported == IF Working /\ ~sAbort /\ ~AborUnderWay THEN 1 ELSE 0
Unanswered == IF Aborting THEN 1 ELSE 0
Unread == IF Down THEN 0 ELSE Len(toServer)
Owed == Len(toClient) + Unreported + Unanswered + Unread

\* They answer what the client has sent last, or the transfer that it aborts.
Mine(id) == id = sent \/ (cActive /\ cAbort /\ id = cXfer.id)

AllMine ==
  /\ \A r \in Range(toClient) : Mine(r.of)
  /\ ~Down => \A c \in Range(toServer) : Mine(c.id)
  /\ Working /\ ~sAbort => Mine(sXfer.id)
  /\ Aborting => Mine(abor.id)
  /\ cActive /\ ~cAbort => cXfer.id = sent

\* The client reads as many replies as it is given.
Balanced ==
  ~unpaired =>
    /\ ~misread
    /\ AtPrompt /\ ~cActive => Owed = 0
    /\ AtPrompt /\ cActive => Owed <= 1
    /\ cPc = "await" => \/ Owed <= 1
                       \/ /\ Owed <= 2 /\ current.verb = "XFER"
                          /\ toClient # <<>> /\ Head(toClient).code = "150"
    /\ cPc = "await" \/ cActive => AllMine
    /\ cActive /\ ~cAbort => toServer = <<>> /\ ~Aborting

\* A transfer needs a login, and the end of a session aborts its transfer.
ServerOrderly == (sActive => sAuth) /\ (Down => sAbort)

\* The inductive invariant for what is said on the control stream.
Ledger == Inv /\ ServerOrderly /\ InLine /\ Balanced

\* A reply is read for the wrong command only after a transfer was given a reply
\* too many (its completion and its ABOR crossed) or a read too few (the client
\* could not start the thread that was to read it).
MisreadNeedsUnpaired == misread => unpaired

\* Every reply that the client reads answers the command it reads it for.
ReadsOwnReply == ~misread

\* The reply "Transfer already in progress; use ABOR first." is true: the
\* completion of the transfer was not yet reported to the client.
BusyMeansUnreported == Reading /\ Busy => sWorker # "reported"

\* The client comes back from waiting for a reply or for its worker.
PromptReturns == cPc \in {"await", "abor", "join"} ~> cPc \in {"prompt", "leave", "gone"}

\* A client process that has ended, orderly or not, leaves no session behind,
\* whatever was under way.
SessionEnds == cPc = "gone" ~> sPc = "closed"

=============================================================================
