------------------------ MODULE ControlLedgerProofs -------------------------
(***************************************************************************)
(* What is said on the control stream, for any set of verbs and any number *)
(* of commands: the two ends agree as long as no reply was taken for       *)
(* another, and none is unless a transfer was given a reply too many or a  *)
(* read too few.                                                           *)
(***************************************************************************)
EXTENDS ControlSessionProofs

-----------------------------------------------------------------------------
(* Sequences as queues *)

LEMMA LenFacts ==
  ASSUME NEW S, NEW q \in Seq(S)
  PROVE  /\ Len(q) \in Nat /\ DOMAIN q = 1 .. Len(q)
         /\ q = <<>> <=> Len(q) = 0
         /\ q = <<>> <=> Range(q) = {}
         /\ Range(q) \subseteq S
<1>1. Len(q) \in Nat /\ DOMAIN q = 1 .. Len(q) /\ (q = <<>> <=> Len(q) = 0)
  OBVIOUS
<1>2. Range(q) \subseteq S
  BY DEF Range
<1>3. q = <<>> <=> Range(q) = {}
  <2>1. q # <<>> => 1 \in DOMAIN q
    BY <1>1
  <2>2. q = <<>> => DOMAIN q = {}
    BY <1>1
  <2>. QED
    BY <2>1, <2>2 DEF Range
<1>. QED
  BY <1>1, <1>2, <1>3

LEMMA AppendFacts ==
  ASSUME NEW S, NEW q \in Seq(S), NEW e \in S
  PROVE  /\ Append(q, e) \in Seq(S) /\ Append(q, e) # <<>>
         /\ Len(Append(q, e)) = Len(q) + 1
         /\ \A i \in 1 .. Len(q) : Append(q, e)[i] = q[i]
         /\ Append(q, e)[Len(q) + 1] = e
         /\ Range(Append(q, e)) = Range(q) \cup {e}
         /\ Head(Append(q, e)) = IF q = <<>> THEN e ELSE Head(q)
<1>1. /\ Append(q, e) \in Seq(S) /\ Append(q, e) # <<>>
      /\ Len(Append(q, e)) = Len(q) + 1
      /\ \A i \in 1 .. Len(q) : Append(q, e)[i] = q[i]
      /\ Append(q, e)[Len(q) + 1] = e
  OBVIOUS
<1>2. DOMAIN Append(q, e) = DOMAIN q \cup {Len(q) + 1} /\ DOMAIN q = 1 .. Len(q)
  OBVIOUS
<1>3. Range(Append(q, e)) = Range(q) \cup {e}
  BY <1>1, <1>2 DEF Range
<1>4. Head(Append(q, e)) = IF q = <<>> THEN e ELSE Head(q)
  OBVIOUS
<1>. QED
  BY <1>1, <1>3, <1>4

LEMMA TailFacts ==
  ASSUME NEW S, NEW q \in Seq(S), q # <<>>
  PROVE  /\ Head(q) \in S /\ Head(q) \in Range(q) /\ Head(q) = q[1]
         /\ Tail(q) \in Seq(S) /\ Len(Tail(q)) = Len(q) - 1 /\ Len(q) >= 1
         /\ \A i \in 1 .. Len(q) - 1 : Tail(q)[i] = q[i + 1]
         /\ Range(q) = Range(Tail(q)) \cup {Head(q)}
<1>1. /\ Head(q) \in S /\ Head(q) = q[1] /\ 1 \in DOMAIN q
      /\ Tail(q) \in Seq(S) /\ Len(Tail(q)) = Len(q) - 1 /\ Len(q) >= 1
      /\ \A i \in 1 .. Len(q) - 1 : Tail(q)[i] = q[i + 1]
      /\ DOMAIN q = 1 .. Len(q) /\ DOMAIN Tail(q) = 1 .. Len(q) - 1
      /\ Len(q) \in Nat
  OBVIOUS
<1>2. Range(q) \subseteq Range(Tail(q)) \cup {Head(q)}
  <2>1. SUFFICES ASSUME NEW i \in DOMAIN q, i # 1 PROVE q[i] \in Range(Tail(q))
    BY <1>1 DEF Range
  <2>2. i - 1 \in 1 .. Len(q) - 1 /\ (i - 1) + 1 = i
    BY <1>1, <2>1
  <2>3. Tail(q)[i - 1] = q[i]
    BY <1>1, <2>2
  <2>. QED
    BY <1>1, <2>2, <2>3 DEF Range
<1>3. Range(Tail(q)) \cup {Head(q)} \subseteq Range(q)
  <2>1. ASSUME NEW i \in DOMAIN Tail(q) PROVE Tail(q)[i] \in Range(q)
    <3>1. Tail(q)[i] = q[i + 1] /\ i + 1 \in DOMAIN q
      BY <1>1
    <3>. QED
      BY <3>1 DEF Range
  <2>2. Head(q) \in Range(q)
    BY <1>1 DEF Range
  <2>. QED
    BY <2>1, <2>2 DEF Range
<1>4. Head(q) \in Range(q)
  BY <1>1 DEF Range
<1>. QED
  BY <1>1, <1>2, <1>3, <1>4

-----------------------------------------------------------------------------
(* What the ledger says of a state *)

LEMMA Basics ==
  ASSUME Ledger
  PROVE  /\ StreamPart /\ ClientPart /\ ServerPart
         /\ ServerOrderly /\ InLine /\ Balanced
         /\ Len(toServer) \in Nat /\ Len(toClient) \in Nat
         /\ Unreported \in {0, 1} /\ Unanswered \in {0, 1} /\ Unread \in Nat
         /\ Owed \in Nat
<1>1. StreamPart /\ ClientPart /\ ServerPart
  BY Parts DEF Ledger
<1>2. Len(toServer) \in Nat /\ Len(toClient) \in Nat
  BY <1>1, LenFacts DEF StreamPart
<1>3. Unreported \in {0, 1} /\ Unanswered \in {0, 1} /\ Unread \in Nat
  BY <1>2 DEF Unreported, Unanswered, Unread
<1>4. Owed \in Nat
  BY <1>2, <1>3 DEF Owed
<1>. QED
  BY <1>1, <1>2, <1>3, <1>4 DEF Ledger

LEMMA LedgerNext ==
  ASSUME Ledger, Next, ServerOrderly', InLine', Balanced'
  PROVE  Ledger'
  BY NextInv DEF Ledger

LEMMA OwedNext ==
  ASSUME Ledger, Next
  PROVE  /\ StreamPart' /\ ClientPart' /\ ServerPart'
         /\ Len(toServer') \in Nat /\ Len(toClient') \in Nat
         /\ Unreported' \in {0, 1} /\ Unanswered' \in {0, 1} /\ Unread' \in Nat
         /\ Owed' = Len(toClient') + Unreported' + Unanswered' + Unread'
<1>1. StreamPart' /\ ClientPart' /\ ServerPart'
  <2>1. Inv'
    BY NextInv DEF Ledger
  <2>. QED
    BY <2>1 DEF Inv, TypeOK, NoThreadOverwritten, AbortAimsAtItsTransfer, StreamPart,
                ClientPart, ServerPart
<1>2. Len(toServer') \in Nat /\ Len(toClient') \in Nat
  BY <1>1, LenFacts DEF StreamPart
<1>3. Unreported' \in {0, 1} /\ Unanswered' \in {0, 1} /\ Unread' \in Nat
  BY <1>2 DEF Unreported, Unanswered, Unread
<1>. QED
  BY <1>1, <1>2, <1>3 DEF Owed

LEMMA AborInRange ==
  AborUnderWay <=> sPc = "abor" \/ \E c \in Range(toServer) : c.verb = "ABOR"
  BY DEF AborUnderWay, Range

\* When the client is owed nothing the server has nothing left to say.
LEMMA NothingOwed ==
  ASSUME Ledger, Owed = 0
  PROVE  /\ toClient = <<>> /\ ~Aborting /\ (Down \/ toServer = <<>>)
         /\ Working => Down /\ sAbort
<1>0. StreamPart /\ ServerPart /\ ServerOrderly
  BY Basics
<1>1. Len(toClient) = 0 /\ Unreported = 0 /\ Unanswered = 0 /\ Unread = 0
  BY Basics DEF Owed
<1>2. toClient = <<>> /\ (Down \/ toServer = <<>>)
  BY <1>0, <1>1, LenFacts DEF StreamPart, Unread
<1>3. AborUnderWay => Down
  <2>1. toServer = <<>> => Range(toServer) = {}
    BY <1>0, LenFacts DEF StreamPart
  <2>. QED
    BY <1>1, <1>2, <2>1, AborInRange DEF Aborting, Unanswered
<1>4. Working => sAbort
  BY <1>0, <1>1, <1>3 DEF Unreported, ServerOrderly
<1>5. Working => Down
  BY <1>0, <1>1, <1>4 DEF ServerPart, Working, Aborting, Down, Unanswered
<1>. QED
  BY <1>1, <1>2, <1>4, <1>5 DEF Unanswered

-----------------------------------------------------------------------------
(* The client: steps that leave the stream alone *)

LEMMA QuietStep ==
  ASSUME Ledger,
         UNCHANGED <<toServer, toClient, serverVars, current, sent, cType, cXfer,
                     cAbort, misread, unpaired>>,
         cPc' # "await", cActive' => cActive,
         AtPrompt' => AtPrompt /\ cMode' \in {cMode, "None"},
         AtPrompt' /\ cActive /\ ~cActive' => Owed = 0
  PROVE  ServerOrderly' /\ InLine' /\ Balanced'
<1>0. ServerOrderly /\ InLine /\ Balanced
  BY Basics
<1>1. ServerOrderly'
  BY <1>0 DEF ServerOrderly, serverVars, Down
<1>2. InLine'
  <2>. SUFFICES ASSUME ~misread' PROVE InLine'
    BY DEF InLine
  <2>0. CommandsInLine /\ HandledInOrder /\ SettingsAgree
    BY <1>0 DEF InLine
  <2>1. CommandsInLine'
    BY <2>0 DEF CommandsInLine
  <2>2. HandledInOrder'
    BY <2>0 DEF HandledInOrder, Handled, serverVars
  <2>3. RepliesHold'
    BY DEF RepliesHold
  <2>4. SettingsAgree'
    BY <2>0 DEF SettingsAgree, serverVars, AtPrompt
  <2>. QED
    BY <2>1, <2>2, <2>3, <2>4 DEF InLine
<1>3. Balanced'
  <2>. SUFFICES ASSUME ~unpaired' PROVE Balanced'
    BY DEF Balanced
  <2>1. Owed' = Owed /\ Aborting' = Aborting
    BY DEF Owed, Unreported, Unanswered, Unread, Working, Aborting, Down,
           AborUnderWay, serverVars
  <2>2. cActive' => AllMine'
    BY <1>0 DEF Balanced, AllMine, Mine, Working, Aborting, Down, serverVars
  <2>. QED
    BY <1>0, <2>1, <2>2, Basics DEF Balanced
<1>. QED
  BY <1>1, <1>2, <1>3

LEMMA QuietLedger ==
  ASSUME Ledger,
         \/ PortFailsLocally \/ TypeAbor \/ JoinWorker \/ Leave \/ Exit \/ Crash
         \/ ClientDataEnds \/ CompletionLost
  PROVE  ServerOrderly' /\ InLine' /\ Balanced'
<1>0. ClientPart /\ ServerPart /\ ServerOrderly
  BY Basics
<1>1. UNCHANGED <<toServer, toClient, serverVars, current, sent, cType, cXfer,
                  cAbort, misread, unpaired>>
  BY DEF PortFailsLocally, TypeAbor, JoinWorker, Leave, Exit, Crash, ClientDataEnds,
         CompletionLost
<1>2. cPc' # "await"
  BY <1>0 DEF ClientPart, ClientInStep, PortFailsLocally, TypeAbor, JoinWorker, Leave,
              Exit, Crash, ClientDataEnds, CompletionLost
<1>3. cActive' => cActive
  BY <1>0 DEF ClientPart, PortFailsLocally, TypeAbor, JoinWorker, Leave, Exit, Crash,
              ClientDataEnds, CompletionLost
<1>4. AtPrompt' => AtPrompt /\ cMode' \in {cMode, "None"}
  BY <1>0 DEF AtPrompt, PortFailsLocally, TypeAbor, JoinWorker, Leave, Exit, Crash,
              ClientDataEnds, CompletionLost
<1>5. AtPrompt' /\ cActive /\ ~cActive' => Owed = 0
  <2>1. CASE CompletionLost
    <3>1. sPc = "closed" /\ Len(toClient) = 0
      BY <1>0, <2>1 DEF CompletionLost, ServerGone, ServerPart
    <3>2. Unreported = 0 /\ Unanswered = 0 /\ Unread = 0
      BY <1>0, <3>1 DEF ServerOrderly, Unreported, Unanswered, Aborting, Unread, Down
    <3>. QED
      BY <3>1, <3>2 DEF Owed
  <2>2. CASE \/ PortFailsLocally \/ TypeAbor \/ JoinWorker \/ Leave \/ Exit \/ Crash
             \/ ClientDataEnds
    BY <1>0, <2>2 DEF ClientPart, ClientInStep, AtPrompt, PortFailsLocally, TypeAbor,
                      JoinWorker, Leave, Exit, Crash, ClientDataEnds
  <2>. QED
    BY <2>1, <2>2
<1>. QED
  BY <1>1, <1>2, <1>3, <1>4, <1>5, QuietStep

-----------------------------------------------------------------------------
(* The client: what it sends *)

\* Numbers of commands and of replies are natural numbers.
LEMMA Numbers ==
  ASSUME Ledger
  PROVE  /\ sent \in Nat
         /\ \A c \in Range(toServer) : c \in Commands /\ c.id \in Nat
         /\ \A r \in Range(toClient) : r \in Replies /\ r.of \in Nat
         /\ sXfer.id \in Nat /\ abor.id \in Nat
         /\ cXfer.id \in Nat /\ current.id \in Nat
<1>0. StreamPart /\ ClientPart /\ ServerPart
  BY Basics
<1>1. sent \in Nat
  BY <1>0, MaxCommandsAssumption DEF ClientPart
<1>2. Range(toServer) \subseteq Commands /\ Range(toClient) \subseteq Replies
  BY <1>0, LenFacts DEF StreamPart
<1>3. \A c \in Commands \cup {None} : c.id \in Nat
  BY MaxCommandsAssumption DEF Commands, None
<1>4. \A r \in Replies : r.of \in Nat
  BY MaxCommandsAssumption DEF Replies
<1>. QED
  BY <1>0, <1>1, <1>2, <1>3, <1>4 DEF ClientPart, ServerPart

LEMMA TypeCommandLedger ==
  ASSUME Ledger, Next, NEW v \in Verbs, TypeCommand(v)
  PROVE  ServerOrderly' /\ InLine' /\ Balanced'
<1>0. StreamPart /\ ClientPart /\ ServerOrderly /\ InLine /\ Balanced
  BY Basics
<1>1. /\ cPc = "prompt" /\ AtPrompt /\ ~cActive
      /\ cPc' = "await" /\ ~AtPrompt' /\ ~cActive'
      /\ toServer' = Append(toServer, Command(v)) /\ sent' = sent + 1
      /\ current' = Command(v) /\ Command(v).id = sent + 1 /\ Command(v).verb = v
      /\ UNCHANGED <<toClient, cType, cAbort, cXfer, misread, serverVars, unpaired>>
  BY DEF TypeCommand, Send, AtPrompt, Command
<1>2. Command(v) \in Commands
  <2>1. v \in AllVerbs /\ sent \in 0 .. MaxCommands /\ sent < MaxCommands
    BY <1>0, VerbsAssumption DEF TypeCommand, Send, ClientPart
  <2>. QED
    BY <2>1, MessageFacts
<1>3. /\ Len(toServer') = Len(toServer) + 1 /\ toServer' # <<>>
      /\ \A i \in 1 .. Len(toServer) : toServer'[i] = toServer[i]
      /\ toServer'[Len(toServer) + 1] = Command(v)
      /\ Range(toServer') = Range(toServer) \cup {Command(v)}
      /\ DOMAIN toServer' = 1 .. Len(toServer) + 1
      /\ \A i \in 1 .. Len(toServer) : toServer[i] \in Range(toServer)
      /\ Len(toServer) \in Nat
  <2>1. Append(toServer, Command(v)) \in Seq(Commands)
    BY <1>0, <1>2, AppendFacts DEF StreamPart
  <2>2. \A i \in 1 .. Len(toServer) : toServer[i] \in Range(toServer)
    BY <1>0, LenFacts DEF Range, StreamPart
  <2>3. /\ Len(toServer') = Len(toServer) + 1 /\ toServer' # <<>>
        /\ \A i \in 1 .. Len(toServer) : toServer'[i] = toServer[i]
        /\ toServer'[Len(toServer) + 1] = Command(v)
        /\ Range(toServer') = Range(toServer) \cup {Command(v)}
    BY <1>0, <1>1, <1>2, AppendFacts DEF StreamPart
  <2>4. DOMAIN toServer' = 1 .. Len(toServer')
    BY <1>1, <2>1
  <2>. QED
    BY <2>2, <2>3, <2>4, Basics
<1>4. ServerOrderly'
  BY <1>0, <1>1 DEF ServerOrderly, serverVars, Down
<1>5. InLine'
  <2>. SUFFICES ASSUME ~misread' PROVE InLine'
    BY DEF InLine
  <2>0. CommandsInLine /\ HandledInOrder /\ SettingsAgree
    BY <1>0, <1>1 DEF InLine
  <2>1. CommandsInLine'
    <3>1. \A c \in Range(toServer) : c.verb = "ABOR" /\ c.id <= sent
      BY <1>1, <2>0 DEF CommandsInLine
    <3>2. \A c \in Range(toServer') : c.id <= sent'
      BY <1>1, <1>3, <3>1, Numbers
    <3>3. ASSUME NEW i \in DOMAIN toServer', i # Len(toServer')
          PROVE  toServer'[i].verb = "ABOR" /\ toServer'[i].id < sent'
      <4>1. i \in 1 .. Len(toServer)
        BY <1>3, <3>3
      <4>2. toServer'[i] \in Range(toServer)
        BY <1>3, <4>1
      <4>. QED
        BY <1>1, <3>1, <4>2, Numbers
    <3>. QED
      BY <1>1, <1>3, <3>2, <3>3 DEF CommandsInLine
  <2>2. HandledInOrder'
    <3>1. \A r \in Range(toClient) : r.of <= sent
      BY <2>0 DEF HandledInOrder, Handled
    <3>2. sXfer.id <= sent /\ abor.id <= sent
      BY <2>0 DEF HandledInOrder, Handled
    <3>3. \A r \in Range(toClient') : Handled(r.of)'
      BY <1>1, <3>1, Numbers DEF Handled
    <3>4. Handled(sXfer.id)' /\ Handled(abor.id)'
      BY <1>1, <3>2, Numbers DEF Handled, serverVars
    <3>5. current'.id = sent' /\ sent' > 0 /\ sXfer'.id # sent' /\ abor'.id # sent'
      BY <1>1, <3>2, Numbers DEF serverVars
    <3>. QED
      BY <1>1, <2>0, <3>3, <3>4, <3>5 DEF HandledInOrder, serverVars
  <2>3. RepliesHold'
    <3>1. \A r \in Range(toClient) : r.of <= sent
      BY <2>0 DEF HandledInOrder, Handled
    <3>2. \A r \in Range(toClient') : r.of # sent'
      BY <1>1, <3>1, Numbers
    <3>. QED
      BY <3>2 DEF RepliesHold
  <2>4. SettingsAgree'
    BY <1>1, <2>0 DEF SettingsAgree, serverVars, TypeCommand
  <2>. QED
    BY <2>1, <2>2, <2>3, <2>4 DEF InLine
<1>6. Balanced'
  <2>. SUFFICES ASSUME ~unpaired' PROVE Balanced'
    BY DEF Balanced
  <2>0. ~misread /\ Owed = 0
    BY <1>0, <1>1 DEF Balanced
  <2>1. /\ toClient = <<>> /\ ~Aborting /\ (Down \/ toServer = <<>>)
        /\ Working => Down /\ sAbort
    BY <2>0, NothingOwed
  <2>2. Owed' <= 1
    <3>1. Len(toClient') = 0
      BY <1>1, <2>1
    <3>2. Unreported' = 0 /\ Unanswered' = 0
      BY <1>1, <2>1 DEF Unreported, Unanswered, Working, Aborting, serverVars
    <3>3. Unread' <= 1
      BY <1>1, <1>3, <2>1 DEF Unread, Down, serverVars
    <3>. QED
      BY <3>1, <3>2, <3>3, OwedNext
  <2>3. AllMine'
    <3>1. Range(toClient') = {}
      BY <1>0, <1>1, <2>1, LenFacts DEF StreamPart
    <3>2. ~Down' => Range(toServer') = {Command(v)}
      <4>1. toServer = <<>> => Range(toServer) = {}
        BY <1>0, LenFacts DEF StreamPart
      <4>. QED
        BY <1>1, <1>3, <2>1, <4>1 DEF Down, serverVars
    <3>3. ~Down' => \A c \in Range(toServer') : Mine(c.id)'
      BY <1>1, <3>2 DEF Mine
    <3>. QED
      BY <1>1, <2>1, <3>1, <3>3 DEF AllMine, Working, Aborting, serverVars
  <2>. QED
    BY <1>1, <2>0, <2>2, <2>3 DEF Balanced
<1>. QED
  BY <1>4, <1>5, <1>6

LEMMA SendAborLedger ==
  ASSUME Ledger, Next, SendAbor
  PROVE  ServerOrderly' /\ InLine' /\ Balanced'
<1>c. PICK c : c = Command("ABOR")
  OBVIOUS
<1>0. StreamPart /\ ClientPart /\ ServerPart /\ ServerOrderly /\ InLine /\ Balanced
  BY Basics
<1>1. /\ cPc = "abor" /\ AtPrompt /\ cPc' = "join" /\ AtPrompt' /\ cAbort'
      /\ toServer' = Append(toServer, c) /\ sent' = sent + 1
      /\ c.id = sent + 1 /\ c.verb = "ABOR"
      /\ UNCHANGED <<toClient, current, cMode, cType, cActive, cXfer, misread,
                     serverVars>>
      /\ unpaired' = (unpaired \/ ~Working)
  BY <1>c DEF SendAbor, Send, AtPrompt, Command, Working
<1>2. c \in Commands
  <2>1. "ABOR" \in AllVerbs /\ sent \in 0 .. MaxCommands /\ sent < MaxCommands
    BY <1>0 DEF SendAbor, Send, ClientPart, AllVerbs
  <2>. QED
    BY <1>c, <2>1, MessageFacts
<1>3. Len(toServer') = Len(toServer) + 1 /\ Range(toServer') = Range(toServer) \cup {c}
  BY <1>0, <1>1, <1>2, AppendFacts DEF StreamPart
<1>4. ServerOrderly'
  BY <1>0, <1>1 DEF ServerOrderly, serverVars, Down
<1>5. InLine'
  <2>. SUFFICES ASSUME ~misread' PROVE InLine'
    BY DEF InLine
  <2>0. CommandsInLine /\ HandledInOrder /\ SettingsAgree
    BY <1>0, <1>1 DEF InLine
  <2>1. CommandsInLine'
    <3>1. \A d \in Range(toServer) : d.verb = "ABOR" /\ d.id <= sent
      BY <1>1, <2>0 DEF CommandsInLine
    <3>2. \A d \in Range(toServer') : d.verb = "ABOR" /\ d.id <= sent'
      BY <1>1, <1>3, <3>1, Numbers
    <3>. QED
      BY <1>1, <3>2 DEF CommandsInLine
  <2>2. HandledInOrder'
    <3>1. \A r \in Range(toClient) : r.of <= sent
      BY <2>0 DEF HandledInOrder, Handled
    <3>2. sXfer.id <= sent /\ abor.id <= sent
      BY <2>0 DEF HandledInOrder, Handled
    <3>3. \A r \in Range(toClient') : Handled(r.of)'
      BY <1>1, <3>1, Numbers DEF Handled
    <3>4. Handled(sXfer.id)' /\ Handled(abor.id)'
      BY <1>1, <3>2, Numbers DEF Handled, serverVars
    <3>. QED
      BY <1>1, <2>0, <3>3, <3>4 DEF HandledInOrder, serverVars
  <2>3. RepliesHold'
    BY <1>1 DEF RepliesHold
  <2>4. SettingsAgree'
    BY <1>1, <2>0 DEF SettingsAgree, serverVars
  <2>. QED
    BY <2>1, <2>2, <2>3, <2>4 DEF InLine
<1>6. Balanced'
  <2>. SUFFICES ASSUME ~unpaired' PROVE Balanced'
    BY DEF Balanced
  <2>0. ~misread /\ Working /\ ~unpaired
    BY <1>0, <1>1 DEF Balanced
  <2>1. ASSUME Down
        PROVE  Unread' = 0 /\ Unread = 0 /\ Unreported' = 0 /\ Unanswered' = 0
    BY <1>0, <1>1, <2>1
       DEF Unread, Unreported, Unanswered, Down, Aborting, ServerOrderly, serverVars
  <2>2. CASE ~cActive
    <3>1. Owed = 0
      BY <1>0, <1>1, <2>0, <2>2 DEF Balanced
    <3>2. toClient' = <<>> /\ Down
      BY <1>1, <2>0, <3>1, NothingOwed
    <3>3. Len(toClient') = 0
      BY <3>2
    <3>4. Owed' = 0
      BY <2>1, <3>2, <3>3, OwedNext
    <3>. QED
      BY <1>1, <2>0, <2>2, <3>4 DEF Balanced
  <2>3. CASE cActive
    <3>0. Owed <= 1 /\ AllMine
      BY <1>0, <1>1, <2>0, <2>3 DEF Balanced
    <3>1. ~cAbort
      BY <1>0, <1>1, <2>3 DEF ClientPart, ClientInStep
    <3>2. toServer = <<>> /\ ~Aborting /\ cXfer.id = sent
      BY <1>0, <2>0, <2>3, <3>0, <3>1 DEF Balanced, AllMine
    <3>3. Owed' <= 1
      <4>1. CASE Down
        <5>1. Owed' = Len(toClient) /\ Len(toClient) <= 1
          BY <1>1, <2>1, <3>0, <4>1, OwedNext, Basics DEF Owed
        <5>. QED
          BY <5>1
      <4>2. CASE ~Down
        <5>1. ~sAbort
          BY <1>0, <2>0, <3>2, <4>2 DEF ServerPart, Working, Aborting, Down
        <5>2. ~AborUnderWay
          <6>1. Range(toServer) = {}
            BY <1>0, <3>2, LenFacts DEF StreamPart
          <6>. QED
            BY <3>2, <6>1, AborInRange DEF Aborting
        <5>3. Unreported = 1
          BY <2>0, <5>1, <5>2 DEF Unreported
        <5>4. Len(toClient') = 0
          BY <1>1, <3>0, <5>3, Basics DEF Owed
        <5>5. Unanswered' = 0
          BY <1>1, <3>2 DEF Unanswered, Aborting, serverVars
        <5>6. Len(toServer') = 1
          BY <1>0, <1>3, <3>2, LenFacts DEF StreamPart
        <5>7. Unread' = 1
          BY <1>1, <4>2, <5>6 DEF Unread, Down, serverVars
        <5>8. AborUnderWay'
          <6>1. toServer' = <<c>>
            BY <1>1, <3>2
          <6>2. 1 \in DOMAIN toServer' /\ toServer'[1].verb = "ABOR"
            BY <1>1, <6>1
          <6>. QED
            BY <6>2 DEF AborUnderWay
        <5>9. Unreported' = 0
          BY <5>8 DEF Unreported
        <5>. QED
          BY <5>4, <5>5, <5>7, <5>9, OwedNext
      <4>. QED
        BY <4>1, <4>2
    <3>4. AllMine'
      <4>1. \A id : Mine(id) => Mine(id)'
        BY <1>1, <2>3, <3>1, <3>2 DEF Mine
      <4>2. Mine(c.id)'
        BY <1>1 DEF Mine
      <4>3. \A r \in Range(toClient') : Mine(r.of)'
        BY <1>1, <3>0, <4>1 DEF AllMine
      <4>4. ~Down' => \A d \in Range(toServer') : Mine(d.id)'
        BY <1>1, <1>3, <3>0, <4>1, <4>2 DEF AllMine, Down, serverVars
      <4>5. Working' /\ ~sAbort' => Mine(sXfer.id)'
        BY <1>1, <3>0, <4>1 DEF AllMine, Working, serverVars, Mine
      <4>. QED
        BY <1>1, <3>2, <4>3, <4>4, <4>5 DEF AllMine, Aborting, serverVars
    <3>. QED
      BY <1>1, <2>0, <2>3, <3>3, <3>4 DEF Balanced
  <2>. QED
    BY <1>0, <2>2, <2>3 DEF ClientPart
<1>. QED
  BY <1>4, <1>5, <1>6

LEMMA AbortOnLeaveLedger ==
  ASSUME Ledger, Next, AbortOnLeave
  PROVE  ServerOrderly' /\ InLine' /\ Balanced'
<1>c. PICK c : c = [verb |-> "ABOR", id |-> sent]
  OBVIOUS
<1>0. StreamPart /\ ClientPart /\ ServerOrderly /\ InLine /\ Balanced
  BY Basics
<1>1. /\ cPc = "leave" /\ ~AtPrompt /\ cPc' = "leave" /\ ~AtPrompt'
      /\ cActive /\ cAbort'
      /\ toServer' = Append(toServer, c) /\ c.id = sent /\ c.verb = "ABOR"
      /\ UNCHANGED <<toClient, current, sent, cMode, cType, cActive, cXfer, misread,
                     serverVars, unpaired>>
  BY <1>c DEF AbortOnLeave, AtPrompt
<1>2. c \in Commands
  BY <1>0, <1>c, MessageFacts DEF ClientPart, AllVerbs
<1>3. Range(toServer') = Range(toServer) \cup {c}
  BY <1>0, <1>1, <1>2, AppendFacts DEF StreamPart
<1>4. ServerOrderly'
  BY <1>0, <1>1 DEF ServerOrderly, serverVars, Down
<1>5. InLine'
  <2>. SUFFICES ASSUME ~misread' PROVE InLine'
    BY DEF InLine
  <2>0. CommandsInLine /\ HandledInOrder /\ SettingsAgree
    BY <1>0, <1>1 DEF InLine
  <2>1. CommandsInLine'
    BY <1>1, <1>3, <2>0, Numbers DEF CommandsInLine
  <2>2. HandledInOrder'
    BY <1>1, <2>0 DEF HandledInOrder, Handled, serverVars
  <2>3. RepliesHold'
    BY <1>1 DEF RepliesHold
  <2>4. SettingsAgree'
    BY <1>1, <2>0 DEF SettingsAgree, serverVars
  <2>. QED
    BY <2>1, <2>2, <2>3, <2>4 DEF InLine
<1>6. Balanced'
  <2>. SUFFICES ASSUME ~unpaired' PROVE Balanced'
    BY DEF Balanced
  <2>0. ~misread /\ AllMine
    BY <1>0, <1>1 DEF Balanced
  <2>1. \A id : Mine(id) => Mine(id)'
    BY <1>1 DEF Mine
  <2>2. Mine(c.id)'
    BY <1>1 DEF Mine
  <2>3. AllMine'
    BY <1>1, <1>3, <2>0, <2>1, <2>2
       DEF AllMine, Down, Working, Aborting, Mine, serverVars
  <2>. QED
    BY <1>1, <2>0, <2>3 DEF Balanced
<1>. QED
  BY <1>4, <1>5, <1>6

-----------------------------------------------------------------------------
(* The client: what it reads *)

\* A reply is taken from the stream, by either thread.
LEMMA TakeFacts ==
  ASSUME Ledger, Next, toClient # <<>>, Take, UNCHANGED <<toServer, serverVars>>
  PROVE  /\ Len(toClient') = Len(toClient) - 1
         /\ Range(toClient') \subseteq Range(toClient)
         /\ Head(toClient) \in Range(toClient)
         /\ Owed' = Owed - 1 /\ Owed >= 1
<1>0. StreamPart
  BY Basics
<1>1. /\ Len(toClient') = Len(toClient) - 1 /\ Len(toClient) >= 1
      /\ Range(toClient') \subseteq Range(toClient)
      /\ Head(toClient) \in Range(toClient)
  BY <1>0, TailFacts DEF StreamPart, Take
<1>2. Unreported' = Unreported /\ Unanswered' = Unanswered /\ Unread' = Unread
  BY DEF Unreported, Unanswered, Unread, Working, Aborting, Down, AborUnderWay,
         serverVars
<1>. QED
  BY <1>1, <1>2, Basics, OwedNext DEF Owed

\* The main thread reads a reply: if it is its own, then nothing is under way to
\* the server and what it says is true; and it is, unless something is unpaired.
LEMMA ReadFacts ==
  ASSUME Ledger, cPc = "await", toClient # <<>>, Misread(current)
  PROVE  /\ ~unpaired => ~misread' /\ AllMine
         /\ ~misread' => /\ ~misread /\ toServer = <<>> /\ Range(toServer) = {}
                         /\ ReplyHolds(Head(toClient))
<1>0. StreamPart /\ ClientPart /\ InLine /\ Balanced
  BY Basics
<1>1. Head(toClient) \in Range(toClient)
  BY <1>0, TailFacts DEF StreamPart
<1>2. misread' = (misread \/ Head(toClient).of # current.id)
  BY DEF Misread
<1>3. ASSUME ~unpaired PROVE ~misread' /\ AllMine
  <2>1. ~misread /\ AllMine /\ ~cActive
    BY <1>0, <1>3 DEF Balanced, ClientPart, ClientInStep
  <2>2. Mine(Head(toClient).of)
    BY <1>1, <2>1 DEF AllMine
  <2>3. current.id = sent
    BY <1>0, <2>1 DEF InLine, HandledInOrder
  <2>. QED
    BY <1>2, <2>1, <2>2, <2>3 DEF Mine
<1>4. ASSUME ~misread' PROVE ~misread /\ toServer = <<>> /\ ReplyHolds(Head(toClient))
  <2>1. ~misread /\ Head(toClient).of = current.id
    BY <1>2, <1>4
  <2>2. HandledInOrder /\ RepliesHold
    BY <1>0, <2>1 DEF InLine
  <2>3. Head(toClient).of = sent /\ sent \in Nat
    BY <2>1, <2>2, Numbers DEF HandledInOrder
  <2>4. Handled(Head(toClient).of)
    BY <1>1, <2>2 DEF HandledInOrder
  <2>5. toServer = <<>>
    BY <2>3, <2>4 DEF Handled
  <2>. QED
    BY <1>1, <2>1, <2>2, <2>3, <2>5 DEF RepliesHold
<1>5. toServer = <<>> => Range(toServer) = {}
  BY <1>0, LenFacts DEF StreamPart
<1>. QED
  BY <1>3, <1>4, <1>5

\* The settings of both ends after the main thread has read its reply.
LEMMA ReadSettings ==
  ASSUME Ledger, ~misread, ~misread', ReplyHolds(Head(toClient)), toServer = <<>>,
         ReadReply \/ ReadRefusal \/ StartTransfer \/ StartTransferFails
  PROVE  SettingsAgree'
<1>0. ClientPart /\ SettingsAgree
  BY Basics DEF InLine
<1>1. cPc = "await" /\ ~cActive /\ cPc' # "await" /\ UNCHANGED serverVars
  BY <1>0 DEF ClientPart, ClientInStep, ReadReply, ReadRefusal, StartTransfer,
              StartTransferFails
<1>2. CASE ReadReply
  <2>1. cType' = sType
    <3>1. cType' = TypeAfter(Head(toClient).code)
      BY <1>2 DEF ReadReply
    <3>2. CASE current.verb \in DOMAIN TypeOf
      BY <3>1, <3>2 DEF ReplyHolds
    <3>3. CASE current.verb \notin DOMAIN TypeOf
      BY <1>0, <1>1, <3>1, <3>3 DEF TypeAfter, SettingsAgree
    <3>. QED
      BY <3>2, <3>3
  <2>2. cMode' = "None" \/ sMode = "None" \/ cMode' = sMode
    <3>1. cMode = "None" \/ sMode = "None" \/ cMode = sMode
      BY <1>0, <1>1 DEF SettingsAgree
    <3>2. CASE current.verb = "PASV"
      BY <1>2, <3>1, <3>2 DEF ReadReply, ReplyHolds
    <3>3. CASE current.verb = "PORT"
      BY <1>2, <3>1, <3>3 DEF ReadReply, ReplyHolds
    <3>4. CASE current.verb \notin {"PASV", "PORT"}
      BY <1>2, <3>1, <3>4 DEF ReadReply
    <3>. QED
      BY <3>2, <3>3, <3>4
  <2>3. ~cActive'
    BY <1>1, <1>2 DEF ReadReply
  <2>. QED
    BY <1>1, <2>1, <2>2, <2>3 DEF SettingsAgree, serverVars
<1>3. CASE ReadRefusal \/ StartTransfer \/ StartTransferFails
  <2>1. current.verb = "XFER" /\ cMode' = "None" /\ cType' = cType
    BY <1>3 DEF ReadRefusal, StartTransfer, StartTransferFails
  <2>2. cType' = sType
    <3>1. current.verb \notin DOMAIN TypeOf
      BY <2>1 DEF TypeOf
    <3>. QED
      BY <1>0, <1>1, <2>1, <3>1 DEF SettingsAgree
  <2>3. cActive' => cXfer' = sXfer
    BY <1>1, <1>3 DEF ReadRefusal, StartTransfer, StartTransferFails, ReplyHolds
  <2>. QED
    BY <1>1, <2>1, <2>2, <2>3 DEF SettingsAgree, serverVars
<1>. QED
  BY <1>2, <1>3

LEMMA ReadLedger ==
  ASSUME Ledger, Next, ReadReply \/ ReadRefusal \/ StartTransfer \/ StartTransferFails
  PROVE  ServerOrderly' /\ InLine' /\ Balanced'
<1>0. StreamPart /\ ClientPart /\ ServerOrderly /\ InLine /\ Balanced
  BY Basics
<1>1. /\ cPc = "await" /\ ~cActive /\ toClient # <<>> /\ Take /\ Misread(current)
      /\ UNCHANGED <<toServer, current, sent, serverVars>>
      /\ cPc' \in {"prompt", "leave", "terminated"}
  BY <1>0 DEF ClientPart, ClientInStep, ReadReply, ReadRefusal, StartTransfer,
              StartTransferFails
<1>2. /\ Range(toClient') \subseteq Range(toClient) /\ Owed' = Owed - 1 /\ Owed >= 1
  BY <1>1, TakeFacts
<1>3. ServerOrderly'
  BY <1>0, <1>1 DEF ServerOrderly, serverVars, Down
<1>4. InLine'
  <2>. SUFFICES ASSUME ~misread' PROVE InLine'
    BY DEF InLine
  <2>0. /\ ~misread /\ toServer = <<>> /\ Range(toServer) = {}
        /\ ReplyHolds(Head(toClient))
    BY <1>1, ReadFacts
  <2>1. CommandsInLine'
    BY <1>1, <2>0 DEF CommandsInLine
  <2>2. HandledInOrder'
    <3>1. HandledInOrder
      BY <1>0, <2>0 DEF InLine
    <3>. QED
      BY <1>1, <1>2, <3>1 DEF HandledInOrder, Handled, serverVars
  <2>3. RepliesHold'
    BY <1>1 DEF RepliesHold
  <2>4. SettingsAgree'
    BY <2>0, ReadSettings
  <2>. QED
    BY <2>1, <2>2, <2>3, <2>4 DEF InLine
<1>5. Balanced'
  <2>. SUFFICES ASSUME ~unpaired' PROVE Balanced'
    BY DEF Balanced
  <2>0. ~unpaired
    BY <1>0 DEF ReadReply, ReadRefusal, StartTransfer, StartTransferFails
  <2>1. ~misread' /\ ~misread /\ AllMine /\ toServer = <<>>
    BY <1>1, <2>0, ReadFacts
  <2>2. CASE ReadReply \/ ReadRefusal
    <3>1. Owed <= 1
      BY <1>0, <1>1, <2>0, <2>2 DEF Balanced, ReadReply, ReadRefusal
    <3>2. Owed' = 0
      BY <1>2, <3>1, Basics
    <3>3. ~cActive' /\ cPc' # "await"
      BY <1>1, <2>2 DEF ReadReply, ReadRefusal
    <3>. QED
      BY <2>1, <3>2, <3>3 DEF Balanced
  <2>3. CASE StartTransfer
    <3>1. Owed' <= 1
      <4>1. Owed <= 2
        BY <1>0, <1>1, <2>0, Basics DEF Balanced
      <4>. QED
        BY <1>2, <4>1, Basics
    <3>2. /\ cXfer' = current /\ cActive' /\ ~cAbort' /\ cPc' # "await"
          /\ current.verb = "XFER"
      BY <1>1, <2>3 DEF StartTransfer
    <3>3. HandledInOrder
      BY <1>0, <2>1 DEF InLine
    <3>4. current.id = sent
      BY <1>1, <3>3 DEF HandledInOrder
    <3>5. ~Aborting
      <4>1. SUFFICES ASSUME Aborting PROVE FALSE
        OBVIOUS
      <4>2. abor.id = sent
        BY <1>1, <2>1, <4>1 DEF AllMine, Mine
      <4>3. abor = current /\ sent > 0
        BY <1>1, <3>3, <4>2 DEF HandledInOrder
      <4>4. abor = None \/ abor.verb = "ABOR"
        BY <3>3 DEF HandledInOrder
      <4>. QED
        BY <3>2, <4>3, <4>4 DEF None
    <3>6. \A id : Mine(id) => Mine(id)'
      BY <1>1 DEF Mine
    <3>7. AllMine'
      <4>1. \A r \in Range(toClient') : Mine(r.of)'
        BY <1>2, <2>1, <3>6 DEF AllMine
      <4>2. \A c \in Range(toServer') : Mine(c.id)'
        BY <1>0, <1>1, <2>1, LenFacts DEF StreamPart
      <4>3. Working' /\ ~sAbort' => Mine(sXfer.id)'
        BY <1>1, <2>1 DEF AllMine, Working, Mine, serverVars
      <4>. QED
        BY <1>1, <3>2, <3>4, <3>5, <4>1, <4>2, <4>3 DEF AllMine, Aborting, serverVars
    <3>. QED
      BY <1>1, <2>1, <3>1, <3>2, <3>5, <3>7 DEF Balanced, Aborting, serverVars
  <2>. QED
    BY <2>2, <2>3 DEF StartTransferFails
<1>. QED
  BY <1>3, <1>4, <1>5

LEMMA CompletionLedger ==
  ASSUME Ledger, Next, ReadCompletion
  PROVE  ServerOrderly' /\ InLine' /\ Balanced'
<1>0. StreamPart /\ ClientPart /\ ServerOrderly /\ InLine /\ Balanced
  BY Basics
<1>1. /\ cActive /\ ~cActive' /\ cPc # "await" /\ toClient # <<>> /\ Take
      /\ UNCHANGED <<toServer, cPc, current, sent, cMode, cType, cAbort, cXfer,
                     serverVars, unpaired>>
  BY <1>0 DEF ReadCompletion, ClientPart, ClientInStep
<1>2. /\ Range(toClient') \subseteq Range(toClient) /\ Owed' = Owed - 1 /\ Owed >= 1
      /\ Head(toClient) \in Range(toClient)
  BY <1>1, TakeFacts
<1>3. misread' = (misread \/ Head(toClient).of \notin
                              {cXfer.id} \cup (IF cAbort THEN {sent} ELSE {}))
  BY DEF ReadCompletion
<1>4. ServerOrderly'
  BY <1>0, <1>1 DEF ServerOrderly, serverVars, Down
<1>5. InLine'
  <2>. SUFFICES ASSUME ~misread' PROVE InLine'
    BY DEF InLine
  <2>0. CommandsInLine /\ HandledInOrder /\ SettingsAgree
    BY <1>0, <1>3 DEF InLine
  <2>1. CommandsInLine'
    BY <1>1, <2>0 DEF CommandsInLine, AtPrompt
  <2>2. HandledInOrder'
    BY <1>1, <1>2, <2>0 DEF HandledInOrder, Handled, serverVars
  <2>3. RepliesHold'
    BY <1>1 DEF RepliesHold
  <2>4. SettingsAgree'
    BY <1>1, <2>0 DEF SettingsAgree, AtPrompt, serverVars
  <2>. QED
    BY <2>1, <2>2, <2>3, <2>4 DEF InLine
<1>6. Balanced'
  <2>. SUFFICES ASSUME ~unpaired' PROVE Balanced'
    BY DEF Balanced
  <2>1. ~misread /\ AllMine /\ (AtPrompt => Owed <= 1)
    BY <1>0, <1>1 DEF Balanced
  <2>2. ~misread'
    <3>1. Mine(Head(toClient).of) /\ (~cAbort => cXfer.id = sent)
      BY <1>1, <1>2, <2>1 DEF AllMine
    <3>. QED
      BY <1>1, <1>3, <2>1, <3>1 DEF Mine
  <2>3. AtPrompt' => Owed' = 0
    BY <1>1, <1>2, <2>1, Basics DEF AtPrompt
  <2>. QED
    BY <1>1, <2>2, <2>3 DEF Balanced
<1>. QED
  BY <1>4, <1>5, <1>6

-----------------------------------------------------------------------------
(* The server: commands that it reads *)

\* The control thread takes a command from the stream.
LEMMA PopFacts ==
  ASSUME Ledger, Reading, toServer' = Tail(toServer)
  PROVE  /\ Received \in Range(toServer) /\ Received \in Commands
         /\ Range(toServer) = Range(toServer') \cup {Received}
         /\ Len(toServer') = Len(toServer) - 1
         /\ toServer' = <<>> <=> Len(toServer) = 1
<1>0. StreamPart /\ toServer # <<>>
  BY Basics DEF Reading
<1>1. /\ Received \in Range(toServer) /\ Received \in Commands
      /\ Range(toServer) = Range(toServer') \cup {Received}
      /\ Len(toServer') = Len(toServer) - 1 /\ toServer' \in Seq(Commands)
  BY <1>0, TailFacts DEF StreamPart, Received
<1>2. toServer' = <<>> <=> Len(toServer') = 0
  BY <1>1, LenFacts
<1>. QED
  BY <1>1, <1>2, Basics

\* The commands that are left are in line, and so is the one that was taken.
LEMMA PopInLine ==
  ASSUME Ledger, ~misread, Reading, toServer' = Tail(toServer), UNCHANGED clientVars,
         NEW c, c = Received
  PROVE  /\ CommandsInLine'
         /\ Handled(c.id)'
         /\ \A r \in Range(toClient) : Handled(r.of)' /\ (cPc = "await" => r.of # sent)
         /\ sXfer.id <= sent /\ abor.id <= sent
         /\ cPc = "await" => sXfer.id < sent /\ abor.id < sent
         /\ AtPrompt \/ cActive => c.verb = "ABOR"
         /\ cPc = "await" => \/ toServer' = <<>> /\ c = current
                             \/ toServer' # <<>> /\ c.verb = "ABOR" /\ c.id # sent
<1>0. StreamPart /\ ClientPart /\ CommandsInLine /\ HandledInOrder /\ toServer # <<>>
  BY Basics DEF InLine, Reading
<1>1. /\ c \in Range(toServer) /\ c = toServer[1] /\ 1 \in DOMAIN toServer
      /\ Range(toServer') \subseteq Range(toServer)
      /\ Len(toServer') = Len(toServer) - 1 /\ Len(toServer) >= 1
      /\ Len(toServer) \in Nat /\ DOMAIN toServer = 1 .. Len(toServer)
      /\ DOMAIN toServer' = 1 .. Len(toServer) - 1
      /\ \A i \in 1 .. Len(toServer) - 1 : toServer'[i] = toServer[i + 1]
  <2>1. Tail(toServer) \in Seq(Commands)
    BY <1>0, TailFacts DEF StreamPart
  <2>2. DOMAIN toServer' = 1 .. Len(toServer') /\ DOMAIN toServer = 1 .. Len(toServer)
    BY <1>0, <2>1, LenFacts DEF StreamPart
  <2>. QED
    BY <1>0, <2>2, TailFacts, PopFacts, Basics DEF StreamPart, Received
<1>2. cPc = "await" => \/ toServer' = <<>> /\ c = current
                       \/ toServer' # <<>> /\ c.verb = "ABOR" /\ c.id < sent
  BY <1>0, <1>1, PopFacts DEF CommandsInLine
<1>3. CommandsInLine'
  <2>1. \A d \in Range(toServer') : d.id <= sent'
    BY <1>0, <1>1 DEF CommandsInLine, clientVars
  <2>2. (AtPrompt \/ cActive)' => \A d \in Range(toServer') : d.verb = "ABOR"
    BY <1>0, <1>1 DEF CommandsInLine, clientVars, AtPrompt
  <2>3. ASSUME cPc' = "await", NEW i \in DOMAIN toServer'
        PROVE  IF i = Len(toServer') THEN toServer'[i] = current'
               ELSE toServer'[i].verb = "ABOR" /\ toServer'[i].id < sent'
    <3>1. /\ i + 1 \in DOMAIN toServer /\ toServer'[i] = toServer[i + 1]
          /\ i + 1 = Len(toServer) <=> i = Len(toServer')
      BY <1>1, <2>3
    <3>. QED
      BY <1>0, <2>3, <3>1 DEF CommandsInLine, clientVars
  <2>. QED
    BY <2>1, <2>2, <2>3 DEF CommandsInLine
<1>4. Handled(c.id)'
  BY <1>0, <1>1, <1>2 DEF CommandsInLine, Handled, clientVars
<1>5. /\ \A r \in Range(toClient) : r.of <= sent /\ (cPc = "await" => r.of < sent)
      /\ sXfer.id <= sent /\ abor.id <= sent
      /\ cPc = "await" => sXfer.id < sent /\ abor.id < sent
  BY <1>0 DEF HandledInOrder, Handled
<1>6. \A r \in Range(toClient) : Handled(r.of)' /\ (cPc = "await" => r.of # sent)
  BY <1>5, Numbers DEF Handled, clientVars
<1>7. AtPrompt \/ cActive => c.verb = "ABOR"
  BY <1>0, <1>1 DEF CommandsInLine
<1>8. cPc = "await" => \/ toServer' = <<>> /\ c = current
                       \/ toServer' # <<>> /\ c.verb = "ABOR" /\ c.id # sent
  BY <1>1, <1>2, Numbers
<1>. QED
  BY <1>3, <1>4, <1>5, <1>6, <1>7, <1>8

\* What the handlers that give one reply have in common.
Answered(code) ==
  /\ Reading /\ Answer(code) /\ code \in Codes \ {"150"}
  /\ UNCHANGED <<clientVars, abor, sActive, sXfer, unpaired>>
  /\ (sPc' = "recv" /\ sAbort' = sAbort) \/ (sPc' = "closed" /\ sAbort')
  /\ sActive => sAuth' = sAuth
  /\ Working' => Working /\ Received.verb # "ABOR"
  /\ sType' = IF Received.verb \in DOMAIN TypeOf /\ code \in PositiveCodes
              THEN TypeOf[Received.verb] ELSE sType
  /\ \/ sMode' \in {sMode, "None"}
     \/ Received.verb = "PASV" /\ sMode' = "Passive"
     \/ Received.verb = "PORT" /\ sMode' = "Active"
  /\ Received.verb = "PASV" /\ code = "227" => sMode' = "Passive"
  /\ Received.verb = "PORT" /\ code = "200" => sMode' = "Active"

\* One reply for one command: nothing is owed that was not owed before.
LEMMA AnsweredStreams ==
  ASSUME Ledger, Next, NEW code, Answered(code), NEW c, c = Received
  PROVE  /\ toServer' = Tail(toServer) /\ Reading
         /\ Reply(code, c) = [code |-> code, of |-> c.id]
         /\ Range(toClient') = Range(toClient) \cup {Reply(code, c)}
         /\ toClient # <<>> => toClient' # <<>> /\ Head(toClient') = Head(toClient)
         /\ Owed' <= Owed
<1>0. StreamPart /\ ServerPart
  BY Basics
<1>1. /\ Reading /\ toServer' = Tail(toServer) /\ sPc = "recv"
      /\ toClient' = Append(toClient, Reply(code, c)) /\ code \in Codes
  BY DEF Answered, Answer, Reading
<1>2. Reply(code, c) \in Replies
  BY <1>1, PopFacts, MessageFacts
<1>3. /\ Len(toClient') = Len(toClient) + 1 /\ toClient' # <<>>
      /\ Range(toClient') = Range(toClient) \cup {Reply(code, c)}
      /\ Head(toClient') = IF toClient = <<>> THEN Reply(code, c) ELSE Head(toClient)
  BY <1>0, <1>1, <1>2, AppendFacts DEF StreamPart
<1>4. Unanswered' = 0 /\ Unanswered = 0
  BY <1>1 DEF Unanswered, Aborting, Answered
<1>5. Unread' <= Unread - 1
  <2>1. Unread = Len(toServer) /\ Len(toServer') = Len(toServer) - 1
    BY <1>1, PopFacts DEF Unread, Down
  <2>. QED
    BY <2>1, OwedNext, Basics DEF Unread
<1>6. Unreported' <= Unreported
  <2>1. ASSUME Working', ~sAbort', ~AborUnderWay' PROVE Unreported = 1
    <3>1. Working /\ ~sAbort /\ Received.verb # "ABOR" /\ sPc' = "recv"
      BY <2>1 DEF Answered
    <3>2. Range(toServer) = Range(toServer') \cup {Received}
      BY <1>1, PopFacts
    <3>3. \A d \in Range(toServer') : d.verb # "ABOR"
      BY <2>1 DEF AborUnderWay, Range
    <3>4. ~AborUnderWay
      BY <1>1, <3>1, <3>2, <3>3, AborInRange
    <3>. QED
      BY <3>1, <3>4 DEF Unreported
  <2>2. CASE Working' /\ ~sAbort' /\ ~AborUnderWay'
    BY <2>1, <2>2, OwedNext
  <2>3. CASE ~(Working' /\ ~sAbort' /\ ~AborUnderWay')
    <3>1. Unreported' = 0
      BY <2>3 DEF Unreported
    <3>. QED
      BY <3>1, Basics
  <2>. QED
    BY <2>2, <2>3
<1>7. Owed' <= Owed
  BY <1>3, <1>4, <1>5, <1>6, OwedNext, Basics DEF Owed
<1>. QED
  BY <1>1, <1>3, <1>7 DEF Reply

LEMMA AnsweredLedger ==
  ASSUME Ledger, Next, NEW code, Answered(code)
  PROVE  ServerOrderly' /\ InLine' /\ Balanced'
<1>c. PICK c : c = Received
  OBVIOUS
<1>0. StreamPart /\ ClientPart /\ ServerPart /\ ServerOrderly /\ InLine /\ Balanced
  BY Basics
<1>1. /\ toServer' = Tail(toServer) /\ Reading /\ toServer # <<>>
      /\ sPc = "recv" /\ ~Down
      /\ Range(toClient') = Range(toClient) \cup {Reply(code, c)}
      /\ toClient # <<>> => toClient' # <<>> /\ Head(toClient') = Head(toClient)
      /\ Owed' <= Owed /\ Reply(code, c) = [code |-> code, of |-> c.id]
  BY <1>c, AnsweredStreams DEF Reading, Down
<1>2. /\ UNCHANGED <<clientVars, abor, sActive, sXfer, unpaired>> /\ code # "150"
      /\ (sPc' = "recv" /\ sAbort' = sAbort) \/ (sPc' = "closed" /\ sAbort')
      /\ Working' => Working
  BY DEF Answered
<1>3. /\ sType' = IF c.verb \in DOMAIN TypeOf /\ code \in PositiveCodes
                  THEN TypeOf[c.verb] ELSE sType
      /\ \/ sMode' \in {sMode, "None"}
         \/ c.verb = "PASV" /\ sMode' = "Passive"
         \/ c.verb = "PORT" /\ sMode' = "Active"
      /\ c.verb = "PASV" /\ code = "227" => sMode' = "Passive"
      /\ c.verb = "PORT" /\ code = "200" => sMode' = "Active"
  BY <1>c DEF Answered
<1>4. ServerOrderly'
  <2>1. sActive' => sAuth'
    BY <1>0 DEF ServerOrderly, Answered, ServerPart
  <2>. QED
    BY <1>2, <2>1 DEF ServerOrderly, Down
<1>5. InLine'
  <2>. SUFFICES ASSUME ~misread' PROVE InLine'
    BY DEF InLine
  <2>0. /\ ~misread /\ HandledInOrder /\ SettingsAgree
        /\ UNCHANGED <<cPc, current, sent, cMode, cType, cActive, cXfer, AtPrompt>>
    BY <1>0, <1>2 DEF InLine, clientVars, AtPrompt
  <2>1. /\ CommandsInLine' /\ Handled(c.id)'
        /\ \A r \in Range(toClient) : Handled(r.of)' /\ (cPc = "await" => r.of # sent)
        /\ sXfer.id <= sent /\ abor.id <= sent
        /\ cPc = "await" => sXfer.id < sent /\ abor.id < sent
        /\ AtPrompt \/ cActive => c.verb = "ABOR"
        /\ cPc = "await" => \/ toServer' = <<>> /\ c = current
                            \/ toServer' # <<>> /\ c.verb = "ABOR" /\ c.id # sent
    BY <1>1, <1>2, <1>c, <2>0, PopInLine
  <2>2. HandledInOrder'
    <3>1. \A r \in Range(toClient') : Handled(r.of)'
      BY <1>1, <2>1
    <3>2. Handled(sXfer.id)' /\ Handled(abor.id)'
      BY <1>2, <2>0, <2>1 DEF Handled
    <3>3. (cPc = "await" => current.id = sent /\ sent > 0 /\ sXfer.id # sent
                            /\ abor.id # sent)'
      BY <1>2, <2>0, <2>1, Numbers DEF HandledInOrder
    <3>. QED
      BY <1>2, <2>0, <3>1, <3>2, <3>3 DEF HandledInOrder
  <2>3. "ABOR" \notin DOMAIN TypeOf /\ "PASV" \notin DOMAIN TypeOf
        /\ "PORT" \notin DOMAIN TypeOf
    BY DEF TypeOf
  <2>4. RepliesHold'
    <3>1. SUFFICES ASSUME cPc = "await", NEW r \in Range(toClient'), r.of = sent
                   PROVE  ReplyHolds(r)'
      BY <2>0 DEF RepliesHold
    <3>2. r = Reply(code, c)
      BY <1>1, <2>1, <3>1
    <3>3. r.code = code /\ c.id = sent
      BY <1>1, <3>1, <3>2
    <3>4. c = current /\ cType = sType
      BY <1>1, <2>0, <2>1, <3>1, <3>3 DEF SettingsAgree
    <3>5. current.verb \in DOMAIN TypeOf => sType' = TypeAfter(code)'
      BY <1>3, <2>0, <3>4 DEF TypeAfter
    <3>. QED
      BY <1>2, <1>3, <2>0, <3>3, <3>4, <3>5 DEF ReplyHolds
  <2>5. SettingsAgree'
    <3>1. c.verb = "ABOR" => sType' = sType /\ sMode' \in {sMode, "None"}
      BY <1>3, <2>3
    <3>2. (AtPrompt \/ cActive => cType = sType)'
      BY <2>0, <2>1, <3>1 DEF SettingsAgree
    <3>3. (cPc = "await" /\ (toServer # <<>> \/ current.verb \notin DOMAIN TypeOf)
             => cType = sType)'
      <4>1. CASE c.verb = "ABOR"
        BY <1>1, <2>0, <3>1, <4>1 DEF SettingsAgree
      <4>2. CASE c.verb # "ABOR"
        BY <1>1, <1>3, <2>0, <2>1, <4>2 DEF SettingsAgree
      <4>. QED
        BY <4>1, <4>2
    <3>4. (AtPrompt \/ cPc = "await"
             => cMode = "None" \/ sMode = "None" \/ cMode = sMode)'
      <4>1. CASE c.verb = "ABOR"
        BY <2>0, <3>1, <4>1 DEF SettingsAgree
      <4>2. CASE c.verb # "ABOR"
        BY <1>3, <2>0, <2>1, <4>2 DEF SettingsAgree
      <4>. QED
        BY <4>1, <4>2
    <3>. QED
      BY <1>2, <2>0, <3>2, <3>3, <3>4 DEF SettingsAgree
  <2>. QED
    BY <2>1, <2>2, <2>4, <2>5 DEF InLine
<1>6. Balanced'
  <2>. SUFFICES ASSUME ~unpaired' PROVE Balanced'
    BY DEF Balanced
  <2>0. /\ ~unpaired /\ ~misread'
        /\ UNCHANGED <<cPc, current, sent, cActive, cAbort, cXfer, AtPrompt>>
    BY <1>0, <1>2 DEF Balanced, clientVars, AtPrompt
  <2>1. Owed' \in Int /\ Owed \in Nat /\ Owed' >= 0
    BY Basics, OwedNext
  <2>2. (AtPrompt /\ ~cActive => Owed = 0)' /\ (AtPrompt /\ cActive => Owed <= 1)'
    BY <1>0, <1>1, <2>0, <2>1 DEF Balanced
  <2>3. (cPc = "await" => \/ Owed <= 1
                          \/ /\ Owed <= 2 /\ current.verb = "XFER"
                             /\ toClient # <<>> /\ Head(toClient).code = "150")'
    BY <1>0, <1>1, <2>0, <2>1 DEF Balanced
  <2>4. (cPc = "await" \/ cActive => AllMine)'
    <3>1. SUFFICES ASSUME AllMine PROVE AllMine'
      BY <1>0, <2>0 DEF Balanced
    <3>2. \A id : Mine(id) => Mine(id)'
      BY <2>0 DEF Mine
    <3>3. c \in Range(toServer) /\ Range(toServer') \subseteq Range(toServer)
      BY <1>1, <1>c, PopFacts
    <3>4. \A r \in Range(toClient') : Mine(r.of)'
      BY <1>1, <3>1, <3>2, <3>3 DEF AllMine
    <3>5. \A d \in Range(toServer') : Mine(d.id)'
      BY <1>1, <3>1, <3>2, <3>3 DEF AllMine
    <3>6. (Working /\ ~sAbort => Mine(sXfer.id))'
      BY <1>2, <2>0, <3>1 DEF AllMine, Mine
    <3>7. (Aborting => Mine(abor.id))' /\ (cActive /\ ~cAbort => cXfer.id = sent)'
      BY <1>2, <2>0, <3>1 DEF AllMine, Aborting
    <3>. QED
      BY <3>4, <3>5, <3>6, <3>7 DEF AllMine
  <2>5. (cActive => cAbort)'
    BY <1>0, <1>1, <2>0 DEF Balanced
  <2>. QED
    BY <2>0, <2>2, <2>3, <2>4, <2>5 DEF Balanced
<1>. QED
  BY <1>4, <1>5, <1>6

LEMMA ExecuteFacts ==
  ASSUME NEW verbs, Execute(verbs)
  PROVE  /\ Reading /\ Received.verb \in verbs /\ ~Working' /\ ~sActive
         /\ UNCHANGED <<clientVars, abor, unpaired>>
  BY DEF Execute, Reading, Working, Joined

\* A handler that was reached, and gave one reply.
LEMMA ExecutedAnswer ==
  ASSUME NEW v, Execute({v}), NEW code \in Codes \ {"150"}, Answer(code),
         UNCHANGED <<sActive, sXfer, sType>>, v \notin DOMAIN TypeOf,
         (sPc' = "recv" /\ sAbort' = sAbort) \/ (sPc' = "closed" /\ sAbort'),
         \/ /\ sMode' \in {sMode, "None"}
            /\ v \notin {"PASV", "PORT"} \/ code \notin PositiveCodes
         \/ v = "PASV" /\ sMode' = "Passive" /\ code = "227"
         \/ v = "PORT" /\ sMode' = "Active" /\ code = "200"
  PROVE  Answered(code)
<1>1. /\ Reading /\ Received.verb = v /\ ~Working' /\ ~sActive
      /\ UNCHANGED <<clientVars, abor, unpaired>>
  BY ExecuteFacts
<1>2. sType' = IF Received.verb \in DOMAIN TypeOf /\ code \in PositiveCodes
               THEN TypeOf[Received.verb] ELSE sType
  BY <1>1
<1>3. {"200", "227"} \subseteq PositiveCodes
  BY DEF PositiveCodes
<1>4. /\ \/ sMode' \in {sMode, "None"}
         \/ Received.verb = "PASV" /\ sMode' = "Passive"
         \/ Received.verb = "PORT" /\ sMode' = "Active"
      /\ Received.verb = "PASV" /\ code = "227" => sMode' = "Passive"
      /\ Received.verb = "PORT" /\ code = "200" => sMode' = "Active"
  BY <1>1, <1>3
<1>. QED
  BY <1>1, <1>2, <1>4 DEF Answered

LEMMA AnswersLedger ==
  ASSUME Ledger, Next,
         \/ RefuseNotLoggedIn \/ RefuseBusy \/ Noop \/ SetType \/ Quit
         \/ RefuseTransfer \/ AborIdle
         \/ \E ok \in BOOLEAN : User(ok) \/ Pass(ok) \/ Pasv(ok) \/ Port(ok)
  PROVE  ServerOrderly' /\ InLine' /\ Balanced'
<1>0. ServerPart /\ ServerOrderly
  BY Basics
<1>1. SUFFICES \E code : Answered(code)
  BY AnsweredLedger
<1>2. {"200", "221", "226", "227", "230", "250", "331", "425", "500", "503", "530",
       "550"} \subseteq Codes \ {"150"}
  BY DEF Codes, PositiveCodes
<1>3. {"425", "500", "503", "530"} \cap PositiveCodes = {}
  BY DEF PositiveCodes
<1>4. \A v \in {"ABOR", "NOOP", "USER", "PASS", "XFER", "QUIT", "PASV", "PORT"} :
        v \notin DOMAIN TypeOf
  BY DEF TypeOf
<1>5. CASE RefuseNotLoggedIn
  <2>1. /\ ~Working /\ UNCHANGED <<clientVars, serverVars, unpaired>>
        /\ Reading /\ Answer("530")
    BY <1>0, <1>5 DEF RefuseNotLoggedIn, NeedsLogin, ServerOrderly, Working, ServerPart,
                      ServerInStep
  <2>2. Answered("530")
    BY <1>2, <1>3, <2>1 DEF Answered, serverVars, Working, Reading
  <2>. QED
    BY <2>2
<1>6. CASE RefuseBusy
  <2>1. /\ UNCHANGED <<clientVars, serverVars, unpaired>> /\ Reading /\ Answer("503")
        /\ Received.verb # "ABOR"
    BY <1>6 DEF RefuseBusy, Busy
  <2>2. Answered("503")
    BY <1>2, <1>3, <2>1 DEF Answered, serverVars, Working, Reading
  <2>. QED
    BY <2>2
<1>7. CASE Noop
  <2>1. /\ Execute({"NOOP"}) /\ Answer("250") /\ sMode' \in {sMode, "None"}
        /\ UNCHANGED <<sActive, sXfer, sType>>
        /\ (sPc' = "recv" /\ sAbort' = sAbort) \/ (sPc' = "closed" /\ sAbort')
    BY <1>7 DEF Noop, Execute, Reading
  <2>2. Answered("250")
    BY <1>2, <1>4, <2>1, ExecutedAnswer
  <2>. QED
    BY <2>2
<1>8. CASE SetType
  <2>1. /\ Execute(DOMAIN TypeOf) /\ Answer("250") /\ sType' = TypeOf[Received.verb]
        /\ UNCHANGED <<sMode, sActive, sXfer>> /\ sPc' = "recv" /\ sAbort' = sAbort
    BY <1>8 DEF SetType, Execute, Reading
  <2>2. "250" \in PositiveCodes
    BY DEF PositiveCodes
  <2>3. /\ Reading /\ Received.verb \in DOMAIN TypeOf /\ ~Working' /\ ~sActive
        /\ UNCHANGED <<clientVars, abor, unpaired>>
    BY <2>1, ExecuteFacts
  <2>4. Received.verb \notin {"PASV", "PORT"}
    BY <2>3 DEF TypeOf
  <2>5. Answered("250")
    BY <1>2, <2>1, <2>2, <2>3, <2>4 DEF Answered
  <2>. QED
    BY <2>5
<1>9. CASE Quit
  <2>1. /\ Execute({"QUIT"}) /\ Answer("221") /\ sMode' \in {sMode, "None"}
        /\ UNCHANGED <<sActive, sXfer, sType>>
        /\ (sPc' = "recv" /\ sAbort' = sAbort) \/ (sPc' = "closed" /\ sAbort')
    BY <1>9 DEF Quit, Execute, Reading
  <2>2. Answered("221")
    BY <1>2, <1>4, <2>1, ExecutedAnswer
  <2>. QED
    BY <2>2
<1>10. CASE RefuseTransfer
  <2>1. PICK code \in {"550", "425"} : Answer(code)
    BY <1>10 DEF RefuseTransfer
  <2>2. /\ Execute({"XFER"}) /\ sMode' \in {sMode, "None"}
        /\ UNCHANGED <<sActive, sXfer, sType>> /\ sPc' = "recv" /\ sAbort' = sAbort
    BY <1>10 DEF RefuseTransfer, Execute, Reading
  <2>3. Answered(code)
    BY <1>2, <1>4, <2>1, <2>2, ExecutedAnswer
  <2>. QED
    BY <2>3
<1>11. CASE AborIdle
  <2>1. /\ Execute({"ABOR"}) /\ Answer("226") /\ sMode' \in {sMode, "None"}
        /\ UNCHANGED <<sActive, sXfer, sType>>
        /\ (sPc' = "recv" /\ sAbort' = sAbort) \/ (sPc' = "closed" /\ sAbort')
    BY <1>11 DEF AborIdle, Execute, Reading
  <2>2. Answered("226")
    BY <1>2, <1>4, <2>1, ExecutedAnswer
  <2>. QED
    BY <2>2
<1>12. ASSUME NEW ok \in BOOLEAN, User(ok) PROVE \E code : Answered(code)
  <2>1. PICK code \in {"331", "530"} : Answer(code)
    BY <1>12 DEF User
  <2>2. /\ Execute({"USER"}) /\ sMode' \in {sMode, "None"}
        /\ UNCHANGED <<sActive, sXfer, sType>> /\ sPc' = "recv" /\ sAbort' = sAbort
    BY <1>12 DEF User, Execute, Reading
  <2>3. Answered(code)
    BY <1>2, <1>4, <2>1, <2>2, ExecutedAnswer
  <2>. QED
    BY <2>3
<1>13. ASSUME NEW ok \in BOOLEAN, Pass(ok) PROVE \E code : Answered(code)
  <2>1. PICK code \in {"503", "230", "530"} : Answer(code)
    BY <1>13 DEF Pass
  <2>2. /\ Execute({"PASS"}) /\ sMode' \in {sMode, "None"}
        /\ UNCHANGED <<sActive, sXfer, sType>> /\ sPc' = "recv" /\ sAbort' = sAbort
    BY <1>13 DEF Pass, Execute, Reading
  <2>3. Answered(code)
    BY <1>2, <1>4, <2>1, <2>2, ExecutedAnswer
  <2>. QED
    BY <2>3
<1>14. ASSUME NEW ok \in BOOLEAN, Pasv(ok) PROVE \E code : Answered(code)
  <2>1. /\ Execute({"PASV"})
        /\ UNCHANGED <<sActive, sXfer, sType>> /\ sPc' = "recv" /\ sAbort' = sAbort
    BY <1>14 DEF Pasv, Execute, Reading
  <2>2. CASE ok
    <3>1. Answer("227") /\ sMode' = "Passive"
      BY <1>14, <2>2 DEF Pasv
    <3>2. Answered("227")
      BY <1>2, <1>4, <2>1, <3>1, ExecutedAnswer
    <3>. QED
      BY <3>2
  <2>3. CASE ~ok
    <3>1. Answer("425") /\ sMode' = "None"
      BY <1>14, <2>3 DEF Pasv
    <3>2. Answered("425")
      BY <1>2, <1>3, <1>4, <2>1, <3>1, ExecutedAnswer
    <3>. QED
      BY <3>2
  <2>. QED
    BY <2>2, <2>3
<1>15. ASSUME NEW ok \in BOOLEAN, Port(ok) PROVE \E code : Answered(code)
  <2>1. /\ Execute({"PORT"})
        /\ UNCHANGED <<sActive, sXfer, sType>> /\ sPc' = "recv" /\ sAbort' = sAbort
    BY <1>15 DEF Port, Execute, Reading
  <2>2. CASE ok
    <3>1. Answer("200") /\ sMode' = "Active"
      BY <1>15, <2>2 DEF Port
    <3>2. Answered("200")
      BY <1>2, <1>4, <2>1, <3>1, ExecutedAnswer
    <3>. QED
      BY <3>2
  <2>3. CASE ~ok
    <3>1. Answer("500") /\ sMode' = "None"
      BY <1>15, <2>3 DEF Port
    <3>2. Answered("500")
      BY <1>2, <1>3, <1>4, <2>1, <3>1, ExecutedAnswer
    <3>. QED
      BY <3>2
  <2>. QED
    BY <2>2, <2>3
<1>. QED
  BY <1>5, <1>6, <1>7, <1>8, <1>9, <1>10, <1>11, <1>12, <1>13, <1>14, <1>15

-----------------------------------------------------------------------------
(* The server: transfers *)

LEMMA OpenLedger ==
  ASSUME Ledger, Next, OpenTransfer \/ OpenTransferFails
  PROVE  ServerOrderly' /\ InLine' /\ Balanced'
<1>c. PICK c : c = Received
  OBVIOUS
<1>0. StreamPart /\ ClientPart /\ ServerPart /\ ServerOrderly /\ InLine /\ Balanced
  BY Basics
<1>1. /\ Reading /\ toServer # <<>> /\ sPc = "recv" /\ toServer' = Tail(toServer)
      /\ c.verb = "XFER" /\ sXfer' = c /\ sMode' = "None"
      /\ UNCHANGED <<clientVars, abor, sType, sAuth, unpaired>>
  BY <1>c DEF OpenTransfer, OpenTransferFails, Execute, Reading, Answer
<1>2. sPc' = "recv" /\ sAuth
  <2>1. sAuth
    BY <1>1, <1>c DEF OpenTransfer, OpenTransferFails, Execute, NeedsLogin
  <2>2. OpenTransfer => sPc' = sPc
    BY DEF OpenTransfer, Joined
  <2>3. OpenTransferFails => sPc' = sPc
    BY DEF OpenTransferFails
  <2>. QED
    BY <1>1, <2>1, <2>2, <2>3
<1>3. /\ c \in Range(toServer) /\ c \in Commands
      /\ Reply("150", c) \in Replies /\ Reply("425", c) \in Replies
  BY <1>1, <1>c, PopFacts, MessageFacts DEF Codes
<1>4. /\ Range(toClient') \subseteq Range(toClient)
                                    \cup {Reply("150", c), Reply("425", c)}
      /\ toClient = <<>> => /\ toClient' # <<>> /\ Head(toClient').code = "150"
                            /\ Len(toClient') + Unreported' <= 2
  <2>1. CASE OpenTransfer
    <3>1. toClient' = Append(toClient, Reply("150", c))
      BY <1>c, <2>1 DEF OpenTransfer, Answer
    <3>2. /\ Range(toClient') = Range(toClient) \cup {Reply("150", c)}
          /\ Len(toClient') = Len(toClient) + 1 /\ toClient' # <<>>
          /\ toClient = <<>> => Head(toClient') = Reply("150", c)
      BY <1>0, <1>3, <3>1, AppendFacts DEF StreamPart
    <3>3. toClient = <<>> => Len(toClient) = 0
      OBVIOUS
    <3>. QED
      BY <3>2, <3>3, OwedNext DEF Reply
  <2>2. CASE OpenTransferFails
    <3>1. toClient' = toClient \o <<Reply("150", c), Reply("425", c)>>
      BY <1>c, <2>2 DEF OpenTransferFails
    <3>2. PICK q : q = Append(toClient, Reply("150", c))
      OBVIOUS
    <3>3. /\ q \in Seq(Replies) /\ q # <<>> /\ Len(q) = Len(toClient) + 1
          /\ Range(q) = Range(toClient) \cup {Reply("150", c)}
          /\ toClient = <<>> => Head(q) = Reply("150", c)
      BY <1>0, <1>3, <3>2, AppendFacts DEF StreamPart
    <3>4. toClient' = Append(q, Reply("425", c))
      BY <1>0, <1>3, <3>1, <3>2 DEF StreamPart
    <3>5. /\ Range(toClient') = Range(q) \cup {Reply("425", c)}
          /\ Len(toClient') = Len(q) + 1 /\ toClient' # <<>>
          /\ Head(toClient') = Head(q)
      BY <1>3, <3>3, <3>4, AppendFacts
    <3>6. Unreported' = 0
      BY <2>2 DEF Unreported, OpenTransferFails, Execute, Joined, Working
    <3>7. toClient = <<>> => Len(toClient) = 0
      OBVIOUS
    <3>. QED
      BY <3>3, <3>5, <3>6, <3>7 DEF Reply
  <2>. QED
    BY <2>1, <2>2
<1>5. ServerOrderly'
  BY <1>1, <1>2 DEF ServerOrderly, Down
<1>6. /\ Reply("150", c) = [code |-> "150", of |-> c.id]
      /\ Reply("425", c) = [code |-> "425", of |-> c.id]
  BY DEF Reply
<1>7. ASSUME ~misread
      PROVE  /\ CommandsInLine' /\ Handled(c.id)' /\ ~AtPrompt /\ ~cActive
             /\ \A r \in Range(toClient) :
                  Handled(r.of)' /\ (cPc = "await" => r.of # sent)
             /\ abor.id <= sent /\ (cPc = "await" => abor.id < sent)
             /\ cPc = "await" => toServer' = <<>> /\ c = current
  BY <1>1, <1>c, <1>7, PopInLine
<1>8. UNCHANGED <<cPc, current, sent, cMode, cType, cActive, cAbort, cXfer, misread,
                 AtPrompt>>
  BY <1>1 DEF clientVars, AtPrompt
<1>9. InLine'
  <2>. SUFFICES ASSUME ~misread' PROVE InLine'
    BY DEF InLine
  <2>0. ~misread /\ HandledInOrder /\ SettingsAgree
    BY <1>0, <1>8 DEF InLine
  <2>1. HandledInOrder'
    <3>1. \A r \in Range(toClient') : Handled(r.of)'
      BY <1>4, <1>6, <1>7, <2>0
    <3>2. Handled(sXfer.id)' /\ Handled(abor.id)'
      BY <1>1, <1>7, <1>8, <2>0 DEF Handled
    <3>3. (cPc = "await" => current.id = sent /\ sent > 0 /\ sXfer = current
                            /\ abor.id # sent)'
      BY <1>1, <1>7, <1>8, <2>0, Numbers DEF HandledInOrder
    <3>. QED
      BY <1>1, <2>0, <3>1, <3>2, <3>3 DEF HandledInOrder
  <2>2. RepliesHold'
    <3>1. SUFFICES ASSUME cPc = "await", NEW r \in Range(toClient'), r.of = sent
                   PROVE  ReplyHolds(r)'
      BY <1>8 DEF RepliesHold
    <3>2. current.verb = "XFER" /\ sXfer' = current
      BY <1>1, <1>7, <2>0, <3>1
    <3>3. current.verb \notin DOMAIN TypeOf
      BY <3>2 DEF TypeOf
    <3>. QED
      BY <1>8, <3>2, <3>3 DEF ReplyHolds
  <2>3. SettingsAgree'
    BY <1>1, <1>7, <1>8, <2>0 DEF SettingsAgree
  <2>. QED
    BY <1>7, <2>0, <2>1, <2>2, <2>3 DEF InLine
<1>10. Balanced'
  <2>. SUFFICES ASSUME ~unpaired' PROVE Balanced'
    BY DEF Balanced
  <2>0. ~unpaired /\ ~misread /\ ~misread'
    BY <1>0, <1>1, <1>8 DEF Balanced
  <2>1. SUFFICES ASSUME cPc = "await"
                 PROVE  /\ Owed' <= 2 /\ current'.verb = "XFER"
                        /\ toClient' # <<>> /\ Head(toClient').code = "150" /\ AllMine'
    BY <1>7, <1>8, <2>0 DEF Balanced
  <2>2. AllMine /\ toServer' = <<>> /\ c = current /\ current.id = sent /\ ~cActive
    BY <1>0, <1>7, <2>0, <2>1 DEF Balanced, InLine, HandledInOrder
  <2>3. Range(toClient) = {} /\ toClient = <<>>
    <3>1. \A r \in Range(toClient) : FALSE
      BY <1>7, <2>0, <2>1, <2>2 DEF AllMine, Mine
    <3>. QED
      BY <1>0, <3>1, LenFacts DEF StreamPart
  <2>4. Owed' <= 2
    <3>1. Unanswered' = 0 /\ Unread' = 0
      BY <1>2, <2>2 DEF Unanswered, Unread, Aborting
    <3>. QED
      BY <1>4, <2>3, <3>1, OwedNext
  <2>5. AllMine'
    <3>1. Mine(c.id)'
      BY <1>8, <2>2 DEF Mine
    <3>2. \A r \in Range(toClient') : Mine(r.of)'
      BY <1>4, <1>6, <2>3, <3>1
    <3>3. Range(toServer') = {}
      BY <2>2, LenFacts, OwedNext DEF StreamPart
    <3>4. Mine(sXfer.id)'
      BY <1>1, <1>8, <2>2 DEF Mine
    <3>. QED
      BY <1>2, <1>8, <2>2, <3>2, <3>3, <3>4 DEF AllMine, Aborting
  <2>. QED
    BY <1>1, <1>4, <1>8, <2>2, <2>3, <2>4, <2>5
<1>. QED
  BY <1>5, <1>9, <1>10

LEMMA AborSeesLedger ==
  ASSUME Ledger, Next, AborSeesTransfer
  PROVE  ServerOrderly' /\ InLine' /\ Balanced'
<1>c. PICK c : c = Received
  OBVIOUS
<1>0. StreamPart /\ ClientPart /\ ServerPart /\ ServerOrderly /\ InLine /\ Balanced
  BY Basics
<1>1. /\ Reading /\ toServer # <<>> /\ sPc = "recv" /\ toServer' = Tail(toServer)
      /\ c.verb = "ABOR" /\ abor' = c /\ sPc' = "abor"
      /\ UNCHANGED <<toClient, clientVars, sAuth, sMode, sType, sActive, sAbort,
                     sWorker, sXfer, unpaired>>
  BY <1>c DEF AborSeesTransfer, Reading
<1>2. /\ c \in Range(toServer) /\ Range(toServer') \subseteq Range(toServer)
      /\ Len(toServer') = Len(toServer) - 1
  BY <1>1, <1>c, PopFacts
<1>3. ServerOrderly'
  BY <1>0, <1>1 DEF ServerOrderly, Down
<1>4. UNCHANGED <<cPc, current, sent, cMode, cType, cActive, cAbort, cXfer, misread,
                 AtPrompt>>
  BY <1>1 DEF clientVars, AtPrompt
<1>5. InLine'
  <2>. SUFFICES ASSUME ~misread' PROVE InLine'
    BY DEF InLine
  <2>0. ~misread /\ HandledInOrder /\ SettingsAgree
    BY <1>0, <1>4 DEF InLine
  <2>1. /\ CommandsInLine' /\ Handled(c.id)'
        /\ \A r \in Range(toClient) : Handled(r.of)' /\ (cPc = "await" => r.of # sent)
        /\ sXfer.id <= sent /\ (cPc = "await" => sXfer.id < sent)
        /\ cPc = "await" => \/ toServer' = <<>> /\ c = current
                            \/ toServer' # <<>> /\ c.verb = "ABOR" /\ c.id # sent
    BY <1>1, <1>c, <2>0, PopInLine
  <2>2. HandledInOrder'
    <3>1. Handled(sXfer.id)' /\ Handled(abor.id)'
      BY <1>1, <1>4, <2>1 DEF Handled
    <3>2. (cPc = "await" => current.id = sent /\ sent > 0 /\ sXfer.id # sent
                            /\ (abor.id = sent => abor = current))'
      BY <1>1, <1>4, <2>0, <2>1, Numbers DEF HandledInOrder
    <3>. QED
      BY <1>1, <2>0, <2>1, <3>1, <3>2 DEF HandledInOrder
  <2>3. RepliesHold'
    BY <1>1, <1>4, <2>1 DEF RepliesHold
  <2>4. SettingsAgree'
    BY <1>1, <1>4, <2>0 DEF SettingsAgree
  <2>. QED
    BY <2>1, <2>2, <2>3, <2>4 DEF InLine
<1>6. Balanced'
  <2>. SUFFICES ASSUME ~unpaired' PROVE Balanced'
    BY DEF Balanced
  <2>0. ~unpaired /\ ~misread /\ ~misread'
    BY <1>0, <1>1, <1>4 DEF Balanced
  <2>1. Owed' = Owed
    <3>1. AborUnderWay /\ AborUnderWay'
      <4>1. AborUnderWay
        BY <1>1, <1>2, AborInRange
      <4>. QED
        BY <1>1, <4>1 DEF AborUnderWay
    <3>2. Unreported = 0 /\ Unreported' = 0 /\ Unanswered = 0 /\ Unanswered' = 1
      BY <1>1, <3>1 DEF Unreported, Unanswered, Aborting
    <3>3. Unread = Len(toServer) /\ Unread' = Len(toServer) - 1
      BY <1>1, <1>2 DEF Unread, Down
    <3>. QED
      BY <1>1, <3>2, <3>3, OwedNext, Basics DEF Owed
  <2>2. AllMine => AllMine'
    <3>1. \A id : Mine(id) => Mine(id)'
      BY <1>4 DEF Mine
    <3>2. AllMine => Mine(abor.id)' /\ \A d \in Range(toServer') : Mine(d.id)'
      BY <1>1, <1>2, <1>4, <3>1 DEF AllMine, Down, Mine
    <3>. QED
      BY <1>1, <1>4, <3>1, <3>2 DEF AllMine, Working, Mine
  <2>3. ~(cActive' /\ ~cAbort')
    BY <1>0, <1>1, <1>4, <2>0 DEF Balanced
  <2>. QED
    BY <1>0, <1>1, <1>4, <2>0, <2>1, <2>2, <2>3 DEF Balanced
<1>. QED
  BY <1>3, <1>5, <1>6

\* The server says at most the completion of its transfer, or the answer to the
\* ABOR that it handles, and owes no more than before.
LEMMA ServerStep ==
  ASSUME Ledger, Next,
         UNCHANGED <<toServer, clientVars, abor, sAuth, sType, sXfer>>,
         sMode' \in {sMode, "None"},
         NEW r, r \in [code : {"226", "426"}, of : {sXfer.id}]
                      \cup [code : {"426"}, of : {abor.id}],
         Range(toClient') \subseteq Range(toClient) \cup {r},
         r \in Range(toClient') => \/ r \in Range(toClient)
                                   \/ Working /\ ~sAbort /\ r.of = sXfer.id
                                   \/ Aborting /\ r.of = abor.id,
         sActive' => sActive, Down' => sAbort',
         ~unpaired' =>
           /\ ~unpaired /\ Owed' <= Owed
           /\ toClient # <<>> => \/ toClient' # <<>> /\ Head(toClient') = Head(toClient)
                                 \/ Owed' <= 1,
         Working' /\ ~sAbort' => Working /\ ~sAbort,
         Aborting' => Aborting, Down => Down'
  PROVE  ServerOrderly' /\ InLine' /\ Balanced'
<1>0. StreamPart /\ ClientPart /\ ServerOrderly /\ InLine /\ Balanced
  BY Basics
<1>1. UNCHANGED <<cPc, current, sent, cMode, cType, cActive, cAbort, cXfer, misread,
                 AtPrompt>>
  BY DEF clientVars, AtPrompt
<1>2. ServerOrderly'
  BY <1>0 DEF ServerOrderly
<1>3. InLine'
  <2>. SUFFICES ASSUME ~misread' PROVE InLine'
    BY DEF InLine
  <2>0. /\ CommandsInLine /\ HandledInOrder /\ RepliesHold /\ SettingsAgree
    BY <1>0, <1>1 DEF InLine
  <2>1. CommandsInLine'
    BY <1>1, <2>0 DEF CommandsInLine
  <2>2. HandledInOrder'
    <3>1. \A id : Handled(id)' <=> Handled(id)
      BY <1>1 DEF Handled
    <3>2. Handled(r.of)
      BY <2>0 DEF HandledInOrder
    <3>3. \A x \in Range(toClient') : Handled(x.of)'
      BY <2>0, <3>1, <3>2 DEF HandledInOrder
    <3>4. Handled(sXfer.id)' /\ Handled(abor.id)'
      BY <1>1, <2>0 DEF HandledInOrder, Handled
    <3>. QED
      BY <1>1, <2>0, <3>3, <3>4 DEF HandledInOrder
  <2>3. RepliesHold'
    <3>1. SUFFICES ASSUME cPc = "await", NEW x \in Range(toClient'), x.of = sent
                   PROVE  ReplyHolds(x)'
      BY <1>1 DEF RepliesHold
    <3>2. CASE x \in Range(toClient)
      <4>1. ReplyHolds(x)
        BY <2>0, <3>1, <3>2 DEF RepliesHold
      <4>2. sType' = sType /\ TypeAfter(x.code)' = TypeAfter(x.code)
        BY <1>1 DEF TypeAfter
      <4>. QED
        BY <1>1, <4>1, <4>2 DEF ReplyHolds
    <3>3. CASE x = r
      <4>1. current.verb \in {"XFER", "ABOR"}
        BY <2>0, <3>1, <3>3 DEF HandledInOrder, None
      <4>2. current.verb \notin DOMAIN TypeOf
        BY <4>1 DEF TypeOf
      <4>3. x.code # "150"
        BY <3>3
      <4>. QED
        BY <1>1, <4>1, <4>2, <4>3 DEF ReplyHolds
    <3>. QED
      BY <3>2, <3>3
  <2>4. SettingsAgree'
    BY <1>1, <2>0 DEF SettingsAgree
  <2>. QED
    BY <2>1, <2>2, <2>3, <2>4 DEF InLine
<1>4. Balanced'
  <2>. SUFFICES ASSUME ~unpaired' PROVE Balanced'
    BY DEF Balanced
  <2>0. /\ ~unpaired /\ ~misread' /\ Owed' <= Owed /\ Owed' \in Nat /\ Owed \in Nat
    BY <1>0, <1>1, OwedNext, Basics DEF Balanced
  <2>1. (AtPrompt /\ ~cActive => Owed = 0)' /\ (AtPrompt /\ cActive => Owed <= 1)'
    BY <1>0, <1>1, <2>0 DEF Balanced
  <2>2. (cPc = "await" => \/ Owed <= 1
                          \/ /\ Owed <= 2 /\ current.verb = "XFER"
                             /\ toClient # <<>> /\ Head(toClient).code = "150")'
    BY <1>0, <1>1, <2>0 DEF Balanced
  <2>3. (cPc = "await" \/ cActive => AllMine)'
    <3>1. SUFFICES ASSUME AllMine PROVE AllMine'
      BY <1>0, <1>1, <2>0 DEF Balanced
    <3>2. \A id : Mine(id) => Mine(id)'
      BY <1>1 DEF Mine
    <3>3. \A x \in Range(toClient') : Mine(x.of)'
      BY <3>1, <3>2 DEF AllMine
    <3>4. (Working /\ ~sAbort => Mine(sXfer.id))' /\ (Aborting => Mine(abor.id))'
      BY <1>1, <3>1 DEF AllMine, Mine
    <3>. QED
      BY <1>1, <3>1, <3>2, <3>3, <3>4 DEF AllMine
  <2>4. (cActive /\ ~cAbort => toServer = <<>> /\ ~Aborting)'
    BY <1>0, <1>1, <2>0 DEF Balanced
  <2>. QED
    BY <2>0, <2>1, <2>2, <2>3, <2>4 DEF Balanced
<1>. QED
  BY <1>2, <1>3, <1>4

\* The control thread handles an ABOR or the end of the connection.
LEMMA EndLedger ==
  ASSUME Ledger, Next,
         AborRequests \/ AborJoins \/ Disconnect \/ ConnectionFails \/ ShutdownJoins
  PROVE  ServerOrderly' /\ InLine' /\ Balanced'
<1>r. PICK r : r = Reply("426", abor)
  OBVIOUS
<1>0. StreamPart /\ ServerPart /\ ServerOrderly
  BY Basics
<1>1. /\ UNCHANGED <<toServer, clientVars, abor, sAuth, sType, sXfer, unpaired>>
      /\ sMode' \in {sMode, "None"}
  BY DEF AborRequests, AborJoins, Disconnect, ConnectionFails, ShutdownJoins
<1>2. r \in [code : {"426"}, of : {abor.id}] /\ r \in Replies
  <2>1. r \in Replies
    BY <1>0, <1>r, MessageFacts DEF ServerPart, Codes
  <2>. QED
    BY <1>r, <2>1 DEF Reply
<1>3. sActive' => sActive
  BY <1>0 DEF AborRequests, AborJoins, Disconnect, ConnectionFails, ShutdownJoins,
              ServerPart
<1>4. (Down' => sAbort') /\ (Down => Down') /\ (Aborting' => Aborting)
  BY <1>0 DEF AborRequests, AborJoins, Disconnect, ConnectionFails, ShutdownJoins,
              ServerOrderly, Down, Aborting
<1>5. Working' /\ ~sAbort' => Working /\ ~sAbort
  BY <1>0 DEF AborRequests, AborJoins, Disconnect, ConnectionFails, ShutdownJoins,
              Working
<1>6. Range(<<>>) = {} /\ Len(<<>>) = 0
  <2>1. <<>> \in Seq(Replies)
    OBVIOUS
  <2>. QED
    BY <2>1, LenFacts
<1>7. CASE AborJoins
  <2>1. /\ toClient' = Append(toClient, r) /\ Aborting /\ ~Aborting' /\ ~Down /\ ~Down'
        /\ ~Working /\ ~Working'
    BY <1>7, <1>r DEF AborJoins, Aborting, Down, Working
  <2>2. /\ Range(toClient') = Range(toClient) \cup {r}
        /\ Len(toClient') = Len(toClient) + 1 /\ toClient' # <<>>
        /\ Head(toClient') = IF toClient = <<>> THEN r ELSE Head(toClient)
    BY <1>0, <1>2, <2>1, AppendFacts DEF StreamPart
  <2>3. /\ Unreported = 0 /\ Unreported' = 0 /\ Unanswered = 1 /\ Unanswered' = 0
        /\ Unread' = Unread
    BY <1>1, <2>1 DEF Unreported, Unanswered, Unread
  <2>4. Owed' = Owed /\ Owed \in Nat
    BY <2>2, <2>3, OwedNext, Basics DEF Owed
  <2>5. r.of = abor.id
    BY <1>2
  <2>. QED
    BY <1>1, <1>2, <1>3, <1>4, <1>5, <2>1, <2>2, <2>4, <2>5, ServerStep
<1>8. CASE AborRequests \/ Disconnect \/ ConnectionFails \/ ShutdownJoins
  <2>1. toClient' = toClient \/ (toClient' = <<>> /\ ConnectionFails)
    BY <1>8 DEF AborRequests, Disconnect, ConnectionFails, ShutdownJoins
  <2>2. Range(toClient') \subseteq Range(toClient) /\ Len(toClient') <= Len(toClient)
    BY <1>6, <2>1, Basics
  <2>3. Unreported' = 0
    BY <1>0, <1>8 DEF AborRequests, Disconnect, ConnectionFails, ShutdownJoins,
                      Unreported, ServerOrderly, Down, Working
  <2>4. Unanswered' = Unanswered
    BY <1>8 DEF AborRequests, Disconnect, ConnectionFails, ShutdownJoins, Unanswered,
                Aborting
  <2>5. Unread' <= Unread
    BY <1>1, <1>4, Basics DEF Unread
  <2>6. Owed' <= Owed
    BY <2>2, <2>3, <2>4, <2>5, OwedNext, Basics DEF Owed
  <2>7. ConnectionFails /\ toClient' = <<>> => Owed' <= 1
    <3>1. ConnectionFails => Unread' = 0 /\ Unanswered' = 0
      BY DEF ConnectionFails, Unread, Unanswered, Down, Aborting
    <3>. QED
      BY <1>6, <2>3, <3>1, OwedNext
  <2>8. toClient # <<>> => \/ toClient' # <<>> /\ Head(toClient') = Head(toClient)
                           \/ Owed' <= 1
    BY <2>1, <2>7
  <2>. QED
    BY <1>1, <1>2, <1>3, <1>4, <1>5, <2>2, <2>6, <2>8, ServerStep
<1>. QED
  BY <1>7, <1>8

\* The worker reports, unless it was silenced.
LEMMA WorkerLedger ==
  ASSUME Ledger, Next, ServerWorker
  PROVE  ServerOrderly' /\ InLine' /\ Balanced'
<1>0. StreamPart /\ ServerPart /\ ServerOrderly
  BY Basics
<1>1. /\ UNCHANGED <<toServer, clientVars, abor, sAuth, sType, sXfer, sMode, sAbort,
                     sPc>>
      /\ UNCHANGED <<Down, Aborting, Unanswered, Unread>>
  BY DEF ServerWorker, ServerDataEnds, Report, WorkerEnds, Down, Aborting, Unanswered,
         Unread
<1>2. (sActive' => sActive) /\ (Down' => sAbort')
  BY <1>0, <1>1 DEF ServerWorker, ServerDataEnds, Report, WorkerEnds, ServerPart,
                    ServerOrderly
<1>3. CASE ServerDataEnds \/ WorkerEnds
  <2>r. PICK r : r = Reply("426", sXfer)
    OBVIOUS
  <2>1. r \in [code : {"226", "426"}, of : {sXfer.id}]
    BY <2>r DEF Reply
  <2>2. toClient' = toClient /\ unpaired' = unpaired /\ Working' = Working
    BY <1>3 DEF ServerDataEnds, WorkerEnds, Working
  <2>3. Unreported' = Unreported
    BY <1>1, <2>2 DEF Unreported, AborUnderWay
  <2>4. Owed' = Owed /\ Owed \in Nat
    BY <1>1, <2>2, <2>3, OwedNext, Basics DEF Owed
  <2>. QED
    BY <1>1, <1>2, <2>1, <2>2, <2>4, ServerStep
<1>4. ASSUME NEW code \in {"226", "426"}, Report(code)
      PROVE  ServerOrderly' /\ InLine' /\ Balanced'
  <2>r. PICK r : r = Reply(code, sXfer)
    OBVIOUS
  <2>1. r \in [code : {"226", "426"}, of : {sXfer.id}] /\ r \in Replies
    <3>1. r \in Replies
      BY <1>0, <1>4, <2>r, MessageFacts DEF ServerPart, Codes, PositiveCodes
    <3>. QED
      BY <2>r, <3>1 DEF Reply
  <2>2. /\ Working /\ ~Working'
        /\ toClient' = (IF sAbort THEN toClient ELSE Append(toClient, r))
        /\ unpaired' = (unpaired \/ (~sAbort /\ AborUnderWay))
    BY <1>4, <2>r DEF Report, Working
  <2>3. Unreported' = 0
    BY <2>2 DEF Unreported
  <2>4. CASE sAbort
    <3>1. toClient' = toClient /\ Unreported = 0 /\ (~unpaired' => ~unpaired)
      BY <2>2, <2>4 DEF Unreported
    <3>2. Owed' = Owed /\ Owed \in Nat
      BY <1>1, <2>3, <3>1, OwedNext, Basics DEF Owed
    <3>. QED
      BY <1>1, <1>2, <2>1, <2>2, <3>1, <3>2, ServerStep
  <2>5. CASE ~sAbort
    <3>1. /\ Range(toClient') = Range(toClient) \cup {r}
          /\ Len(toClient') = Len(toClient) + 1 /\ toClient' # <<>>
          /\ Head(toClient') = IF toClient = <<>> THEN r ELSE Head(toClient)
      BY <1>0, <2>1, <2>2, <2>5, AppendFacts DEF StreamPart
    <3>2. ~unpaired' => ~unpaired /\ Owed' <= Owed
      <4>1. SUFFICES ASSUME ~unpaired' PROVE ~unpaired /\ Owed' <= Owed
        OBVIOUS
      <4>2. ~unpaired /\ Unreported = 1
        BY <2>2, <2>5, <4>1 DEF Unreported
      <4>3. Owed' = Owed /\ Owed \in Nat
        BY <1>1, <2>3, <3>1, <4>2, OwedNext, Basics DEF Owed
      <4>. QED
        BY <4>2, <4>3
    <3>3. r.of = sXfer.id
      BY <2>1
    <3>. QED
      BY <1>1, <1>2, <2>1, <2>2, <2>5, <3>1, <3>2, <3>3, ServerStep
  <2>. QED
    BY <2>4, <2>5
<1>. QED
  BY <1>3, <1>4 DEF ServerWorker

-----------------------------------------------------------------------------
(* The theorems *)

LEMMA InitLedger == Init => Ledger
<1>. SUFFICES ASSUME Init PROVE Ledger
  OBVIOUS
<1>1. ServerOrderly
  BY DEF Init, ServerOrderly, Down
<1>2. Range(toServer) = {} /\ Range(toClient) = {} /\ Len(toClient) = 0
      /\ Len(toServer) = 0
  <2>1. <<>> \in Seq(Commands)
    OBVIOUS
  <2>. QED
    BY <2>1, LenFacts DEF Init
<1>3. InLine
  <2>1. CommandsInLine
    BY <1>2 DEF Init, CommandsInLine
  <2>2. HandledInOrder
    BY <1>2 DEF Init, HandledInOrder, Handled, None
  <2>3. RepliesHold /\ SettingsAgree
    BY DEF Init, RepliesHold, SettingsAgree
  <2>. QED
    BY <2>1, <2>2, <2>3 DEF InLine
<1>4. Balanced
  <2>1. Owed = 0
    BY <1>2 DEF Init, Owed, Unreported, Unanswered, Unread, Working, Aborting
  <2>. QED
    BY <2>1 DEF Init, Balanced
<1>. QED
  BY <1>1, <1>3, <1>4, InitInv DEF Ledger

LEMMA NextLedger == Ledger /\ [Next]_vars => Ledger'
<1>. SUFFICES ASSUME Ledger, [Next]_vars PROVE Ledger'
  OBVIOUS
<1>1. CASE Next /\ ~UNCHANGED vars
  <2>. SUFFICES ServerOrderly' /\ InLine' /\ Balanced'
    BY <1>1, LedgerNext
  <2>1. CASE Typing
    BY <1>1, <2>1, TypeCommandLedger, QuietLedger DEF Typing
  <2>2. CASE ClientMain
    BY <1>1, <2>2, ReadLedger, SendAborLedger, AbortOnLeaveLedger, QuietLedger
       DEF ClientMain
  <2>3. CASE Leave \/ Crash
    BY <2>3, QuietLedger
  <2>4. CASE ClientWorker
    BY <1>1, <2>4, CompletionLedger, QuietLedger DEF ClientWorker
  <2>5. CASE ServerMain
    BY <1>1, <2>5, AnswersLedger, OpenLedger, AborSeesLedger, EndLedger
       DEF ServerMain, Dispatch
  <2>6. CASE ServerWorker
    BY <1>1, <2>6, WorkerLedger
  <2>7. CASE ConnectionFails
    BY <1>1, <2>7, EndLedger
  <2>. QED
    BY <1>1, <2>1, <2>2, <2>3, <2>4, <2>5, <2>6, <2>7 DEF Next, Over
<1>2. CASE UNCHANGED vars
  <2>1. Inv'
    BY NextInv DEF Ledger
  <2>2. ServerOrderly'
    BY <1>2 DEF Ledger, ServerOrderly, vars, serverVars, Down
  <2>3. InLine'
    BY <1>2 DEF Ledger, InLine, CommandsInLine, HandledInOrder, Handled, RepliesHold,
                ReplyHolds, TypeAfter, SettingsAgree, AtPrompt, vars, clientVars,
                serverVars
  <2>4. Owed' = Owed
    BY <1>2 DEF Owed, Unreported, Unanswered, Unread, Working, Aborting, Down,
                AborUnderWay, vars, serverVars
  <2>5. AllMine => AllMine'
    BY <1>2 DEF AllMine, Mine, Working, Aborting, Down, vars, clientVars, serverVars
  <2>6. Balanced'
    BY <1>2, <2>4, <2>5 DEF Ledger, Balanced, AtPrompt, Aborting, vars, clientVars,
                            serverVars
  <2>. QED
    BY <2>1, <2>2, <2>3, <2>6 DEF Ledger
<1>. QED
  BY <1>1, <1>2

\* The ledger of the control stream holds in every reachable state, whatever the
\* user types, whichever threads cannot be started and whenever either end goes.
THEOREM LedgerKept == Spec => []Ledger
  BY InitLedger, NextLedger, PTL DEF Spec

\* The transfer type and the data mode that client and server have agreed upon
\* cannot drift apart while every reply is read for its own command.
THEOREM Agreement == Spec => []EndpointsAgree
<1>1. Ledger => EndpointsAgree
  BY DEF Ledger, InLine, SettingsAgree, EndpointsAgree, Quiet, AtPrompt
<1>. QED
  BY <1>1, LedgerKept, PTL

\* The thread that sends and the thread that receives a file work for the same
\* command, with the same transfer type.
THEOREM Pairing == Spec => []WorkersPaired
<1>1. Ledger => WorkersPaired
  BY Basics DEF InLine, SettingsAgree, WorkersPaired, ClientPart, ClientInStep
<1>. QED
  BY <1>1, LedgerKept, PTL

\* The only ways to read the reply of another command are the completion that
\* crosses its ABOR and the thread that could not be started.
THEOREM MisreadExplained == Spec => []MisreadNeedsUnpaired
<1>1. Ledger => MisreadNeedsUnpaired
  BY DEF Ledger, Balanced, MisreadNeedsUnpaired
<1>. QED
  BY <1>1, LedgerKept, PTL

=============================================================================
