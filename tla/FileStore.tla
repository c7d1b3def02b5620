------------------------------ MODULE FileStore ------------------------------
(***************************************************************************)
(* The server's file tree, shared by its sessions without any lock: the    *)
(* file and directory commands, each of which looks at a path and acts on  *)
(* it in another system call, and the workers of STOR, STOU and APPE.      *)
(*                                                                         *)
(* A path is a sequence of names below the server root, a file the         *)
(* sequence of the uploads it holds.  A command that is refused changes    *)
(* nothing and is left out, except where it clears a pending rename; so    *)
(* are PWD, LIST, NLST, STAT, SIZE, MDTM, HASH and RETR, which only read.  *)
(* A session runs one command or one transfer at a time (executeCommand).  *)
(***************************************************************************)
EXTENDS Integers, Sequences

CONSTANTS Sessions,     \* the connected clients
          Names,        \* file names that clients use
          UniqueName,   \* the names made by reserveUniqueUpload, in order
          MaxDepth,     \* bound: components of a path
          MaxCommands,  \* bound: commands that are carried out
          InitialTree   \* what the server root holds at the start

Root == <<>>
AllNames == Names \cup {UniqueName[i] : i \in DOMAIN UniqueName}
Paths == UNION {[1 .. n -> AllNames] : n \in 0 .. MaxDepth}
Outside == <<"..">>     \* a path that is not below the root
NoPath == <<"none">>

Absent == [kind |-> "absent", data |-> <<>>]
Dir == [kind |-> "dir", data |-> <<>>]
File(d) == [kind |-> "file", data |-> d]
Nodes == {Absent, Dir} \cup [kind : {"file"}, data : Seq(Int)]

Parent(p) == SubSeq(p, 1, Len(p) - 1)
Within(p, d) == Len(d) <= Len(p) /\ \A i \in 1 .. Len(d) : p[i] = d[i]

\* No datum is twice in the tree t, and none is from after upload n.
HoldsOnce(t) ==
  \A p, q \in Paths : \A i \in DOMAIN t[p].data, j \in DOMAIN t[q].data :
    t[p].data[i] = t[q].data[j] => p = q /\ i = j
NoneAfter(t, n) == \A p \in Paths : \A i \in DOMAIN t[p].data : t[p].data[i] <= n

ASSUME UniqueNameAssumption ==
  /\ UniqueName \in Seq(STRING)
  /\ \A i, j \in DOMAIN UniqueName : UniqueName[i] = UniqueName[j] => i = j
ASSUME NamesAssumption == Names \subseteq STRING /\ {"..", "none"} \cap AllNames = {}
ASSUME BoundsAssumption == MaxDepth \in Nat /\ MaxCommands \in Nat
ASSUME InitialTreeAssumption ==
  /\ InitialTree \in [Paths -> Nodes]
  /\ InitialTree[Root] = Dir
  /\ \A p, q \in Paths :
       InitialTree[p] # Absent /\ Within(p, q) /\ p # q => InitialTree[q] = Dir
\* Uploads are numbered from 1; what was there before has the numbers below.
ASSUME InitialDataAssumption == HoldsOnce(InitialTree) /\ NoneAfter(InitialTree, 0)

VARIABLES
  tree,      \* what is at each path
  litter,    \* directories with a temporary file that nobody will remove
  nextId,    \* nextId of reserveUniqueUpload
  cwd,       \* currentDir of each session
  rename,    \* pendingRenameSource, NoPath when hasPendingRename is not set
  cmd,       \* the command that runs
  step,      \* how far it is
  target,    \* the path that it resolved
  temp,      \* the directory of its temporary file
  seen,      \* what appendAtomically read of the destination
  commands,  \* commands carried out
  uploads,   \* history: uploads stored
  raced,     \* history: another session changed the target since it was looked at
  stale      \* history: an append has replaced a file that it had not read

vars == <<tree, litter, nextId, cwd, rename, cmd, step, target, temp, seen, commands,
          uploads, raced, stale>>

-----------------------------------------------------------------------------
(* Helpers *)

\* PathResolver::resolve for one component, "" or "..".
Resolve(d, input) ==
  CASE input = "" -> d
    [] input = ".." -> IF d = Root THEN Outside ELSE Parent(d)
    [] OTHER -> Append(d, input)

IsDir(p) == p \in Paths /\ tree[p] = Dir
IsFile(p) == p \in Paths /\ tree[p].kind = "file"
Exists(p) == IsDir(p) \/ IsFile(p)

\* A directory has a temporary file of a worker, or one that was left.
HasTemporary(p) == p \in litter \/ \E s \in Sessions : temp[s] = p

\* A worker holds a temporary file in this directory open.
Open(p) == \E s \in Sessions : temp[s] = p /\ step[s] = "receive"

IsEmpty(p) == ~HasTemporary(p)
              /\ \A q \in Paths \ {Root} : tree[q] # Absent => Parent(q) # p

\* fs::remove takes a file and an empty directory alike.
CanRemove(p) == IsFile(p) \/ (IsDir(p) /\ IsEmpty(p))

Put(p, node) == tree' = [tree EXCEPT ![p] = node]

Begins(s, c, p, st) ==
  /\ cmd' = [cmd EXCEPT ![s] = c]
  /\ target' = [target EXCEPT ![s] = p]
  /\ step' = [step EXCEPT ![s] = st]
  /\ commands' = commands + 1

Goes(s, st) == step' = [step EXCEPT ![s] = st]

Ends(s) ==
  /\ cmd' = [cmd EXCEPT ![s] = "none"]
  /\ target' = [target EXCEPT ![s] = NoPath]
  /\ step' = [step EXCEPT ![s] = "idle"]

\* History: the others' targets that this step of s changes.
Races(s) ==
  raced' = [r \in Sessions |->
              r # s /\ (raced[r] \/ (target[r] \in Paths
                                     /\ tree'[target[r]] # tree[target[r]]))]
Looks(s) == raced' = [raced EXCEPT ![s] = FALSE]

Idle(s) == step[s] = "idle" /\ commands < MaxCommands

-----------------------------------------------------------------------------
(* Directory commands *)

Cwd(s, input) ==
  LET p == Resolve(cwd[s], input) IN
  /\ Idle(s) /\ IsDir(p)
  /\ cwd' = [cwd EXCEPT ![s] = p]
  /\ commands' = commands + 1
  /\ UNCHANGED <<tree, litter, nextId, rename, cmd, step, target, temp, seen, uploads,
                 raced, stale>>

\* Mutant: the result of resolve is not looked at.
CdupUnchecked(s) ==
  /\ Idle(s)
  /\ cwd' = [cwd EXCEPT ![s] = Resolve(cwd[s], "..")]
  /\ commands' = commands + 1
  /\ UNCHANGED <<tree, litter, nextId, rename, cmd, step, target, temp, seen, uploads,
                 raced, stale>>

\* CDUP does not ask whether the parent is still there.
Cdup(s) ==
  LET p == Resolve(cwd[s], "..") IN
  /\ Idle(s) /\ p # Outside
  /\ cwd' = [cwd EXCEPT ![s] = p]
  /\ commands' = commands + 1
  /\ UNCHANGED <<tree, litter, nextId, rename, cmd, step, target, temp, seen, uploads,
                 raced, stale>>

\* Mutant: RMD does not spare the server root.
AcceptsRoot(c, p) ==
  CASE c = "MKD" -> p \in Paths /\ ~Exists(p)
    [] c = "RMD" -> IsDir(p)
    [] c = "DELE" -> IsFile(p)
    [] c = "STOR" -> p \in Paths /\ ~IsDir(p)
    [] c = "APPE" -> p \in Paths /\ ~IsDir(p) /\ IsDir(Parent(p))

\* What each command asks of the path.  APPE also makes its staging file.
Accepts(c, p) ==
  CASE c = "MKD" -> p \in Paths /\ ~Exists(p)
    [] c = "RMD" -> IsDir(p) /\ p # Root
    [] c = "DELE" -> IsFile(p)
    [] c = "STOR" -> p \in Paths /\ ~IsDir(p)
    [] c = "APPE" -> p \in Paths /\ ~IsDir(p) /\ IsDir(Parent(p))

\* The look: the path is resolved and found as the command wants it.
Look(s, c, input) ==
  LET p == Resolve(cwd[s], input) IN
  /\ Idle(s) /\ Accepts(c, p)
  /\ Begins(s, c, p, IF c \in {"STOR", "APPE"} THEN "open" ELSE "act")
  /\ temp' = IF c = "APPE" THEN [temp EXCEPT ![s] = Parent(p)] ELSE temp
  /\ Looks(s)
  /\ UNCHANGED <<tree, litter, nextId, cwd, rename, seen, uploads, stale>>

\* create_directories also makes the ancestors that are missing.
MakeDir(s) ==
  LET p == target[s] IN
  /\ step[s] = "act" /\ cmd[s] = "MKD"
  /\ \A q \in Paths : Within(p, q) => ~IsFile(q)
  /\ tree[p] = Absent
  /\ tree' = [q \in Paths |-> IF Within(p, q) THEN Dir ELSE tree[q]]
  /\ Ends(s) /\ Races(s)
  /\ UNCHANGED <<litter, nextId, cwd, rename, temp, seen, commands,
                 uploads, stale>>

\* Mutant: RMD removes the directory with all that it holds.
RemoveAll(s) ==
  LET p == target[s] IN
  /\ step[s] = "act" /\ cmd[s] \in {"RMD", "DELE"}
  /\ Exists(p) /\ ~HasTemporary(p)
  /\ tree' = [q \in Paths |-> IF Within(q, p) THEN Absent ELSE tree[q]]
  /\ Ends(s) /\ Races(s)
  /\ UNCHANGED <<litter, nextId, cwd, rename, temp, seen, commands,
                 uploads, stale>>

\* RMD and DELE end in the same fs::remove.
Remove(s) ==
  LET p == target[s] IN
  /\ step[s] = "act" /\ cmd[s] \in {"RMD", "DELE"}
  /\ CanRemove(p)
  /\ Put(p, Absent)
  /\ Ends(s) /\ Races(s)
  /\ UNCHANGED <<litter, nextId, cwd, rename, temp, seen, commands,
                 uploads, stale>>

\* The system call fails, or STOU finds no free name.
ActFails(s) ==
  /\ step[s] \in {"act", "taken"}
  /\ Ends(s) /\ Looks(s)
  /\ UNCHANGED <<tree, litter, nextId, cwd, rename, temp, seen, commands, uploads,
                 stale>>

-----------------------------------------------------------------------------
(* Rename *)

\* A RNFR that finds nothing clears the one before it.
Rnfr(s, input) ==
  LET p == Resolve(cwd[s], input) IN
  /\ Idle(s)
  /\ rename' = [rename EXCEPT ![s] = IF Exists(p) THEN p ELSE NoPath]
  /\ commands' = commands + 1
  /\ UNCHANGED <<tree, litter, nextId, cwd, cmd, step, target, temp, seen, uploads,
                 raced, stale>>

\* std::filesystem::rename replaces a file by a file, and moves a directory to a
\* free path outside of itself when nothing in it is open.
CanRename(p, q) ==
  /\ Exists(p) /\ q \in Paths \ {Root, p} /\ IsDir(Parent(q))
  /\ \/ IsFile(p) /\ ~IsDir(q)
     \/ /\ IsDir(p) /\ ~Exists(q) /\ ~Within(q, p)
        /\ \A r \in Paths : Within(r, p) => ~Open(r)

\* Where a path that may lie in p is once p is renamed to q.
Moved(r, p, q) == IF Within(r, p) THEN q \o SubSeq(r, Len(p) + 1, Len(r)) ELSE r

\* Mutant: the source is copied and stays.
RenamedCopy(p, q) ==
  [r \in Paths |-> IF Within(r, q) /\ Moved(r, q, p) \in Paths
                   THEN tree[Moved(r, q, p)] ELSE tree[r]]

Renamed(p, q) ==
  [r \in Paths |-> IF Within(r, q) /\ Moved(r, q, p) \in Paths
                   THEN tree[Moved(r, q, p)]
                   ELSE IF Within(r, p) THEN Absent ELSE tree[r]]

\* Bound: nothing is moved below MaxDepth.
Fits(p, q) == \A r \in Paths : Within(r, p) /\ tree[r] # Absent => Moved(r, p, q) \in Paths

\* The rename fails, or changes nothing because the two paths are the same, or is
\* made; the pending one is used up in any case.
Rnto(s, input) ==
  LET p == rename[s]
      q == Resolve(cwd[s], input) IN
  /\ Idle(s) /\ p # NoPath
  /\ rename' = [rename EXCEPT ![s] = NoPath]
  /\ commands' = commands + 1
  /\ \/ /\ CanRename(p, q) /\ Fits(p, q)
        /\ tree' = Renamed(p, q)
        /\ temp' = [r \in Sessions |-> Moved(temp[r], p, q)]
        /\ litter' = {Moved(d, p, q) : d \in litter}
     \/ UNCHANGED <<tree, temp, litter>>
  /\ Races(s)
  /\ UNCHANGED <<nextId, cwd, cmd, step, target, seen, uploads, stale>>

-----------------------------------------------------------------------------
(* Uploads *)

\* Mutant: the number is not advanced.
TakeIdAgain(s) ==
  /\ \/ Idle(s) /\ commands' = commands + 1
     \/ step[s] = "taken" /\ UNCHANGED commands
  /\ nextId \in DOMAIN UniqueName
  /\ cmd' = [cmd EXCEPT ![s] = "STOU"]
  /\ target' = [target EXCEPT ![s] = Append(cwd[s], UniqueName[nextId])]
  /\ Goes(s, "reserve")
  /\ UNCHANGED <<tree, litter, nextId, cwd, rename, temp, seen, uploads, raced, stale>>

\* STOU takes a number, and another one while the name exists.
TakeId(s) ==
  /\ \/ Idle(s) /\ commands' = commands + 1
     \/ step[s] = "taken" /\ UNCHANGED commands
  /\ nextId \in DOMAIN UniqueName
  /\ nextId' = nextId + 1
  /\ cmd' = [cmd EXCEPT ![s] = "STOU"]
  /\ target' = [target EXCEPT ![s] = Append(cwd[s], UniqueName[nextId])]
  /\ Goes(s, "reserve")
  /\ UNCHANGED <<tree, litter, cwd, rename, temp, seen, uploads, raced, stale>>

\* CREATE_NEW makes the empty file, or finds the name taken, or fails.
Reserve(s) ==
  LET p == target[s] IN
  /\ step[s] = "reserve"
  /\ \/ /\ p \in Paths /\ IsDir(Parent(p)) /\ ~Exists(p)
        /\ Put(p, File(<<>>)) /\ Races(s)
        /\ Goes(s, "open") /\ UNCHANGED <<cmd, target>>
     \/ /\ Exists(p)
        /\ Goes(s, "taken") /\ UNCHANGED <<tree, raced, cmd, target>>
     \/ Ends(s) /\ Looks(s) /\ UNCHANGED tree
  /\ UNCHANGED <<litter, nextId, cwd, rename, temp, seen, commands, uploads, stale>>

\* ChunkedFileWriter makes its temporary file beside the destination, or, for APPE,
\* beside the staging file: one that is no longer there has been moved away with its
\* directory and stays.
OpenWriter(s) ==
  LET d == Parent(target[s]) IN
  /\ step[s] = "open" /\ IsDir(d)
  /\ temp' = [temp EXCEPT ![s] = d]
  /\ litter' = litter \cup ({temp[s]} \ {NoPath, d})
  /\ Goes(s, "receive")
  /\ UNCHANGED <<tree, nextId, cwd, rename, cmd, target, seen, commands, uploads,
                 raced, stale>>

\* STOR, STOU: the commit replaces the file that is there, if any.
Store(s) ==
  LET p == target[s] IN
  /\ step[s] = "receive" /\ cmd[s] \in {"STOR", "STOU"}
  /\ ~IsDir(p)
  /\ Put(p, File(<<uploads + 1>>))
  /\ uploads' = uploads + 1
  /\ temp' = [temp EXCEPT ![s] = NoPath]
  /\ Ends(s) /\ Races(s)
  /\ UNCHANGED <<litter, nextId, cwd, rename, seen, commands, stale>>

\* APPE: the upload is in the staging file, which is closed.
Staged(s) ==
  /\ step[s] = "receive" /\ cmd[s] = "APPE"
  /\ Goes(s, "append")
  /\ UNCHANGED <<tree, litter, nextId, cwd, rename, cmd, target, temp, seen, commands,
                 uploads, raced, stale>>

\* appendAtomically copies what is there.  An existing file without bytes makes it
\* fail, as in StorTransfer.
ReadExisting(s) ==
  LET p == target[s] IN
  /\ step[s] = "append" /\ temp[s] = Parent(p) /\ IsDir(Parent(p))
  /\ ~Exists(p) \/ (IsFile(p) /\ tree[p].data # <<>>)
  /\ seen' = [seen EXCEPT ![s] = tree[p].data]
  /\ Goes(s, "move") /\ Looks(s)
  /\ UNCHANGED <<tree, litter, nextId, cwd, rename, cmd, target, temp, commands,
                 uploads, stale>>

\* ... and puts the combined file in its place, whatever is there by now.
MoveOver(s) ==
  LET p == target[s] IN
  /\ step[s] = "move" /\ temp[s] = Parent(p) /\ IsDir(Parent(p)) /\ ~IsDir(p)
  /\ Put(p, File(Append(seen[s], uploads + 1)))
  /\ uploads' = uploads + 1
  /\ stale' = (stale \/ raced[s])
  /\ temp' = [temp EXCEPT ![s] = NoPath]
  /\ seen' = [seen EXCEPT ![s] = <<>>]
  /\ Ends(s) /\ Races(s)
  /\ UNCHANGED <<litter, nextId, cwd, rename, commands>>

\* The transfer, the disk or an ABOR ends an upload: temporary files are removed if
\* they are where they were made, and STOU takes its reservation back.
UploadFails(s) ==
  /\ step[s] \in {"open", "receive", "append", "move"}
  /\ \/ cmd[s] = "STOU" /\ CanRemove(target[s]) /\ Put(target[s], Absent)
     \/ UNCHANGED tree
  /\ litter' = litter \cup ({temp[s]} \ {NoPath, Parent(target[s])})
  /\ temp' = [temp EXCEPT ![s] = NoPath]
  /\ seen' = [seen EXCEPT ![s] = <<>>]
  /\ Ends(s) /\ Races(s)
  /\ UNCHANGED <<nextId, cwd, rename, commands, uploads, stale>>

-----------------------------------------------------------------------------

Init ==
  /\ tree = InitialTree /\ litter = {} /\ nextId = 1
  /\ cwd = [s \in Sessions |-> Root] /\ rename = [s \in Sessions |-> NoPath]
  /\ cmd = [s \in Sessions |-> "none"] /\ step = [s \in Sessions |-> "idle"]
  /\ target = [s \in Sessions |-> NoPath] /\ temp = [s \in Sessions |-> NoPath]
  /\ seen = [s \in Sessions |-> <<>>]
  /\ commands = 0 /\ uploads = 0
  /\ raced = [s \in Sessions |-> FALSE] /\ stale = FALSE

Inputs == Names \cup {"", ".."}

Command(s) ==
  \/ Cdup(s) \/ TakeId(s)
  \/ \E i \in Inputs :
       \/ Cwd(s, i) \/ Rnfr(s, i) \/ Rnto(s, i)
       \/ \E c \in {"MKD", "RMD", "DELE", "STOR", "APPE"} : Look(s, c, i)

Act(s) == MakeDir(s) \/ Remove(s) \/ ActFails(s)

Upload(s) == \/ Reserve(s) \/ OpenWriter(s) \/ Store(s) \/ Staged(s)
             \/ ReadExisting(s) \/ MoveOver(s) \/ UploadFails(s)

\* The bound is reached, or the clients ask for nothing more.
Done == /\ \A s \in Sessions : step[s] = "idle"
        /\ UNCHANGED vars

Next == Done \/ \E s \in Sessions : Command(s) \/ Act(s) \/ Upload(s)

Spec == Init /\ [][Next]_vars

-----------------------------------------------------------------------------
(* Properties *)

\* Types; the sessions stay below the server root.
TypeOK ==
  /\ tree \in [Paths -> Nodes] /\ litter \subseteq Paths
  /\ nextId \in 1 .. Len(UniqueName) + 1
  /\ cwd \in [Sessions -> Paths] /\ rename \in [Sessions -> Paths \cup {NoPath}]
  /\ cmd \in [Sessions -> {"none", "MKD", "RMD", "DELE", "STOR", "STOU", "APPE"}]
  /\ step \in [Sessions -> {"idle", "act", "reserve", "taken", "open", "receive",
                            "append", "move"}]
  /\ target \in [Sessions -> Seq(AllNames) \cup {NoPath}]
  /\ temp \in [Sessions -> Paths \cup {NoPath}]
  /\ seen \in [Sessions -> Seq(Int)]
  /\ commands \in 0 .. MaxCommands /\ uploads \in Nat
  /\ raced \in [Sessions -> BOOLEAN] /\ stale \in BOOLEAN

\* The tree stays a tree: the server root is there, and whatever is in it is in a
\* directory, temporary files included, whoever removes or renames that directory.
TreeStands ==
  /\ tree[Root] = Dir
  /\ \A p, q \in Paths : tree[p] # Absent /\ Within(p, q) /\ p # q => tree[q] = Dir
  /\ \A p \in Paths : HasTemporary(p) => tree[p] = Dir

Reserving(s) == cmd[s] = "STOU" /\ step[s] \in {"reserve", "open", "receive"}

\* No two uploads under way were given the same name by STOU, also if the file was
\* removed or renamed in between.
GivenOnce ==
  \A s, t \in Sessions : s # t /\ Reserving(s) /\ Reserving(t) => target[s] # target[t]

\* Between its look and its act a command finds the target as it left it, unless
\* another session has changed it: the directory of a RMD, the empty file of a STOU,
\* and for APPE the content that was read.
LeftAlone ==
  \A s \in Sessions : ~raced[s] =>
    /\ cmd[s] = "RMD" /\ step[s] = "act" => tree[target[s]] = Dir
    /\ cmd[s] = "STOU" /\ step[s] \in {"open", "receive"} => tree[target[s]] = File(<<>>)
    /\ step[s] = "move" => tree[target[s]].data = seen[s]

\* A command that runs has a path of its own below the root, and a worker that
\* receives has its temporary file beside it.
CommandsInStep ==
  \A s \in Sessions :
    /\ step[s] # "idle" => target[s] \in Seq(AllNames) \ {Root}
    /\ step[s] \in {"act", "open", "receive", "append", "move"} => target[s] \in Paths
    /\ step[s] = "receive" => temp[s] = Parent(target[s])
    /\ step[s] \in {"append", "move"} => cmd[s] = "APPE"

\* The names under way were made from different numbers, all of them used up.
NumbersInStep ==
  /\ \A s \in Sessions : Reserving(s) =>
       \E i \in DOMAIN UniqueName :
         i < nextId /\ target[s][Len(target[s])] = UniqueName[i]
  /\ \A s, t \in Sessions : s # t /\ Reserving(s) /\ Reserving(t) =>
       target[s][Len(target[s])] # target[t][Len(target[t])]

\* The inductive invariant.
Inv == TypeOK /\ TreeStands /\ CommandsInStep /\ NumbersInStep /\ LeftAlone

Data(node) == {node.data[i] : i \in DOMAIN node.data}
Held == UNION {Data(tree[p]) : p \in Paths}

\* The session is about to replace or remove p because its client said so, or because
\* another session has changed p under it.
MayLose(s, p) ==
  \/ target[s] = p /\ cmd[s] = "DELE" /\ step[s] = "act"
  \/ target[s] = p /\ cmd[s] = "STOR" /\ step[s] = "receive"
  \/ target[s] = p /\ raced[s]
  \/ rename[s] # NoPath /\ IsFile(rename[s]) /\ tree'[p] = tree[rename[s]]

\* Stored data disappears only by a DELE, STOR or RNTO of its own path, or in a race
\* for that path: no other command of any session ever loses an upload.
NothingLostUnasked ==
  [][\A u \in Held \ Held' :
       \E s \in Sessions, p \in Paths : u \in Data(tree[p]) /\ MayLose(s, p)]_vars

\* An upload is in one place and there once, unless an append has written back what
\* another session had moved or removed.
OneCopy == stale \/ HoldsOnce(tree)

\* The inductive invariant, with the numbers of the uploads: the next one is new.
Inventory == Inv /\ OneCopy /\ (stale \/ NoneAfter(tree, uploads))

\* An APPE never loses what the file held when it took its place.
AppendKeeps ==
  [][\A s \in Sessions : step[s] = "move" /\ step'[s] = "idle" => Held \subseteq Held']_vars

=============================================================================
