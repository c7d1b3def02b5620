--------------------------- MODULE ClientRegistry ---------------------------
(***************************************************************************)
(* The table of connected clients, one entry per socket handle, and what   *)
(* the session threads do to it.  A handle is free as soon as its socket   *)
(* is closed; the session's entry is erased a little later, when           *)
(* handleClient returns.  No transfer runs in between: QUIT is refused     *)
(* during one, and a lost connection joins the worker before the close.    *)
(***************************************************************************)
EXTENDS TLC

CONSTANTS Clients,   \* connections, each from an address of its own
          Handles,   \* the values of SOCKET that the system gives out
          Users      \* names in Users::database

VARIABLES
  clients,   \* the table: an entry for each handle in its domain
  phase,     \* where the client's handleClient is
  socket,    \* its handle
  username   \* session.username

vars == <<clients, phase, socket, username>>

HasSocket(c) == phase[c] \in {"accepted", "serving"}

\* accept() gives a handle that no open socket has.
Accept(c, h) ==
  /\ phase[c] = "away" /\ \A d \in Clients : HasSocket(d) => socket[d] # h
  /\ phase' = [phase EXCEPT ![c] = "accepted"]
  /\ socket' = [socket EXCEPT ![c] = h]
  /\ username' = [username EXCEPT ![c] = ""]
  /\ UNCHANGED clients

AddClient(c) ==
  /\ phase[c] = "accepted"
  /\ clients' = socket[c] :> [address |-> c, username |-> ""] @@ clients
  /\ phase' = [phase EXCEPT ![c] = "serving"]
  /\ UNCHANGED <<socket, username>>

\* setUsername does nothing without an entry.
SetUsername(h, u) ==
  clients' = IF h \in DOMAIN clients THEN [clients EXCEPT ![h].username = u]
             ELSE clients

\* USER: the name is cleared, and set if it is known.
User(c, u) ==
  /\ phase[c] = "serving"
  /\ username' = [username EXCEPT ![c] = u]
  /\ SetUsername(socket[c], u)
  /\ UNCHANGED <<phase, socket>>

\* QUIT, or the client is gone: the socket is closed.
Close(c) ==
  /\ phase[c] = "serving"
  /\ phase' = [phase EXCEPT ![c] = "closed"]
  /\ UNCHANGED <<clients, socket, username>>

\* The destructor of RegistryGuard.
RemoveClient(c) ==
  /\ phase[c] = "closed"
  /\ clients' = [h \in DOMAIN clients \ {socket[c]} |-> clients[h]]
  /\ phase' = [phase EXCEPT ![c] = "away"]
  /\ UNCHANGED <<socket, username>>

-----------------------------------------------------------------------------

Init ==
  /\ clients = <<>>
  /\ phase = [c \in Clients |-> "away"]
  /\ socket \in [Clients -> Handles]
  /\ username = [c \in Clients |-> ""]

Next == \E c \in Clients :
          \/ \E h \in Handles : Accept(c, h)
          \/ AddClient(c) \/ Close(c) \/ RemoveClient(c)
          \/ \E u \in Users \cup {""} : User(c, u)

Spec == Init /\ [][Next]_vars

-----------------------------------------------------------------------------

\* "Register this session in the shared connected-clients table" (Session.cpp): a client
\* that is served has its entry, under its own address and name, until it leaves.
EveryClientListed ==
  \A c \in Clients : phase[c] = "serving" =>
    /\ socket[c] \in DOMAIN clients
    /\ clients[socket[c]] = [address |-> c, username |-> username[c]]

=============================================================================
