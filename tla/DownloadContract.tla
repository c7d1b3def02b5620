-------------------------- MODULE DownloadContract --------------------------
(***************************************************************************)
(* What one RETR promises, with the data channel left out: the client's    *)
(* destination is replaced as a whole or not at all, the client ends the   *)
(* transfer saved or failed, and the server reports 226 only for a         *)
(* download that the client has saved.                                     *)
(***************************************************************************)
CONSTANTS File,          \* the chunks of the served file
          OldFile        \* what the client's destination holds before

VARIABLES destination,   \* content of the client's local destination
          client,        \* state of the client's transfer worker
          reply          \* completion reply of the server's transfer worker

vars == <<destination, client, reply>>

Init == /\ destination = OldFile
        /\ client = "working"
        /\ reply = "none"

\* The temporary file replaces the destination in one step.
CommitFile == /\ client = "working"
              /\ destination = OldFile
              /\ destination' = File
              /\ UNCHANGED <<client, reply>>

ClientSaved == /\ client = "working"
               /\ destination = File
               /\ client' = "saved"
               /\ UNCHANGED <<destination, reply>>

\* A client may fail after its commit: the acknowledgement could not be sent.
ClientFailed == /\ client = "working"
                /\ client' = "failed"
                /\ UNCHANGED <<destination, reply>>

ReplyComplete == /\ reply = "none"
                 /\ client = "saved"
                 /\ reply' = "226"
                 /\ UNCHANGED <<destination, client>>

\* 426 "Transfer failed.", or nothing at all after an abort.
ReplyFailed == /\ reply = "none"
               /\ reply' \in {"426", "suppressed"}
               /\ UNCHANGED <<destination, client>>

ClientEnds == ClientSaved \/ ClientFailed
ServerEnds == ReplyComplete \/ ReplyFailed

\* A saved client whose final acknowledgement already reached the server may
\* still see its reply suppressed by an abort, so 226 itself is not promised.
Next == CommitFile \/ ClientEnds \/ ServerEnds

Spec == Init /\ [][Next]_vars /\ WF_vars(ClientEnds) /\ WF_vars(ServerEnds)

=============================================================================
