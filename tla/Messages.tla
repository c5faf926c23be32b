------------------------------ MODULE Messages ------------------------------
(***************************************************************************)
(* The teacher's messages: the dialog and sendMessage                      *)
(* (server/dashboard.go), their way through the connection registry        *)
(* (server.go, BroadcastControlAll, SendToStudent, ConnectedStudentIDs)    *)
(* and the toast they raise in the student's program (client/ui/toast.go). *)
(* The UI thread reads the registry and then writes to what it found,      *)
(* while the handlers of module Registry go on.                            *)
(*                                                                         *)
(* A message is known by its addressee.  The session is left out: the      *)
(* dialog opens while the exam is Capturing, but once open it can be       *)
(* confirmed whatever comes of the exam, and messages go to Waiting and    *)
(* Stopped clients too.  So are pictures and acknowledgements, which       *)
(* change no key of the registry.  The record of the message, one row of   *)
(* the log written before sendMessage returns, is left out.                *)
(***************************************************************************)
EXTENDS Registry, Sequences

CONSTANTS
  Everyone,     \* the addressee of a message to all
  Nobody,       \* no student is picked; no toast is shown
  MaxMessages   \* bound: how many messages the teacher sends

ASSUME MessageAssumption ==
  /\ Everyone # Nobody
  /\ {Everyone, Nobody} \cap Student = {}
  /\ MaxMessages \in Nat

Addressee == Student \cup {Everyone, Nobody}

VARIABLES
  dialog,   \* msgDialog: TargetAll and TargetID while it is open
  sending,  \* the UI thread: idle, or where it stands in sendMessage
  messages, \* how many messages have been sent
  owner,    \* the student whose program dialled each connection
  mail,     \* messages written to each connection and not yet read
  toast     \* ToastState of each student's program

msgVars == <<dialog, sending, messages, owner, mail, toast>>
deskVars == <<dialog, sending, messages>>

Closed == [open |-> FALSE, all |-> TRUE, id |-> Nobody]
Resting == [step |-> "idle", to |-> Nobody, targets |-> {}]

MessageInit ==
  /\ Init
  /\ dialog = Closed
  /\ sending = Resting
  /\ messages = 0
  /\ owner \in [Conn -> Student]
  /\ mail = [c \in Conn |-> <<>>]
  /\ toast = [s \in Student |-> Nobody]

-----------------------------------------------------------------------------
(* The dialog. *)

AtDialog == running /\ sending.step = "idle" /\ dialog.open
Dialog(d) ==
  /\ dialog' = d
  /\ UNCHANGED <<vars, sending, messages, owner, mail, toast>>

\* BtnSendMsg: what an earlier dialog held is overwritten.
OpenMsgDialog ==
  /\ running /\ sending.step = "idle"
  /\ Dialog([Closed EXCEPT !.open = TRUE])

\* Cancelled, or confirmed with an empty text.
CancelMsg == AtDialog /\ Dialog(Closed)

PickAll == AtDialog /\ Dialog([dialog EXCEPT !.all = TRUE])

\* The student picked before, if any, is picked again.
PickSelected == AtDialog /\ Dialog([dialog EXCEPT !.all = FALSE])

\* There is a button for each tile; a picked student may leave.
PickStudent(s) ==
  /\ AtDialog /\ ~dialog.all
  /\ tile[s] # "none"
  /\ Dialog([dialog EXCEPT !.id = s])

ConfirmMsg ==
  /\ AtDialog
  /\ messages < MaxMessages
  /\ messages' = messages + 1
  /\ dialog' = Closed
  /\ sending' = [Resting EXCEPT !.step = "find",
                                !.to = IF dialog.all THEN Everyone ELSE dialog.id]
  /\ UNCHANGED <<vars, owner, mail, toast>>

-----------------------------------------------------------------------------
(* sendMessage: find the connections and write to them. *)

Entries == { conns[k] : k \in Key } \ {NoConn}

\* Seeded fault: a student who is not registered is looked for among all.
Find_FallBack ==
  /\ sending.step = "find"
  /\ sending' = [sending EXCEPT !.step = "write",
       !.targets = IF sending.to \notin Student THEN Entries
                   ELSE IF conns[sending.to] = NoConn THEN Entries
                   ELSE {conns[sending.to]}]
  /\ UNCHANGED <<vars, dialog, messages, owner, mail, toast>>

\* BroadcastControlAll takes all connections, placeholders included;
\* SendToStudent the one under the student's id, or none.
Find ==
  /\ sending.step = "find"
  /\ sending' = [sending EXCEPT !.step = "write",
       !.targets = IF sending.to = Everyone THEN Entries
                   ELSE { conns[s] : s \in Student \cap {sending.to} } \ {NoConn}]
  /\ UNCHANGED <<vars, dialog, messages, owner, mail, toast>>

\* A write succeeds when the socket takes it, which says nothing of the reader.
WriteMessage(c) ==
  /\ sending.step = "write" /\ c \in sending.targets
  /\ pc[c] # "done"
  /\ sending' = [sending EXCEPT !.targets = @ \ {c}]
  /\ mail' = [mail EXCEPT ![c] = Append(@, sending.to)]
  /\ UNCHANGED <<vars, dialog, messages, owner, toast>>

\* The socket is closed, or two seconds pass: logged or ignored.
WriteFails(c) ==
  /\ sending.step = "write" /\ c \in sending.targets
  /\ sending' = [sending EXCEPT !.targets = @ \ {c}]
  /\ UNCHANGED <<vars, dialog, messages, owner, mail, toast>>

\* The dialog's frame is done, and the UI thread takes the next click.
Sent ==
  /\ sending.step = "write" /\ sending.targets = {}
  /\ sending' = Resting
  /\ UNCHANGED <<vars, dialog, messages, owner, mail, toast>>

Desk ==
  \/ OpenMsgDialog \/ CancelMsg \/ PickAll \/ PickSelected
  \/ (\E s \in Student : PickStudent(s)) \/ ConfirmMsg
  \/ Find \/ (\E c \in Conn : WriteMessage(c) \/ WriteFails(c)) \/ Sent

-----------------------------------------------------------------------------
(* The student's program. *)

\* dispatchControl and ToastState.Set: the last message takes the place of
\* the one on screen, and its five seconds begin.
Receive(c) ==
  /\ mail[c] # <<>>
  /\ toast' = [toast EXCEPT ![owner[c]] = Head(mail[c])]
  /\ mail' = [mail EXCEPT ![c] = Tail(@)]
  /\ UNCHANGED <<vars, deskVars, owner>>

\* The client has closed its socket, or the path is cut.
MailLost(c) ==
  /\ mail[c] # <<>>
  /\ mail' = [mail EXCEPT ![c] = <<>>]
  /\ UNCHANGED <<vars, deskVars, owner, toast>>

\* Five seconds pass, or the student dismisses the toast.
ToastEnds(s) ==
  /\ toast[s] # Nobody
  /\ toast' = [toast EXCEPT ![s] = Nobody]
  /\ UNCHANGED <<vars, deskVars, owner, mail>>

-----------------------------------------------------------------------------
(* The registry: a program gives the name of its own student. *)

Registration(c) ==
  /\ \/ Accept(c) \/ HandshakeOK(c) \/ HandshakeFails(c) \/ Register(c)
     \/ RecvName(c, owner[c])
     \/ Unkey(c) \/ Rekey(c) \/ CheckExists(c) \/ AddStudent(c) \/ UpdateName(c)
     \/ Leave(c) \/ Unregister(c) \/ Removal(c)
  /\ UNCHANGED msgVars

\* BtnStop is a click like the others; the dialog and its choice stay.
LeaveRoom ==
  /\ sending.step = "idle"
  /\ CloseRoom \/ \E sameLog \in BOOLEAN : ReopenRoom(sameLog)
  /\ UNCHANGED msgVars

MessageNext ==
  \/ Desk \/ LeaveRoom
  \/ \E c \in Conn : Registration(c) \/ Receive(c) \/ MailLost(c)
  \/ \E s \in Student : ToastEnds(s)

MessageSpec == MessageInit /\ [][MessageNext]_<<vars, msgVars>>

-----------------------------------------------------------------------------
(* Properties. *)

(***************************************************************************)
(* A message to one student is shown to nobody else: however connections   *)
(* are registered under their address and again under an id, replaced by a *)
(* reconnect or removed by an older handler, while the dialog keeps a      *)
(* student picked who has left (sendMessage and SendToStudent against      *)
(* handleStudent's NAME case and deferred unregisterConn).                 *)
(***************************************************************************)
OnlyAddressee == \A s \in Student : toast[s] \in {s, Everyone, Nobody}
=============================================================================
