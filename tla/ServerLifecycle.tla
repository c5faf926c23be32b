--------------------------- MODULE ServerLifecycle ---------------------------
(***************************************************************************)
(* Opening and closing a room (server/server.go, Start, Stop and           *)
(* broadcastHost; mdns.go): the flag isRunning, the listener, the mDNS     *)
(* registration, and the two goroutines of every Start.  Stop waits for    *)
(* neither, so that goroutines of several Starts may be alive at once and  *)
(* share the flag and the field s.listener.  What happens on an accepted   *)
(* connection is Registry's.                                               *)
(***************************************************************************)
EXTENDS Integers, FiniteSets

CONSTANTS
  Port,        \* ports of the rooms a teacher may open
  MaxStarts    \* bound: calls of Start in one run of the program

ASSUME LifecycleAssumption == MaxStarts \in Nat

Run == 1 .. MaxStarts       \* a call of Start
NoRun == 0

VARIABLES
  shown,      \* the dashboard is on screen: a room is open for the teacher
  starts,     \* calls of Start so far
  port,       \* the port of each
  isRunning,
  listener,   \* the run whose listener is in s.listener
  bound,      \* runs whose listener is open
  acceptor,   \* where the accept goroutine of each run stands
  announcer,  \* where the broadcast goroutine of each run stands
  advertised, \* runs whose mDNS registration is alive
  cancel,     \* the run whose registration s.mdnsCancel shuts down
  cancelled,  \* mdnsCancelOnce is used up
  overtaken   \* a room was opened while an earlier one was Unfinished

lifeVars == <<shown, starts, port, isRunning, listener, bound, acceptor, announcer,
              advertised, cancel, cancelled, overtaken>>

LifeTypeOK ==
  /\ shown \in BOOLEAN
  /\ starts \in 0 .. MaxStarts
  /\ port \in [Run -> Port]
  /\ isRunning \in BOOLEAN
  /\ listener \in Run \cup {NoRun}
  /\ bound \subseteq Run
  /\ acceptor \in [Run -> {"none", "begin", "store", "top", "accept", "ended", "failed"}]
  /\ announcer \in [Run -> {"none", "top", "sleep", "ended"}]
  /\ advertised \subseteq Run
  /\ cancel \in Run \cup {NoRun}
  /\ cancelled \in BOOLEAN
  /\ overtaken \in BOOLEAN

\* NewServer; which rooms the teacher will open is not known to it.
LifeInit ==
  /\ shown = FALSE /\ starts = 0
  /\ port \in [Run -> Port]
  /\ isRunning = FALSE
  /\ listener = NoRun /\ bound = {}
  /\ acceptor = [r \in Run |-> "none"]
  /\ announcer = [r \in Run |-> "none"]
  /\ advertised = {} /\ cancel = NoRun /\ cancelled = FALSE
  /\ overtaken = FALSE

-----------------------------------------------------------------------------
(* The UI thread. *)

\* Seeded fault: a registration that failed is counted with the others.
Advertise_CountFailed(r) ==
  /\ cancel' \in {r, NoRun}
  /\ advertised' = advertised \cup {cancel'}

\* advertiseMDNS: the registration may fail; it starts a new one, and Start
\* keeps in s.mdnsCancel what shuts that one down.
Advertise(r) ==
  /\ cancel' \in {r, NoRun}
  /\ advertised' = advertised \cup ({cancel'} \ {NoRun})

\* An earlier room has its listen before it, or its listener still open.
Unfinished == bound # {} \/ \E q \in Run : acceptor[q] = "begin"

\* Seeded fault: the flag, lowered by the first Stop, is not raised again.
Start_KeepFlag ==
  /\ ~shown /\ starts < MaxStarts
  /\ shown' = TRUE
  /\ starts' = starts + 1
  /\ isRunning' = (starts = 0 \/ isRunning)
  /\ Advertise(starts')
  /\ acceptor' = [acceptor EXCEPT ![starts'] = "begin"]
  /\ announcer' = [announcer EXCEPT ![starts'] = "top"]
  /\ overtaken' = (overtaken \/ Unfinished)
  /\ UNCHANGED <<port, listener, bound, cancelled>>

\* OpenRoom: Start with the room's port.
Start ==
  /\ ~shown /\ starts < MaxStarts
  /\ shown' = TRUE
  /\ starts' = starts + 1
  /\ isRunning' = TRUE
  /\ Advertise(starts')
  /\ acceptor' = [acceptor EXCEPT ![starts'] = "begin"]
  /\ announcer' = [announcer EXCEPT ![starts'] = "top"]
  /\ overtaken' = (overtaken \/ Unfinished)
  /\ UNCHANGED <<port, listener, bound, cancelled>>

\* Seeded fault: the listener is left to its goroutine.
Stop_LeaveListener ==
  /\ shown
  /\ shown' = FALSE
  /\ isRunning' = FALSE
  /\ advertised' = IF cancelled THEN advertised ELSE advertised \ {cancel}
  /\ cancelled' = TRUE
  /\ UNCHANGED <<starts, port, listener, bound, acceptor, announcer, cancel, overtaken>>

\* BtnStop: only the first Stop of the program calls its mdnsCancel, and the
\* listener it closes is the one that was stored last.
Stop ==
  /\ shown
  /\ shown' = FALSE
  /\ isRunning' = FALSE
  /\ advertised' = IF cancelled THEN advertised ELSE advertised \ {cancel}
  /\ cancelled' = TRUE
  /\ bound' = bound \ {listener}
  /\ UNCHANGED <<starts, port, listener, acceptor, announcer, cancel, overtaken>>

-----------------------------------------------------------------------------
(* The accept goroutine. *)

Become(r, step) == acceptor' = [acceptor EXCEPT ![r] = step]
PortTaken(r) == \E q \in bound : port[q] = port[r]

Listen(r) ==
  /\ acceptor[r] = "begin"
  /\ ~PortTaken(r)
  /\ bound' = bound \cup {r}
  /\ Become(r, "store")
  /\ UNCHANGED <<shown, starts, port, isRunning, listener, announcer, advertised, cancel,
                 cancelled, overtaken>>

\* The port is taken, by this program or by another: whatever room is open by
\* now, the flag falls.
ListenFails(r) ==
  /\ acceptor[r] = "begin"
  /\ isRunning' = FALSE
  /\ Become(r, "failed")
  /\ UNCHANGED <<shown, starts, port, listener, bound, announcer, advertised, cancel,
                 cancelled, overtaken>>

\* s.listener is overwritten, whatever it held.
Store(r) ==
  /\ acceptor[r] = "store"
  /\ listener' = r
  /\ Become(r, "top")
  /\ UNCHANGED <<shown, starts, port, isRunning, bound, announcer, advertised, cancel,
                 cancelled, overtaken>>

\* Seeded fault: the goroutine leaves its listener to Stop.
AcceptTop_LeaveOpen(r) ==
  /\ acceptor[r] = "top"
  /\ Become(r, IF isRunning THEN "accept" ELSE "ended")
  /\ UNCHANGED <<shown, starts, port, isRunning, listener, bound, announcer, advertised,
                 cancel, cancelled, overtaken>>

\* The head of the loop; on the way out the listener is closed.
AcceptTop(r) ==
  /\ acceptor[r] = "top"
  /\ IF isRunning THEN Become(r, "accept") /\ UNCHANGED bound
                  ELSE Become(r, "ended") /\ bound' = bound \ {r}
  /\ UNCHANGED <<shown, starts, port, isRunning, listener, announcer, advertised,
                 cancel, cancelled, overtaken>>

\* AcceptTCP has no deadline: on an open listener it returns when a client
\* connects, and not before.
Connect(r) ==
  /\ acceptor[r] = "accept" /\ r \in bound
  /\ Become(r, "top")
  /\ UNCHANGED <<shown, starts, port, isRunning, listener, bound, announcer, advertised,
                 cancel, cancelled, overtaken>>

\* On a listener that has been closed it returns an error at once: continue.
AcceptFails(r) ==
  /\ acceptor[r] = "accept" /\ r \notin bound
  /\ Become(r, "top")
  /\ UNCHANGED <<shown, starts, port, isRunning, listener, bound, announcer, advertised,
                 cancel, cancelled, overtaken>>

-----------------------------------------------------------------------------
(* The broadcast goroutine: a datagram to the room's port, and a second of *)
(* sleep, whatever came of it.                                             *)

Announce(r) ==
  /\ announcer[r] = "top"
  /\ announcer' = [announcer EXCEPT ![r] = IF isRunning THEN "sleep" ELSE "ended"]
  /\ UNCHANGED <<shown, starts, port, isRunning, listener, bound, acceptor, advertised,
                 cancel, cancelled, overtaken>>

WakeAnnouncer(r) ==
  /\ announcer[r] = "sleep"
  /\ announcer' = [announcer EXCEPT ![r] = "top"]
  /\ UNCHANGED <<shown, starts, port, isRunning, listener, bound, acceptor, advertised,
                 cancel, cancelled, overtaken>>

-----------------------------------------------------------------------------
Acceptor(r) == Listen(r) \/ ListenFails(r) \/ Store(r) \/ AcceptTop(r) \/ AcceptFails(r)
Announcer(r) == Announce(r) \/ WakeAnnouncer(r)

LifeNext == Start \/ Stop \/ \E r \in Run : Acceptor(r) \/ Connect(r) \/ Announcer(r)

(***************************************************************************)
(* Goroutines are scheduled.  Nothing is assumed of the teacher, nor of    *)
(* the students: nobody need ever connect.                                 *)
(***************************************************************************)
LifeFairness ==
  \A r \in Run : WF_lifeVars(Acceptor(r)) /\ WF_lifeVars(Announcer(r))

LifeSpec == LifeInit /\ [][LifeNext]_lifeVars /\ LifeFairness
-----------------------------------------------------------------------------
(* Properties. *)

\* No listener is left without the goroutine that closes it on its way out:
\* Stop closes only the one that was stored last (server.go, Start and Stop).
OpenIsOwned == \A r \in bound : acceptor[r] \in {"store", "top", "accept"}

\* The flag is the teacher's room: it is up only while a room is on screen, it
\* is down under an open room only if that room's listen failed (or, where one
\* room was opened over the listen of another, if either's did), and
\* while it is up both goroutines of the room on screen are at work on a
\* listener of their own, whatever goroutines of earlier rooms are still alive
\* (server.go, Start and Stop).
OpenRoomIsServed ==
  /\ isRunning => shown /\ starts \in Run
  /\ isRunning => acceptor[starts] \in {"begin", "store", "top", "accept"}
                 /\ announcer[starts] \in {"top", "sleep"}
                 /\ (acceptor[starts] # "begin" => starts \in bound)
  /\ shown /\ ~isRunning =>
       \/ acceptor[starts] = "failed"
       \/ overtaken /\ \E q \in Run : acceptor[q] = "failed"

\* Unless a room was opened over the listen of an earlier one, no listener
\* outlives its room: the next room finds every port of this program's free, and
\* a goroutine waits for clients only under the room on screen, on the listener
\* that Stop will close (server.go, Start and Stop).
ClosedRoomLetsGo ==
  ~overtaken =>
    /\ bound \subseteq {starts}
    /\ \A r \in bound : /\ acceptor[r] # "begin"
                        /\ acceptor[r] = "accept" => shown /\ listener = r

Ended(r) == acceptor[r] \in {"none", "ended", "failed"} /\ r \notin bound

\* Left in AcceptTCP on a listener that s.listener no longer holds: Stop has
\* closed another one, and only a client can wake it.
Stranded(r) == acceptor[r] = "accept" /\ r \in bound /\ listener # r

\* When the teacher has closed the last room every goroutine of every Start
\* ends and no listener is left; but a goroutine whose listen a later Start
\* overtook may be stranded, and its room's port with it, for ever (server.go,
\* Start and Stop).
QuietAfterStop ==
  <>[](~shown) =>
    <>[](\A r \in Run : /\ announcer[r] \in {"none", "ended"}
                        /\ Ended(r) \/ (overtaken /\ Stranded(r)))

\* A room the teacher leaves open comes to accept on its port and keeps on,
\* with or without clients, unless its own listen fails, or some listen does
\* where one room was opened over the listen of another (server.go,
\* Start).
OpenRoomAccepts ==
  \A r \in Run :
    <>[](shown /\ starts = r) =>
      \/ <>[](r \in bound /\ acceptor[r] \in {"top", "accept"})
      \/ <>(acceptor[r] = "failed")
      \/ <>(overtaken /\ \E q \in Run : acceptor[q] = "failed")
=============================================================================
