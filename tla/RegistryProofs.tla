--------------------------- MODULE RegistryProofs ---------------------------
(***************************************************************************)
(* Proofs about the connection registry, for any sets of connections and   *)
(* students and any number of reopens.  The safety properties of Registry  *)
(* are not inductive one by one; RegistryInv is: it adds to them how the   *)
(* stamps are handed out, what a handler's program counter says of its id  *)
(* and key, and who owns an activeConns entry.                             *)
(***************************************************************************)
EXTENDS Registry, TLAPS

(* Stamps are dates of registration: no two connections share one.         *)
Stamps ==
  /\ cleared <= clock
  /\ \A c \in Conn : stamp[c] <= clock /\ (stamp[c] = 0 <=> id[c] = NoStudent)
  /\ \A c, d \in Conn : c # d /\ stamp[c] = stamp[d] => stamp[c] = 0

(* What the handler's position says about its locals and its removal.      *)
Phases ==
  \A c \in Conn :
    /\ pc[c] \in {"idle", "handshake", "register"} => id[c] = NoStudent /\ key[c] = c
    /\ pc[c] \in Naming => id[c] # NoStudent
    /\ timer[c] # "none" => pc[c] \in {"closing", "done"} /\ id[c] # NoStudent

(* While a NAME is handled, activeConns is not behind it.                  *)
NamingActive ==
  \A c \in Conn : pc[c] \in Naming => activeConns[id[c]] >= stamp[c]

(* An activeConns entry has an owner that will account for its end.        *)
ActiveOwned ==
  \A s \in Student : activeConns[s] # 0 =>
     \E c \in Conn : AccountsFor(c, s, activeConns[s])

(* The newest connection of a student is the active one until it is gone.  *)
NewestActive ==
  \A c \in Conn : Newest(c) /\ AccountsFor(c, id[c], stamp[c])
                   => activeConns[id[c]] = stamp[c]

(* The active connection has its tile once its NAME is through.            *)
ActiveKeepsTile ==
  \A c \in Conn :
     /\ id[c] # NoStudent
     /\ activeConns[id[c]] = stamp[c]
     /\ stamp[c] > cleared
     /\ pc[c] \notin {"unkey", "rekey", "exists", "add"}
     => tile[id[c]] # "none"

TilesActive == \A s \in Student : tile[s] # "none" => activeConns[s] # 0

RegistryInv ==
  /\ TypeOK
  /\ Stamps
  /\ Phases
  /\ EntriesLive
  /\ NamingActive
  /\ ActiveOwned
  /\ NewestActive
  /\ TilesActive
  /\ ActiveKeepsTile
-----------------------------------------------------------------------------
(* Type correctness: every handler step, removal, close and reopen leaves  *)
(* the registry's variables in their types.                                *)
LEMMA TypeStep == TypeOK /\ Phases /\ [Next]_vars => TypeOK'
<1> SUFFICES ASSUME TypeOK, Phases, [Next]_vars PROVE TypeOK'
  OBVIOUS
<1> USE RegistryAssumption DEF TypeOK, Goto, Key, HandlerPc, Registered, TileState,
                               ClientState, netVars, gridVars
<1>1. ASSUME NEW c \in Conn, Accept(c) PROVE TypeOK'
  BY <1>1 DEF Accept
<1>2. ASSUME NEW c \in Conn, HandshakeOK(c) PROVE TypeOK'
  BY <1>2 DEF HandshakeOK
<1>3. ASSUME NEW c \in Conn, HandshakeFails(c) PROVE TypeOK'
  BY <1>3 DEF HandshakeFails
<1>4. ASSUME NEW c \in Conn, Register(c) PROVE TypeOK'
  BY <1>4 DEF Register
<1>5. ASSUME NEW c \in Conn, NEW s \in Student, RecvName(c, s) PROVE TypeOK'
  BY <1>5 DEF RecvName
<1>6. ASSUME NEW c \in Conn, Unkey(c) PROVE TypeOK'
  BY <1>6 DEF Unkey
<1>7. ASSUME NEW c \in Conn, Rekey(c) PROVE TypeOK'
  <2>1. id[c] \in Student
    BY <1>7 DEF Rekey, Phases, Naming
  <2>2. QED
    BY <1>7, <2>1 DEF Rekey
<1>8. ASSUME NEW c \in Conn, CheckExists(c) PROVE TypeOK'
  BY <1>8 DEF CheckExists
<1>9. ASSUME NEW c \in Conn, AddStudent(c) PROVE TypeOK'
  BY <1>9 DEF AddStudent
<1>10. ASSUME NEW c \in Conn, UpdateName(c) PROVE TypeOK'
  BY <1>10 DEF UpdateName
<1>11. ASSUME NEW c \in Conn, NEW st \in Acks, RecvAck(c, st) PROVE TypeOK'
  BY <1>11 DEF RecvAck
<1>12. ASSUME NEW c \in Conn, RecvPicture(c) PROVE TypeOK'
  BY <1>12 DEF RecvPicture
<1>13. ASSUME NEW c \in Conn, UpdateImage(c) PROVE TypeOK'
  BY <1>13 DEF UpdateImage
<1>14. ASSUME NEW c \in Conn, Leave(c) PROVE TypeOK'
  BY <1>14 DEF Leave
<1>15. ASSUME NEW c \in Conn, Unregister(c) PROVE TypeOK'
  BY <1>15 DEF Unregister
<1>16. ASSUME NEW c \in Conn, Removal(c) PROVE TypeOK'
  <2>1. id[c] \in Student
    BY <1>16 DEF Removal, Phases
  <2>2. CASE activeConns[id[c]] = stamp[c]
    <3>1. /\ timer' \in [Conn -> {"none", "armed", "fired"}]
          /\ activeConns' \in [Student -> Nat]
      BY <1>16, <2>1, <2>2 DEF Removal
    <3>2. tile' \in [Student -> TileState]
      BY <1>16, <2>1, <2>2 DEF Removal
    <3>3. picture' \in [Student -> BOOLEAN]
      BY <1>16, <2>1, <2>2 DEF Removal
    <3>4. lastLog' \in [Student -> {"none", "joined", "reconnected", "disconnected"}]
      BY <1>16, <2>1, <2>2 DEF Removal
    <3>5. UNCHANGED <<running, reopens, pc, key, id, stamp, conns, rcState, clock, cleared>>
      BY <1>16 DEF Removal
    <3>6. QED
      BY <3>1, <3>2, <3>3, <3>4, <3>5
  <2>3. CASE activeConns[id[c]] # stamp[c]
    BY <1>16, <2>3 DEF Removal
  <2>4. QED
    BY <2>2, <2>3
<1>17. CASE CloseRoom
  BY <1>17 DEF CloseRoom
<1>18. ASSUME NEW sameLog \in BOOLEAN, ReopenRoom(sameLog) PROVE TypeOK'
  BY <1>18 DEF ReopenRoom
<1>19. CASE UNCHANGED vars
  BY <1>19 DEF vars
<1> HIDE DEF TypeOK, Goto, netVars, gridVars
<1>20. QED
  BY <1>1, <1>2, <1>3, <1>4, <1>5, <1>6, <1>7, <1>8, <1>9, <1>10, <1>11, <1>12,
     <1>13, <1>14, <1>15, <1>16, <1>17, <1>18, <1>19 DEF Next, Handler

(* The steps of a handler that neither hand out a stamp nor change an id.  *)
Quiet(c) ==
  \/ Accept(c) \/ HandshakeOK(c) \/ HandshakeFails(c) \/ Register(c)
  \/ Unkey(c) \/ Rekey(c) \/ CheckExists(c) \/ AddStudent(c) \/ UpdateName(c)
  \/ (\E st \in Acks : RecvAck(c, st))
  \/ RecvPicture(c) \/ UpdateImage(c) \/ Leave(c) \/ Unregister(c)

(* A step is the arrival of a NAME, a removal, a close, a reopen, a quiet  *)
(* step of some handler, or nothing.                                       *)
LEMMA StepCases ==
  ASSUME [Next]_vars
  PROVE  \/ \E c \in Conn, s \in Student : RecvName(c, s)
         \/ \E c \in Conn : Removal(c)
         \/ CloseRoom
         \/ \E sameLog \in BOOLEAN : ReopenRoom(sameLog)
         \/ \E c \in Conn : Quiet(c)
         \/ UNCHANGED vars
  BY DEF Next, Handler, Quiet

(* What a quiet step leaves alone.                                         *)
LEMMA QuietFrame ==
  ASSUME NEW c \in Conn, Quiet(c)
  PROVE  UNCHANGED <<id, stamp, activeConns, clock, cleared, lastLog>>
  BY DEF Quiet, Accept, HandshakeOK, HandshakeFails, Register, Unkey, Rekey,
         CheckExists, AddStudent, UpdateName, RecvAck, RecvPicture, UpdateImage,
         Leave, Unregister, gridVars

-----------------------------------------------------------------------------
(* Stamps stay unique: a NAME takes one that nobody has yet.               *)
LEMMA StampsStep == TypeOK /\ Stamps /\ [Next]_vars => Stamps'
<1> SUFFICES ASSUME TypeOK, Stamps, [Next]_vars PROVE Stamps'
  OBVIOUS
<1>1. ASSUME NEW c \in Conn, NEW s \in Student, RecvName(c, s) PROVE Stamps'
  BY <1>1, RegistryAssumption DEF RecvName, Stamps, TypeOK
<1>2. CASE CloseRoom
  BY <1>2 DEF CloseRoom, Stamps, TypeOK, netVars
<1>3. ASSUME UNCHANGED <<id, stamp, clock, cleared>> PROVE Stamps'
  BY <1>3 DEF Stamps
<1>4. ASSUME NEW c \in Conn, Removal(c) PROVE UNCHANGED <<id, stamp, clock, cleared>>
  BY <1>4 DEF Removal, netVars
<1>5. ASSUME NEW sameLog \in BOOLEAN, ReopenRoom(sameLog)
      PROVE  UNCHANGED <<id, stamp, clock, cleared>>
  BY <1>5 DEF ReopenRoom, netVars
<1>6. ASSUME UNCHANGED vars PROVE UNCHANGED <<id, stamp, clock, cleared>>
  BY <1>6 DEF vars, netVars, gridVars
<1>7. QED
  BY <1>1, <1>2, <1>3, <1>4, <1>5, <1>6, StepCases, QuietFrame

(* A handler has its id exactly from NAME on, keeps its remote address as  *)
(* key until it is in the registry, and leaves a removal only at its end.  *)
LEMMA PhasesStep == TypeOK /\ Phases /\ [Next]_vars => Phases'
<1> SUFFICES ASSUME TypeOK, Phases, [Next]_vars PROVE Phases'
  OBVIOUS
<1> USE DEF TypeOK, Phases, Goto, Naming
<1>1. ASSUME NEW c \in Conn, NEW s \in Student, RecvName(c, s) PROVE Phases'
  BY <1>1, RegistryAssumption DEF RecvName
<1>2. ASSUME NEW c \in Conn, Removal(c) PROVE Phases'
  BY <1>2 DEF Removal, netVars
<1>3. ASSUME NEW c \in Conn, Leave(c) PROVE Phases'
  BY <1>3 DEF Leave
<1>4. ASSUME NEW c \in Conn,
             Accept(c) \/ HandshakeOK(c) \/ HandshakeFails(c) \/ Register(c)
      PROVE  Phases'
  BY <1>4 DEF Accept, HandshakeOK, HandshakeFails, Register, gridVars
<1>5. ASSUME NEW c \in Conn, Unkey(c) \/ Rekey(c) \/ CheckExists(c)
      PROVE  Phases'
  BY <1>5 DEF Unkey, Rekey, CheckExists, gridVars
<1>6. ASSUME NEW c \in Conn, AddStudent(c) \/ UpdateName(c) \/ UpdateImage(c)
      PROVE  Phases'
  BY <1>6 DEF AddStudent, UpdateName, UpdateImage, gridVars
<1>7. ASSUME NEW c \in Conn, RecvPicture(c) \/ Unregister(c) PROVE Phases'
  BY <1>7 DEF RecvPicture, Unregister, gridVars
<1>8. ASSUME NEW c \in Conn, NEW st \in Acks, RecvAck(c, st) PROVE Phases'
  BY <1>8 DEF RecvAck
<1>9. CASE CloseRoom \/ (\E sameLog \in BOOLEAN : ReopenRoom(sameLog)) \/ UNCHANGED vars
  BY <1>9 DEF CloseRoom, ReopenRoom, vars, netVars, gridVars
<1> HIDE DEF TypeOK, Phases, Goto, Naming
<1>10. QED
  BY <1>1, <1>2, <1>3, <1>4, <1>5, <1>6, <1>7, <1>8, <1>9, StepCases DEF Quiet

(* An entry is made when its handler takes the key and deleted before the  *)
(* handler gives it up.                                                    *)
LEMMA EntriesStep == TypeOK /\ Phases /\ EntriesLive /\ [Next]_vars => EntriesLive'
<1> SUFFICES ASSUME TypeOK, Phases, EntriesLive, [Next]_vars PROVE EntriesLive'
  OBVIOUS
<1> USE RegistryAssumption DEF TypeOK, EntriesLive, Goto, Key, Registered
<1>1. ASSUME NEW c \in Conn, Register(c) PROVE EntriesLive'
  BY <1>1 DEF Register, Phases
<1>2. ASSUME NEW c \in Conn, Unkey(c) PROVE EntriesLive'
  BY <1>2 DEF Unkey
<1>3. ASSUME NEW c \in Conn, Rekey(c) PROVE EntriesLive'
  <2>1. id[c] \in Student
    BY <1>3 DEF Rekey, Phases, Naming
  <2>2. QED
    BY <1>3, <2>1 DEF Rekey
<1>4. ASSUME NEW c \in Conn, Unregister(c) PROVE EntriesLive'
  BY <1>4 DEF Unregister
<1>5. ASSUME NEW c \in Conn, Accept(c) \/ HandshakeOK(c) \/ HandshakeFails(c)
      PROVE  EntriesLive'
  BY <1>5 DEF Accept, HandshakeOK, HandshakeFails
<1>6. ASSUME NEW c \in Conn, CheckExists(c) \/ AddStudent(c) \/ UpdateName(c)
      PROVE  EntriesLive'
  BY <1>6 DEF CheckExists, AddStudent, UpdateName
<1>7. ASSUME NEW c \in Conn, RecvPicture(c) \/ UpdateImage(c) \/ Leave(c)
      PROVE  EntriesLive'
  BY <1>7 DEF RecvPicture, UpdateImage, Leave
<1>8. ASSUME NEW c \in Conn, NEW s \in Student, RecvName(c, s) PROVE EntriesLive'
  BY <1>8 DEF RecvName
<1>9. ASSUME NEW c \in Conn, NEW st \in Acks, RecvAck(c, st) PROVE EntriesLive'
  BY <1>9 DEF RecvAck
<1>10. ASSUME NEW c \in Conn, Removal(c) PROVE EntriesLive'
  BY <1>10 DEF Removal, netVars
<1>11. CASE CloseRoom \/ (\E sameLog \in BOOLEAN : ReopenRoom(sameLog)) \/ UNCHANGED vars
  BY <1>11 DEF CloseRoom, ReopenRoom, vars, netVars
<1> HIDE DEF TypeOK, EntriesLive, Goto, Key, Registered
<1>12. QED
  BY <1>1, <1>2, <1>3, <1>4, <1>5, <1>6, <1>7, <1>8, <1>9, <1>10, <1>11,
     StepCases DEF Quiet

(* The grace period outlasts a NAME, so a removal cannot take away the     *)
(* entry a NAME in progress counts on.                                     *)
LEMMA NamingActiveStep ==
  TypeOK /\ Stamps /\ Phases /\ NamingActive /\ [Next]_vars => NamingActive'
<1> SUFFICES ASSUME TypeOK, Stamps, Phases, NamingActive, [Next]_vars
             PROVE  NamingActive'
  OBVIOUS
<1>1. ASSUME NEW c \in Conn, NEW s \in Student, RecvName(c, s) PROVE NamingActive'
  BY <1>1, RegistryAssumption
     DEF RecvName, NamingActive, Stamps, Phases, TypeOK, Goto, Naming
<1>2. ASSUME NEW c \in Conn, Removal(c) PROVE NamingActive'
  <2>1. SUFFICES ASSUME NEW d \in Conn, pc[d] \in Naming
                 PROVE  activeConns'[id[d]] >= stamp[d]
    BY <1>2 DEF Removal, NamingActive, netVars
  <2>2. id[c] \in Student /\ id[d] \in Student /\ c # d /\ stamp[c] # 0
    BY <1>2, <2>1 DEF Removal, Phases, Stamps, TypeOK, Naming
  <2>3. CASE id[d] = id[c] /\ activeConns[id[c]] = stamp[c]
    <3>1. stamp[d] >= stamp[c] /\ stamp[c] >= stamp[d]
      BY <1>2, <2>1, <2>3 DEF Removal, GraceOutlastsNaming, NamingActive
    <3>2. stamp[d] = stamp[c]
      BY <3>1 DEF TypeOK
    <3>3. QED
      BY <2>2, <3>2 DEF Stamps
  <2>4. CASE id[d] # id[c] \/ activeConns[id[c]] # stamp[c]
    <3>1. activeConns'[id[d]] = activeConns[id[d]]
      BY <1>2, <2>2, <2>4 DEF Removal, TypeOK
    <3>2. QED
      BY <2>1, <3>1 DEF NamingActive
  <2>5. QED
    BY <2>3, <2>4
<1>3. ASSUME NEW c \in Conn, Quiet(c) PROVE NamingActive'
  <2>1. \A d \in Conn : pc'[d] \in Naming => pc[d] \in Naming
    BY <1>3 DEF Quiet, Accept, HandshakeOK, HandshakeFails, Register, Unkey, Rekey,
       CheckExists, AddStudent, UpdateName, RecvAck, RecvPicture, UpdateImage,
       Leave, Unregister, Goto, Naming, TypeOK
  <2>2. QED
    BY <1>3, <2>1, QuietFrame DEF NamingActive
<1>4. CASE CloseRoom \/ (\E sameLog \in BOOLEAN : ReopenRoom(sameLog)) \/ UNCHANGED vars
  BY <1>4 DEF CloseRoom, ReopenRoom, vars, netVars, gridVars, NamingActive
<1>5. QED
  BY <1>1, <1>2, <1>3, <1>4, StepCases

(* An owner stops accounting for the entry only by the removal that takes  *)
(* the entry away.                                                         *)
LEMMA ActiveOwnedStep ==
  TypeOK /\ Stamps /\ Phases /\ ActiveOwned /\ [Next]_vars => ActiveOwned'
<1> SUFFICES ASSUME TypeOK, Stamps, Phases, ActiveOwned, [Next]_vars
             PROVE  ActiveOwned'
  OBVIOUS
<1>1. ASSUME NEW c \in Conn, NEW s \in Student, RecvName(c, s) PROVE ActiveOwned'
  <2>1. SUFFICES ASSUME NEW t \in Student, activeConns'[t] # 0
                 PROVE  \E d \in Conn : AccountsFor(d, t, activeConns[t])'
    BY DEF ActiveOwned
  <2>2. CASE t = s
    <3>1. AccountsFor(c, t, activeConns[t])'
      BY <1>1, <2>2 DEF RecvName, AccountsFor, TypeOK, Goto
    <3>2. QED
      BY <3>1
  <2>3. CASE t # s
    <3>1. activeConns'[t] = activeConns[t]
      BY <1>1, <2>3 DEF RecvName, TypeOK
    <3>2. PICK d \in Conn : AccountsFor(d, t, activeConns[t])
      BY <2>1, <3>1 DEF ActiveOwned
    <3>3. d # c
      BY <1>1, <3>2, RegistryAssumption DEF RecvName, AccountsFor
    <3>4. AccountsFor(d, t, activeConns[t])'
      BY <1>1, <3>1, <3>2, <3>3 DEF RecvName, AccountsFor, TypeOK, Goto
    <3>5. QED
      BY <3>4
  <2>4. QED
    BY <2>2, <2>3
<1>2. ASSUME NEW c \in Conn, Removal(c) PROVE ActiveOwned'
  <2>1. SUFFICES ASSUME NEW t \in Student, activeConns'[t] # 0
                 PROVE  \E d \in Conn : AccountsFor(d, t, activeConns[t])'
    BY DEF ActiveOwned
  <2>2. id[c] \in Student /\ stamp[c] # 0
    BY <1>2 DEF Removal, Phases, Stamps, TypeOK
  <2>3. /\ activeConns'[t] = activeConns[t]
        /\ id[c] = t => activeConns[t] # stamp[c]
    BY <1>2, <2>1, <2>2 DEF Removal, TypeOK
  <2>4. PICK d \in Conn : AccountsFor(d, t, activeConns[t])
    BY <2>1, <2>3 DEF ActiveOwned
  <2>5. d # c
    BY <2>3, <2>4 DEF AccountsFor
  <2>6. AccountsFor(d, t, activeConns[t])'
    BY <1>2, <2>3, <2>4, <2>5 DEF Removal, AccountsFor, netVars, TypeOK
  <2>7. QED
    BY <2>6
<1>3. ASSUME NEW c \in Conn, Quiet(c) PROVE ActiveOwned'
  <2>1. ASSUME NEW d \in Conn, NEW s \in Student, id[d] = s,
               pc[d] \notin {"closing", "done"} \/ timer[d] = "armed"
        PROVE  (pc[d] \notin {"closing", "done"} \/ timer[d] = "armed")'
    <3>1. CASE Leave(c)
      BY <2>1, <3>1, RegistryAssumption DEF Leave, Goto, TypeOK
    <3>2. CASE HandshakeFails(c)
      BY <2>1, <3>2, RegistryAssumption DEF HandshakeFails, Goto, TypeOK, Phases, gridVars
    <3>3. CASE Unregister(c)
      BY <2>1, <3>3 DEF Unregister, Goto, TypeOK, gridVars
    <3>4. CASE ~Leave(c) /\ ~HandshakeFails(c) /\ ~Unregister(c)
      BY <1>3, <2>1, <3>4
         DEF Quiet, Accept, HandshakeOK, Register, Unkey, Rekey, CheckExists,
             AddStudent, UpdateName, RecvAck, RecvPicture, UpdateImage, Goto,
             TypeOK, gridVars
    <3>5. QED
      BY <3>1, <3>2, <3>3, <3>4
  <2>2. QED
    BY <1>3, <2>1, QuietFrame DEF ActiveOwned, AccountsFor
<1>4. CASE CloseRoom \/ (\E sameLog \in BOOLEAN : ReopenRoom(sameLog)) \/ UNCHANGED vars
  BY <1>4 DEF CloseRoom, ReopenRoom, vars, netVars, gridVars, ActiveOwned, AccountsFor
<1>5. QED
  BY <1>1, <1>2, <1>3, <1>4, StepCases

(* A handler's steps other than the end of its loop leave it accounting    *)
(* for its stamp exactly as before; the end of the loop arms the removal.  *)
LEMMA AccountsBack ==
  ASSUME TypeOK, Phases, NEW c \in Conn, Quiet(c),
         NEW d \in Conn, id[d] # NoStudent,
         (pc[d] \notin {"closing", "done"} \/ timer[d] = "armed")'
  PROVE  pc[d] \notin {"closing", "done"} \/ timer[d] = "armed"
<1>1. CASE Leave(c)
  BY <1>1 DEF Leave, Goto, TypeOK
<1>2. CASE ~Leave(c)
  BY <1>2 DEF Quiet, Accept, HandshakeOK, HandshakeFails, Register, Unkey, Rekey,
     CheckExists, AddStudent, UpdateName, RecvAck, RecvPicture, UpdateImage,
     Unregister, Goto, TypeOK, gridVars
<1>3. QED
  BY <1>1, <1>2

(* A newer NAME takes over both as newest and as active; a removal that    *)
(* finds its own stamp active is the newest connection's own.              *)
LEMMA NewestActiveStep ==
  TypeOK /\ Stamps /\ Phases /\ NewestActive /\ [Next]_vars => NewestActive'
<1> SUFFICES ASSUME TypeOK, Stamps, Phases, NewestActive, [Next]_vars
             PROVE  NewestActive'
  OBVIOUS
<1>1. ASSUME NEW c \in Conn, NEW s \in Student, RecvName(c, s)
      PROVE  NewestActive'
  BY <1>1 DEF RecvName, NewestActive, Newest, AccountsFor, Stamps, TypeOK, Goto
<1>2. ASSUME NEW c \in Conn, Removal(c) PROVE NewestActive'
  <2>1. SUFFICES ASSUME NEW d \in Conn, Newest(d)', AccountsFor(d, id[d], stamp[d])'
                 PROVE  activeConns'[id[d]] = stamp[d]
    BY <1>2 DEF Removal, NewestActive, netVars
  <2>2. id[c] \in Student /\ stamp[c] # 0 /\ pc[c] \in {"closing", "done"}
    BY <1>2 DEF Removal, Phases, Stamps, TypeOK
  <2>3. d # c
    BY <1>2, <2>1, <2>2 DEF Removal, AccountsFor, TypeOK, netVars
  <2>4. activeConns[id[d]] = stamp[d]
    BY <1>2, <2>1, <2>3 DEF Removal, NewestActive, Newest, AccountsFor, TypeOK, netVars
  <2>5. id[d] = id[c] => activeConns[id[c]] # stamp[c]
    BY <2>2, <2>3, <2>4 DEF Stamps
  <2>6. id[d] \in Student
    BY <1>2, <2>1 DEF Removal, Newest, TypeOK, netVars
  <2>7. CASE id[d] = id[c]
    BY <1>2, <2>4, <2>5, <2>7 DEF Removal
  <2>8. CASE id[d] # id[c]
    BY <1>2, <2>2, <2>4, <2>6, <2>8 DEF Removal, TypeOK
  <2>9. QED
    BY <2>7, <2>8
<1>3. ASSUME NEW c \in Conn, Quiet(c) PROVE NewestActive'
  BY <1>3, QuietFrame, AccountsBack DEF NewestActive, Newest, AccountsFor
<1>4. CASE CloseRoom \/ (\E sameLog \in BOOLEAN : ReopenRoom(sameLog)) \/ UNCHANGED vars
  BY <1>4 DEF CloseRoom, ReopenRoom, vars, netVars, gridVars, NewestActive, Newest,
     AccountsFor
<1>5. QED
  BY <1>1, <1>2, <1>3, <1>4, StepCases

(* A tile appears only at the end of a NAME, while the entry is there.     *)
LEMMA TilesActiveStep ==
  /\ TypeOK /\ Stamps /\ Phases /\ NamingActive /\ TilesActive
  /\ [Next]_vars
  => TilesActive'
<1> SUFFICES ASSUME TypeOK, Stamps, Phases, NamingActive, TilesActive, [Next]_vars
             PROVE  TilesActive'
  OBVIOUS
<1>1. ASSUME NEW c \in Conn, NEW s \in Student, RecvName(c, s) PROVE TilesActive'
  BY <1>1 DEF RecvName, TilesActive, TypeOK
<1>2. ASSUME NEW c \in Conn, Removal(c) PROVE TilesActive'
  BY <1>2 DEF Removal, TilesActive, TypeOK, Phases
<1>3. ASSUME NEW c \in Conn, Quiet(c) PROVE TilesActive'
  <2>1. CASE AddStudent(c)
    <3>1. id[c] \in Student /\ activeConns[id[c]] # 0
      BY <2>1 DEF AddStudent, Goto, NamingActive, Naming, Phases, Stamps, TypeOK
    <3>2. QED
      BY <2>1, <3>1 DEF AddStudent, TilesActive, TypeOK
  <2>2. CASE \E st \in Acks : RecvAck(c, st)
    BY <2>2 DEF RecvAck, TilesActive, TypeOK
  <2>3. ASSUME ~AddStudent(c), ~(\E st \in Acks : RecvAck(c, st))
        PROVE  UNCHANGED tile
    BY <1>3, <2>3
       DEF Quiet, Accept, HandshakeOK, HandshakeFails, Register, Unkey, Rekey,
           CheckExists, UpdateName, RecvPicture, UpdateImage, Leave, Unregister, gridVars
  <2>4. QED
    BY <1>3, <2>1, <2>2, <2>3, QuietFrame DEF TilesActive
<1>4. CASE CloseRoom \/ (\E sameLog \in BOOLEAN : ReopenRoom(sameLog)) \/ UNCHANGED vars
  BY <1>4 DEF CloseRoom, ReopenRoom, vars, netVars, gridVars, TilesActive
<1>5. QED
  BY <1>1, <1>2, <1>3, <1>4, StepCases

(* The tile of the active connection: its NAME puts it up, later           *)
(* connections take the active place, and older removals see their stamp   *)
(* is no longer the active one.                                            *)
LEMMA ActiveTileStep ==
  TypeOK /\ Stamps /\ Phases /\ ActiveKeepsTile /\ [Next]_vars => ActiveKeepsTile'
<1> SUFFICES ASSUME TypeOK, Stamps, Phases, ActiveKeepsTile, [Next]_vars
             PROVE  ActiveKeepsTile'
  OBVIOUS
<1>1. ASSUME NEW c \in Conn, NEW s \in Student, RecvName(c, s)
      PROVE  ActiveKeepsTile'
  BY <1>1 DEF RecvName, ActiveKeepsTile, Stamps, TypeOK, Goto
<1>2. ASSUME NEW c \in Conn, Removal(c) PROVE ActiveKeepsTile'
  <2>1. id[c] \in Student
    BY <1>2 DEF Removal, Phases, TypeOK
  <2>2. CASE activeConns[id[c]] = stamp[c]
    BY <1>2, <2>1, <2>2 DEF Removal, ActiveKeepsTile, Stamps, TypeOK, netVars
  <2>3. CASE activeConns[id[c]] # stamp[c]
    BY <1>2, <2>3 DEF Removal, ActiveKeepsTile, netVars
  <2>4. QED
    BY <2>2, <2>3
<1>3. ASSUME NEW c \in Conn, Quiet(c) PROVE ActiveKeepsTile'
  <2>1. CASE CheckExists(c)
    BY <2>1 DEF CheckExists, ActiveKeepsTile, TypeOK, Goto, gridVars
  <2>2. CASE AddStudent(c)
    BY <2>2 DEF AddStudent, ActiveKeepsTile, TypeOK, Goto
  <2>3. ASSUME NEW st \in Acks, RecvAck(c, st) PROVE ActiveKeepsTile'
    BY <2>3, RegistryAssumption DEF RecvAck, ActiveKeepsTile, TypeOK, ClientState
  <2>4. CASE Accept(c) \/ HandshakeOK(c) \/ HandshakeFails(c) \/ Register(c)
    BY <2>4 DEF Accept, HandshakeOK, HandshakeFails, Register, ActiveKeepsTile,
       Phases, TypeOK, Goto, gridVars
  <2>5. CASE Unkey(c) \/ Rekey(c) \/ UpdateName(c) \/ RecvPicture(c)
    BY <2>5 DEF Unkey, Rekey, UpdateName, RecvPicture, ActiveKeepsTile, TypeOK,
       Goto, gridVars
  <2>6. CASE UpdateImage(c) \/ Leave(c) \/ Unregister(c)
    BY <2>6 DEF UpdateImage, Leave, Unregister, ActiveKeepsTile, TypeOK, Goto, gridVars
  <2>7. QED
    BY <1>3, <2>1, <2>2, <2>3, <2>4, <2>5, <2>6 DEF Quiet
<1>4. CASE CloseRoom
  BY <1>4 DEF CloseRoom, ActiveKeepsTile, Stamps, TypeOK, netVars
<1>5. CASE (\E sameLog \in BOOLEAN : ReopenRoom(sameLog)) \/ UNCHANGED vars
  BY <1>5 DEF ReopenRoom, vars, netVars, gridVars, ActiveKeepsTile
<1>6. QED
  BY <1>1, <1>2, <1>3, <1>4, <1>5, StepCases

-----------------------------------------------------------------------------
(* The empty registry satisfies the invariant.                             *)
LEMMA InitInv == Init => RegistryInv
<1> SUFFICES ASSUME Init PROVE RegistryInv
  OBVIOUS
<1>1. TypeOK
  BY RegistryAssumption
     DEF Init, TypeOK, Key, HandlerPc, Registered, TileState, ClientState
<1>2. Stamps /\ Phases /\ EntriesLive
  BY RegistryAssumption DEF Init, Stamps, Phases, Naming, EntriesLive
<1>3. NamingActive /\ ActiveOwned /\ TilesActive /\ NewestActive /\ ActiveKeepsTile
  BY DEF Init, NamingActive, Naming, ActiveOwned, TilesActive, NewestActive, Newest,
         ActiveKeepsTile
<1>4. QED
  BY <1>1, <1>2, <1>3 DEF RegistryInv

(* Every step keeps it, conjunct by conjunct.                              *)
LEMMA NextInv == RegistryInv /\ [Next]_vars => RegistryInv'
  BY TypeStep, StampsStep, PhasesStep, EntriesStep, NamingActiveStep,
     ActiveOwnedStep, NewestActiveStep, TilesActiveStep, ActiveTileStep DEF RegistryInv

(* So it holds throughout every behaviour of the registry.                 *)
LEMMA AlwaysInv == Spec => []RegistryInv
  BY InitInv, NextInv, PTL DEF Spec

(* The registry's variables keep their types: in particular the handler's  *)
(* key is a student id or its own address, never the empty id.             *)
THEOREM TypeCorrect == Spec => []TypeOK
<1>1. RegistryInv => TypeOK
  BY DEF RegistryInv
<1>2. QED
  BY <1>1, AlwaysInv, PTL

(* No broadcast ever writes through the entry of a finished handler,       *)
(* however registrations, NAMEs and endings interleave.                    *)
THEOREM EntriesLiveAlways == Spec => []EntriesLive
<1>1. RegistryInv => EntriesLive
  BY DEF RegistryInv
<1>2. QED
  BY <1>1, AlwaysInv, PTL

(* A removal scheduled by an older connection never takes the tile of the  *)
(* newest one.                                                             *)
THEOREM NewestKeepsTileAlways == Spec => []NewestKeepsTile
<1>1. RegistryInv => NewestKeepsTile
  <2>1. SUFFICES ASSUME RegistryInv, NEW c \in Conn, Newest(c),
                        pc[c] \in {"rename", "loop", "decode"} \/ timer[c] = "armed",
                        stamp[c] > cleared
                 PROVE  tile[id[c]] # "none"
    BY DEF NewestKeepsTile
  <2>2. pc[c] \notin {"unkey", "rekey", "exists", "add"}
    BY <2>1 DEF RegistryInv, Phases
  <2>3. activeConns[id[c]] = stamp[c]
    BY <2>1 DEF RegistryInv, NewestActive, AccountsFor
  <2>4. QED
    BY <2>1, <2>2, <2>3 DEF RegistryInv, ActiveKeepsTile, Newest
<1>2. QED
  BY <1>1, AlwaysInv, PTL

(* Every tile is accounted for: a handler serves its student or a removal  *)
(* with the active stamp is still to come.                                 *)
THEOREM TilesAccountedForAlways == Spec => []TilesAccountedFor
<1>1. RegistryInv => TilesAccountedFor
  BY DEF RegistryInv, ActiveOwned, TilesActive, TilesAccountedFor
<1>2. QED
  BY <1>1, AlwaysInv, PTL

(* What DepartedLeaveDashboard leaves to fairness: while the tile of a     *)
(* student without connections is there, a removal waits with nothing in   *)
(* its way, and that removal takes the tile.                               *)
CanTake(c, s) ==
  /\ id[c] = s /\ timer[c] = "armed"
  /\ stamp[c] = activeConns[s]
  /\ GraceOutlastsNaming(c)

DepartedAwaitRemoval ==
  \A s \in Student : Gone(s) /\ tile[s] # "none" => \E c \in Conn : CanTake(c, s)

TakenByRemoval ==
  [][\A c \in Conn, s \in Student : CanTake(c, s) /\ Removal(c) => tile'[s] = "none"]_vars

THEOREM DepartedAwaitRemovalAlways == Spec => []DepartedAwaitRemoval /\ TakenByRemoval
<1>1. TilesAccountedFor => DepartedAwaitRemoval
  BY DEF TilesAccountedFor, AccountsFor, DepartedAwaitRemoval, Gone, CanTake,
         GraceOutlastsNaming, Naming
<1>2. TypeOK /\ [Next]_vars =>
        [\A c \in Conn, s \in Student : CanTake(c, s) /\ Removal(c) => tile'[s] = "none"]_vars
  BY DEF TypeOK, CanTake, Removal
<1>3. QED
  BY <1>1, <1>2, TilesAccountedForAlways, TypeCorrect, PTL DEF Spec, TakenByRemoval

-----------------------------------------------------------------------------
(* Until the room is reopened, the last record says whether the student is *)
(* in activeConns: both change under activeConnsMu.                        *)
LogAgrees ==
  reopens = 0 => \A s \in Student :
    lastLog[s] \in IF activeConns[s] = 0 THEN {"none", "disconnected"}
                  ELSE {"joined", "reconnected"}

(* Every record follows from the one before it.                            *)
Ordered == reopens' = 0 => \A s \in Student : LogReads(lastLog[s], lastLog'[s])

(* A registry step keeps the log and activeConns in agreement and appends  *)
(* only records that read on.                                              *)
LEMMA LogStep ==
  ASSUME RegistryInv, LogAgrees, [Next]_vars
  PROVE  LogAgrees' /\ Ordered
<1> USE DEF RegistryInv, TypeOK, LogReads, LogAgrees, Ordered
<1>1. ASSUME NEW c \in Conn, NEW s \in Student, RecvName(c, s)
      PROVE  LogAgrees' /\ Ordered
  BY <1>1 DEF RecvName
<1>2. ASSUME NEW c \in Conn, Removal(c) PROVE LogAgrees' /\ Ordered
  <2>1. id[c] \in Student /\ stamp[c] # 0
    BY <1>2 DEF Removal, Phases, Stamps
  <2>2. CASE activeConns[id[c]] = stamp[c]
    BY <1>2, <2>1, <2>2 DEF Removal
  <2>3. CASE activeConns[id[c]] # stamp[c]
    BY <1>2, <2>3 DEF Removal
  <2>4. QED
    BY <2>2, <2>3
<1>3. ASSUME NEW sameLog \in BOOLEAN, ReopenRoom(sameLog)
      PROVE  LogAgrees' /\ Ordered
  BY <1>3 DEF ReopenRoom
<1>4. ASSUME UNCHANGED <<reopens, activeConns, lastLog>>
      PROVE  LogAgrees' /\ Ordered
  BY <1>4
<1>5. ASSUME NEW c \in Conn, Quiet(c) PROVE UNCHANGED reopens
  BY <1>5 DEF Quiet, Accept, HandshakeOK, HandshakeFails, Register, Unkey, Rekey,
     CheckExists, AddStudent, UpdateName, RecvAck, RecvPicture, UpdateImage,
     Leave, Unregister
<1>6. CASE CloseRoom \/ UNCHANGED vars
  BY <1>4, <1>6 DEF CloseRoom, vars, gridVars
<1> HIDE DEF RegistryInv, TypeOK, LogReads, LogAgrees, Ordered
<1>7. QED
  BY <1>1, <1>2, <1>3, <1>4, <1>5, <1>6, StepCases, QuietFrame

(* Until the room is reopened its event log reads as a history.            *)
THEOREM LogOrderAlways == Spec => LogOrder
<1>1. Init => LogAgrees
  BY DEF Init, LogAgrees
<1>2. LogAgrees /\ RegistryInv /\ [Next]_vars => LogAgrees' /\ [Ordered]_vars
  BY LogStep
<1>3. QED
  BY <1>1, <1>2, AlwaysInv, PTL DEF Spec, LogOrder, Ordered
=============================================================================
