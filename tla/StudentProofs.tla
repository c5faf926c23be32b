---------------------------- MODULE StudentProofs ----------------------------
(***************************************************************************)
(* Proofs about the student's program, for any addresses and any number of *)
(* run loops, connections and readers at a time.                           *)
(***************************************************************************)
EXTENDS StudentProgram, TLAPS

(* Facts about the client's machine.                                       *)
LEMMA ApplyType ==
  \A st \in ClientState : \A e \in ClientEvent : ClientApply(st, e) \in ClientState
  BY DEF ClientApply, ClientState

LEMMA ApplyEnds ==
  /\ \A e \in ClientEvent : ClientApply("stopped", e) = "stopped"
  /\ \A st \in ClientState : ClientApply(st, "exam_stop") = "stopped"
  BY DEF ClientApply, ClientState

LEMMA Frames == Frame \subseteq ClientEvent /\ "exam_start" \in ClientEvent
  BY ProgramAssumption DEF ClientEvent

-----------------------------------------------------------------------------
(* Type correctness.                                                       *)

LEMMA TypeInit == Init => TypeOK
<1> SUFFICES ASSUME Init PROVE TypeOK
  OBVIOUS
<1>1. /\ screen \in {"join", "dashboard"} /\ buttons \in BOOLEAN
      /\ running \in BOOLEAN /\ connected \in BOOLEAN
      /\ capturer \in BOOLEAN /\ rejoin \in BOOLEAN
      /\ rejected \in BOOLEAN /\ ended \in BOOLEAN /\ crashed \in BOOLEAN
  BY DEF Init
<1>2. /\ cached \in Addr \cup {NoAddr} /\ sock \in Conn \cup {NoConn}
      /\ machine \in ClientState /\ open \in SUBSET Conn
  BY DEF Init, ClientState, NewMachine
<1>3. /\ lpc \in [Loop -> LoopStep]
      /\ resolver \in [Loop -> Addr \cup {NoAddr}]
      /\ target \in [Loop -> Addr \cup {NoAddr}]
  BY DEF Init, LoopStep
<1>4. /\ rpc \in [Reader -> {"none", "turn", "read", "second"}]
      /\ on \in [Reader -> Conn \cup {NoConn}]
      /\ event \in [Reader -> ClientEvent]
  BY Frames DEF Init
<1>5. QED
  BY <1>1, <1>2, <1>3, <1>4 DEF TypeOK

LEMMA CrashType == TypeOK /\ Crash => TypeOK'
<1> SUFFICES ASSUME TypeOK, Crash PROVE TypeOK'
  OBVIOUS
<1>1. /\ screen' \in {"join", "dashboard"} /\ buttons' \in BOOLEAN
      /\ running' \in BOOLEAN /\ connected' \in BOOLEAN
      /\ capturer' \in BOOLEAN /\ rejoin' \in BOOLEAN
      /\ rejected' \in BOOLEAN /\ crashed' \in BOOLEAN
  BY DEF Crash
<1>2. /\ cached' \in Addr \cup {NoAddr} /\ sock' \in Conn \cup {NoConn}
      /\ open' \in SUBSET Conn
  BY DEF Crash
<1>3. /\ lpc' \in [Loop -> LoopStep]
      /\ resolver' \in [Loop -> Addr \cup {NoAddr}]
      /\ target' \in [Loop -> Addr \cup {NoAddr}]
  BY DEF Crash, LoopStep
<1>4. /\ rpc' \in [Reader -> {"none", "turn", "read", "second"}]
      /\ on' \in [Reader -> Conn \cup {NoConn}]
      /\ event' \in [Reader -> ClientEvent]
  BY Frames DEF Crash
<1>5. machine' \in ClientState /\ ended' \in BOOLEAN
  BY DEF TypeOK, Crash
<1>6. QED
  BY <1>1, <1>2, <1>3, <1>4, <1>5 DEF TypeOK

LEMMA TypeStep == TypeOK /\ [Next]_vars => TypeOK'
<1> SUFFICES ASSUME TypeOK, [Next]_vars PROVE TypeOK'
  OBVIOUS
<1> USE DEF TypeOK, LoopStep, Goto, uiVars, clientVars, loopVars, readerVars
<1>1. CASE Draw
  BY <1>1 DEF Draw, HasButtons
<1>2. ASSUME NEW l \in Loop, NEW ip \in Manual \cup {NoAddr}, Submit(l, ip) PROVE TypeOK'
  BY <1>2, ProgramAssumption DEF Submit
<1>3. CASE ChangeSettings
  BY <1>3 DEF ChangeSettings
<1>4. CASE TryAgain
  BY <1>4 DEF TryAgain
<1>5. ASSUME NEW l \in Loop, Top(l) PROVE TypeOK'
  BY <1>5 DEF Top
<1>6. ASSUME NEW l \in Loop, NEW a \in Addr, Resolved(l, a) PROVE TypeOK'
  BY <1>6 DEF Resolved
<1>7. ASSUME NEW l \in Loop, Unresolved(l) PROVE TypeOK'
  BY <1>7 DEF Unresolved
<1>8. ASSUME NEW l \in Loop, NEW c \in Conn, Dialed(l, c) PROVE TypeOK'
  BY <1>8 DEF Dialed
<1>9. ASSUME NEW l \in Loop, DialFails(l) PROVE TypeOK'
  BY <1>9 DEF DialFails
<1>10. ASSUME NEW l \in Loop, NEW r \in Reader, Accepted(l, r) PROVE TypeOK'
  <2>1. machine' \in ClientState
    BY <1>10, ApplyType, Frames DEF Accepted
  <2>2. QED
    BY <1>10, <2>1 DEF Accepted
<1>11. ASSUME NEW l \in Loop, NotAccepted(l) PROVE TypeOK'
  BY <1>11 DEF NotAccepted
<1>12. ASSUME NEW l \in Loop, WakeUp(l) PROVE TypeOK'
  <2>1. rejoin' \in BOOLEAN
    BY <1>12, Zenon DEF WakeUp
  <2>2. QED
    BY <1>12, <2>1 DEF WakeUp
<1>13. ASSUME NEW l \in Loop, Turn(l) PROVE TypeOK'
  <2>1. capturer' \in BOOLEAN
    BY <1>13 DEF Turn
  <2>2. lpc' \in [Loop -> LoopStep]
    BY <1>13 DEF Turn
  <2>3. QED
    BY <1>13, <2>1, <2>2 DEF Turn
<1>14. ASSUME NEW l \in Loop, SendFrame(l) PROVE TypeOK'
  <2>1. rejected' \in BOOLEAN /\ connected' \in BOOLEAN
    BY <1>14 DEF SendFrame
  <2>2. lpc' \in [Loop -> LoopStep]
    BY <1>14 DEF SendFrame
  <2>3. QED
    BY <1>14, <2>1, <2>2 DEF SendFrame
<1>15. ASSUME NEW l \in Loop, CapturerGone(l) \/ SocketGone(l) PROVE TypeOK'
  BY <1>15, CrashType DEF CapturerGone, SocketGone
<1>16. ASSUME NEW l \in Loop, CaptureFails(l) PROVE TypeOK'
  BY <1>16 DEF CaptureFails
<1>17. ASSUME NEW l \in Loop, HangUp(l) PROVE TypeOK'
  BY <1>17 DEF HangUp
<1>18. ASSUME NEW r \in Reader, ReaderTurn(r) PROVE TypeOK'
  BY <1>18 DEF ReaderTurn
<1>19. ASSUME NEW r \in Reader, ReaderSocketGone(r) PROVE TypeOK'
  BY <1>19, CrashType DEF ReaderSocketGone
<1>20. ASSUME NEW r \in Reader, ReaderReturns(r) PROVE TypeOK'
  BY <1>20 DEF ReaderReturns
<1>21. ASSUME NEW r \in Reader, NEW f \in Frame, Dispatch(r, f) PROVE TypeOK'
  <2>1. f \in ClientEvent
    BY Frames
  <2>2. machine' \in ClientState /\ ended' \in BOOLEAN
    BY <1>21, <2>1, ApplyType DEF Dispatch
  <2>3. QED
    BY <1>21, <2>1, <2>2 DEF Dispatch
<1>22. ASSUME NEW r \in Reader, DispatchEnds(r) PROVE TypeOK'
  <2>1. machine' \in ClientState
    BY <1>22, ApplyType, Frames DEF DispatchEnds
  <2>2. QED
    BY <1>22, <2>1, Frames DEF DispatchEnds
<1>23. ASSUME NEW c \in Conn, Drop(c) PROVE TypeOK'
  BY <1>23 DEF Drop
<1>24. CASE UNCHANGED vars
  BY <1>24 DEF vars
<1> HIDE DEF TypeOK, LoopStep, Goto, uiVars, clientVars, loopVars, readerVars
<1>25. QED
  BY <1>1, <1>2, <1>3, <1>4, <1>5, <1>6, <1>7, <1>8, <1>9, <1>10, <1>11, <1>12, <1>13,
     <1>14, <1>15, <1>16, <1>17, <1>18, <1>19, <1>20, <1>21, <1>22, <1>23, <1>24
     DEF Next, UI, LoopRuns, ReaderRuns

(* Every variable of the student's program keeps to its type.              *)
THEOREM StudentTypeCorrect == Spec => []TypeOK
  BY TypeInit, TypeStep, PTL DEF Spec

-----------------------------------------------------------------------------
(* The dashboard is served.                                                *)

LEMMA ServedStep == TypeOK /\ DashboardHasLoop /\ [Next]_vars => DashboardHasLoop'
<1> SUFFICES ASSUME TypeOK, DashboardHasLoop, [Next]_vars PROVE DashboardHasLoop'
  OBVIOUS
<1> USE DEF DashboardHasLoop, NoLoop, Goto, At
<1>0. ASSUME Crash PROVE DashboardHasLoop'
  BY <1>0 DEF Crash
<1>1. ASSUME UNCHANGED <<running, lpc>>, screen' = screen PROVE DashboardHasLoop'
  BY <1>1
<1>2. ASSUME NEW l \in Loop, NEW ip \in Manual \cup {NoAddr}, Submit(l, ip)
      PROVE DashboardHasLoop'
  BY <1>2 DEF Submit, TypeOK
<1>3. CASE ChangeSettings
  BY <1>3 DEF ChangeSettings
<1>4. ASSUME NEW l \in Loop, Top(l) PROVE DashboardHasLoop'
  BY <1>4 DEF Top, TypeOK, uiVars
\* Every other step of a loop takes it to a place that is not "none".
<1>5. ASSUME NEW l \in Loop, NEW step, step # "none",
             lpc' = [lpc EXCEPT ![l] = step], UNCHANGED <<running, screen>>
      PROVE DashboardHasLoop'
  BY <1>5 DEF TypeOK
<1>6. ASSUME NEW l \in Loop, NEW a \in Addr, Resolved(l, a) PROVE DashboardHasLoop'
  BY <1>5, <1>6 DEF Resolved, uiVars
<1>7. ASSUME NEW l \in Loop, Unresolved(l) PROVE DashboardHasLoop'
  BY <1>5, <1>7 DEF Unresolved
<1>8. ASSUME NEW l \in Loop, NEW c \in Conn, Dialed(l, c) PROVE DashboardHasLoop'
  BY <1>5, <1>8 DEF Dialed, uiVars
<1>9. ASSUME NEW l \in Loop, DialFails(l) PROVE DashboardHasLoop'
  BY <1>5, <1>9 DEF DialFails
<1>10. ASSUME NEW l \in Loop, NEW r \in Reader, Accepted(l, r) PROVE DashboardHasLoop'
  BY <1>5, <1>10 DEF Accepted
<1>11. ASSUME NEW l \in Loop, NotAccepted(l) PROVE DashboardHasLoop'
  BY <1>5, <1>11 DEF NotAccepted, clientVars
<1>12. ASSUME NEW l \in Loop, WakeUp(l) PROVE DashboardHasLoop'
  BY <1>5, <1>12 DEF WakeUp, uiVars
<1>13. ASSUME NEW l \in Loop, Turn(l) PROVE DashboardHasLoop'
  BY <1>5, <1>13 DEF Turn, uiVars
<1>14. ASSUME NEW l \in Loop, SendFrame(l) PROVE DashboardHasLoop'
  BY <1>5, <1>14 DEF SendFrame
<1>15. ASSUME NEW l \in Loop, CaptureFails(l) PROVE DashboardHasLoop'
  BY <1>5, <1>15 DEF CaptureFails
<1>16. ASSUME NEW l \in Loop, HangUp(l) PROVE DashboardHasLoop'
  BY <1>5, <1>16 DEF HangUp, uiVars, clientVars
<1>17. ASSUME NEW l \in Loop, CapturerGone(l) \/ SocketGone(l) PROVE DashboardHasLoop'
  BY <1>0, <1>17 DEF CapturerGone, SocketGone
<1>18. ASSUME NEW l \in Loop, LoopRuns(l) PROVE DashboardHasLoop'
  BY <1>4, <1>6, <1>7, <1>8, <1>9, <1>10, <1>11, <1>12, <1>13, <1>14, <1>15, <1>16,
     <1>17, <1>18 DEF LoopRuns
<1>19. ASSUME NEW r \in Reader, ReaderRuns(r) PROVE DashboardHasLoop'
  <2>1. ReaderSocketGone(r) \/ UNCHANGED <<running, lpc, screen>>
    BY <1>19 DEF ReaderRuns, ReaderTurn, ReaderReturns, Dispatch, DispatchEnds, uiVars,
                 clientVars, loopVars
  <2>2. QED
    BY <2>1, <1>0, <1>1 DEF ReaderSocketGone
<1>20. CASE Draw \/ TryAgain \/ (\E c \in Conn : Drop(c)) \/ UNCHANGED vars
  <2>1. UNCHANGED <<running, lpc, screen>>
    BY <1>20 DEF Draw, TryAgain, Drop, vars, uiVars, clientVars, loopVars
  <2>2. QED
    BY <2>1, <1>1
<1> HIDE DEF DashboardHasLoop, NoLoop, Goto, At
<1>21. QED
  BY <1>2, <1>3, <1>18, <1>19, <1>20 DEF Next, UI

(* Whenever the dashboard is on screen a run loop is alive and asked to go *)
(* on, whatever Stops and Starts overlap.                                  *)
THEOREM DashboardHasLoopAlways == Spec => []DashboardHasLoop
<1>1. Init => DashboardHasLoop
  BY DEF Init, DashboardHasLoop
<1>2. QED
  BY <1>1, ServedStep, StudentTypeCorrect, PTL DEF Spec

-----------------------------------------------------------------------------
(* A socket that Client holds and that is open is in use by a loop that    *)
(* will close it.                                                          *)

OpenIsUsed == sock \in open => \E l \in Loop : lpc[l] \in Using

LEMMA UsedStep == TypeOK /\ OpenIsUsed /\ [Next]_vars => OpenIsUsed'
<1> SUFFICES ASSUME TypeOK, OpenIsUsed, [Next]_vars PROVE OpenIsUsed'
  OBVIOUS
<1> USE DEF OpenIsUsed, Goto, At
\* The socket stays, perhaps closed, and no loop that uses one moves on ...
<1>1. ASSUME sock' = sock, open' \subseteq open,
             \A l \in Loop : lpc[l] \in Using => lpc'[l] \in Using
      PROVE OpenIsUsed'
  BY <1>1
\* ... or the socket is closed.
<1>2. ASSUME sock' \notin open' PROVE OpenIsUsed'
  BY <1>2
<1>3. ASSUME NEW l \in Loop, NEW step, lpc' = [lpc EXCEPT ![l] = step],
             lpc[l] \notin Using \/ step \in Using, UNCHANGED <<sock, open>>
      PROVE OpenIsUsed'
  BY <1>1, <1>3 DEF TypeOK
<1>4. ASSUME NEW l \in Loop, NEW ip \in Manual \cup {NoAddr}, Submit(l, ip) PROVE OpenIsUsed'
  BY <1>3, <1>4 DEF Submit, Using
<1>5. ASSUME NEW l \in Loop, Top(l) PROVE OpenIsUsed'
  BY <1>3, <1>5 DEF Top, Using
<1>6. ASSUME NEW l \in Loop, NEW a \in Addr, Resolved(l, a) PROVE OpenIsUsed'
  BY <1>3, <1>6 DEF Resolved, Using
<1>7. ASSUME NEW l \in Loop, Unresolved(l) PROVE OpenIsUsed'
  BY <1>3, <1>7 DEF Unresolved, Using
<1>8. ASSUME NEW l \in Loop, NEW c \in Conn, Dialed(l, c) PROVE OpenIsUsed'
  BY <1>8 DEF Dialed, Using, TypeOK
<1>9. ASSUME NEW l \in Loop, DialFails(l) PROVE OpenIsUsed'
  BY <1>2, <1>9, ProgramAssumption DEF DialFails, TypeOK
<1>10. ASSUME NEW l \in Loop, NEW r \in Reader, Accepted(l, r) PROVE OpenIsUsed'
  BY <1>3, <1>10 DEF Accepted, Using
<1>11. ASSUME NEW l \in Loop, NotAccepted(l) \/ HangUp(l) PROVE OpenIsUsed'
  BY <1>2, <1>11 DEF NotAccepted, HangUp, clientVars
<1>12. ASSUME NEW l \in Loop, WakeUp(l) PROVE OpenIsUsed'
  BY <1>3, <1>12 DEF WakeUp, Using
<1>13. ASSUME NEW l \in Loop, Turn(l) PROVE OpenIsUsed'
  BY <1>3, <1>13 DEF Turn, Using
<1>14. ASSUME NEW l \in Loop, SendFrame(l) PROVE OpenIsUsed'
  BY <1>3, <1>14 DEF SendFrame, Using
<1>15. ASSUME NEW l \in Loop, CaptureFails(l) PROVE OpenIsUsed'
  BY <1>3, <1>15 DEF CaptureFails, Using
<1>16. ASSUME Crash PROVE OpenIsUsed'
  BY <1>2, <1>16 DEF Crash
<1>17. ASSUME NEW l \in Loop, LoopRuns(l) PROVE OpenIsUsed'
  BY <1>5, <1>6, <1>7, <1>8, <1>9, <1>10, <1>11, <1>12, <1>13, <1>14, <1>15, <1>16,
     <1>17 DEF LoopRuns, CapturerGone, SocketGone
<1>18. ASSUME NEW r \in Reader, ReaderRuns(r) PROVE OpenIsUsed'
  <2>1. Crash \/ UNCHANGED <<sock, open, lpc>>
    BY <1>18 DEF ReaderRuns, ReaderTurn, ReaderSocketGone, ReaderReturns, Dispatch,
                 DispatchEnds, uiVars, clientVars, loopVars
  <2>2. QED
    BY <2>1, <1>1, <1>16
<1>19. CASE Draw \/ ChangeSettings \/ TryAgain \/ (\E c \in Conn : Drop(c)) \/ UNCHANGED vars
  <2>1. sock' = sock /\ lpc' = lpc /\ open' \subseteq open
    BY <1>19 DEF Draw, ChangeSettings, TryAgain, Drop, vars, uiVars, clientVars, loopVars
  <2>2. QED
    BY <2>1, <1>1
<1> HIDE DEF OpenIsUsed, Goto, At
<1>20. QED
  BY <1>4, <1>17, <1>18, <1>19 DEF Next, UI

(* A student who left the exam, and whose loops have ended, holds no open  *)
(* connection: the teacher sees no ghost.                                  *)
THEOREM LeftMeansHungUpAlways == Spec => []LeftMeansHungUp
<1>1. Init => OpenIsUsed
  BY DEF Init, OpenIsUsed
<1>2. OpenIsUsed => LeftMeansHungUp
  BY DEF OpenIsUsed, LeftMeansHungUp, NoLoop, Using
<1>3. QED
  BY <1>1, <1>2, UsedStep, StudentTypeCorrect, PTL DEF Spec

-----------------------------------------------------------------------------
(* A nil socket.  A loop that has to resolve, dial or wait has been        *)
(* through the head of the loop, which lowers isConnected, and only a      *)
(* handshake raises it: with one loop, a dial that fails leaves nil behind *)
(* only where nobody is connected.                                         *)

\* With one run loop nobody uses a nil socket, whatever the student clicks and
\* the network does: neither the loop, nor a reader that is told to go on
\* (client.go, Start, Stop and readControlFrames).
SoleLoopHasSocket ==
  (\A l, m \in Loop : l = m) =>
    /\ \A l \in Loop : lpc[l] \in Using => sock # NoConn
    /\ connected => sock # NoConn

Searching == {"resolve", "dial", "hello"}
SoleLoop == \A l, m \in Loop : l = m
SoleLoopSearches == SoleLoop => \A l \in Loop : lpc[l] \in Searching => ~connected

SoleInv == SoleLoopHasSocket /\ SoleLoopSearches

LEMMA SoleStep == TypeOK /\ SoleInv /\ [Next]_vars => SoleInv'
<1> SUFFICES ASSUME TypeOK, SoleInv, [Next]_vars, SoleLoop PROVE SoleInv'
  BY DEF SoleInv, SoleLoopHasSocket, SoleLoopSearches, SoleLoop
<1> USE DEF SoleInv, SoleLoop, SoleLoopHasSocket, SoleLoopSearches, Goto, At
\* What a loop's step leaves to be shown: where it went, and what it has.
<1>1. ASSUME NEW l \in Loop, NEW step, lpc' = [lpc EXCEPT ![l] = step],
             step \in Using => sock' # NoConn,
             connected' => sock' # NoConn,
             step \in Searching => ~connected'
      PROVE SoleInv'
  BY <1>1 DEF TypeOK, SoleLoop
<1>2. ASSUME UNCHANGED <<lpc, sock>>, connected' => connected PROVE SoleInv'
  BY <1>2
<1>3. ASSUME Crash PROVE SoleInv'
  BY <1>3 DEF Crash, Using, Searching
<1>4. ASSUME NEW l \in Loop, NEW ip \in Manual \cup {NoAddr}, Submit(l, ip) PROVE SoleInv'
  BY <1>1, <1>4 DEF Submit, Using, Searching
<1>5. ASSUME NEW l \in Loop, Top(l) PROVE SoleInv'
  BY <1>1, <1>5 DEF Top, Using, Searching
<1>6. ASSUME NEW l \in Loop, NEW a \in Addr, Resolved(l, a) PROVE SoleInv'
  BY <1>1, <1>6 DEF Resolved, Using, Searching
<1>7. ASSUME NEW l \in Loop, Unresolved(l) PROVE SoleInv'
  BY <1>1, <1>7 DEF Unresolved, Using, Searching
<1>8. ASSUME NEW l \in Loop, NEW c \in Conn, Dialed(l, c) PROVE SoleInv'
  BY <1>1, <1>8, ProgramAssumption DEF Dialed, Searching
<1>9. ASSUME NEW l \in Loop, DialFails(l) PROVE SoleInv'
  BY <1>1, <1>9 DEF DialFails, Using, Searching
<1>10. ASSUME NEW l \in Loop, NEW r \in Reader, Accepted(l, r) PROVE SoleInv'
  BY <1>1, <1>10 DEF Accepted, Using, Searching
<1>11. ASSUME NEW l \in Loop, NotAccepted(l) PROVE SoleInv'
  BY <1>1, <1>11 DEF NotAccepted, Using, Searching, clientVars
<1>12. ASSUME NEW l \in Loop, WakeUp(l) PROVE SoleInv'
  BY <1>1, <1>12 DEF WakeUp, Using, Searching
<1>13. ASSUME NEW l \in Loop, Turn(l) PROVE SoleInv'
  BY <1>1, <1>13 DEF Turn, Using, Searching
<1>14. ASSUME NEW l \in Loop, SendFrame(l) PROVE SoleInv'
  BY <1>1, <1>14 DEF SendFrame, Using, Searching
<1>15. ASSUME NEW l \in Loop, CaptureFails(l) PROVE SoleInv'
  BY <1>1, <1>15 DEF CaptureFails, Using, Searching
<1>16. ASSUME NEW l \in Loop, HangUp(l) PROVE SoleInv'
  BY <1>1, <1>16 DEF HangUp, Using, Searching, clientVars
<1>17. ASSUME NEW l \in Loop, LoopRuns(l) PROVE SoleInv'
  BY <1>3, <1>5, <1>6, <1>7, <1>8, <1>9, <1>10, <1>11, <1>12, <1>13, <1>14, <1>15, <1>16,
     <1>17 DEF LoopRuns, CapturerGone, SocketGone
<1>18. ASSUME NEW r \in Reader, ReaderRuns(r) PROVE SoleInv'
  <2>1. Crash \/ UNCHANGED <<lpc, sock, connected>>
    BY <1>18 DEF ReaderRuns, ReaderTurn, ReaderSocketGone, ReaderReturns, Dispatch,
                 DispatchEnds, clientVars, loopVars
  <2>2. QED
    BY <2>1, <1>2, <1>3
<1>19. CASE Draw \/ ChangeSettings \/ TryAgain \/ (\E c \in Conn : Drop(c)) \/ UNCHANGED vars
  <2>1. UNCHANGED <<lpc, sock>> /\ (connected' => connected)
    BY <1>19 DEF Draw, ChangeSettings, TryAgain, Drop, vars, clientVars, loopVars
  <2>2. QED
    BY <2>1, <1>2
<1> HIDE DEF SoleInv, SoleLoop, SoleLoopHasSocket, SoleLoopSearches, Goto, At
<1>20. QED
  BY <1>4, <1>17, <1>18, <1>19 DEF Next, UI

(* With one run loop nobody uses a nil socket: a panic on one is the work  *)
(* of two loops that overlap.                                              *)
THEOREM SoleLoopHasSocketAlways == Spec => []SoleLoopHasSocket
<1>1. Init => SoleInv
  BY DEF Init, SoleInv, SoleLoopHasSocket, SoleLoopSearches, Using, Searching
<1>2. SoleInv => SoleLoopHasSocket
  BY DEF SoleInv
<1>3. QED
  BY <1>1, <1>2, SoleStep, StudentTypeCorrect, PTL DEF Spec

LEMMA OverlapStep == TypeOK /\ NilNeedsOverlap /\ [Next]_vars => NilNeedsOverlap'
<1> SUFFICES ASSUME TypeOK, NilNeedsOverlap, [Next]_vars PROVE NilNeedsOverlap'
  OBVIOUS
<1> USE DEF NilNeedsOverlap, Goto, At
\* A loop that did not use the socket must find one when it begins to, and
\* leaves the program only when asked to ...
<1>1. ASSUME NEW l \in Loop, NEW step, lpc' = [lpc EXCEPT ![l] = step],
             running' => step # "none",
             running' => running,
             lpc[l] \notin Using /\ step \in Using => sock' # NoConn,
             sock' = NoConn => sock = NoConn \/ step \notin Using
      PROVE NilNeedsOverlap'
  BY <1>1 DEF TypeOK
<1>2. ASSUME UNCHANGED <<lpc, sock>>, running' => running PROVE NilNeedsOverlap'
  BY <1>2
<1>3. ASSUME Crash PROVE NilNeedsOverlap'
  BY <1>3 DEF Crash
\* ... and a Start that raises the flag adds a loop of its own.
<1>4. ASSUME NEW l \in Loop, NEW ip \in Manual \cup {NoAddr}, Submit(l, ip)
      PROVE NilNeedsOverlap'
  BY <1>4 DEF Submit, Using, TypeOK
<1>5. ASSUME NEW l \in Loop, Top(l) PROVE NilNeedsOverlap'
  BY <1>1, <1>5 DEF Top, Using
<1>6. ASSUME NEW l \in Loop, NEW a \in Addr, Resolved(l, a) PROVE NilNeedsOverlap'
  BY <1>1, <1>6 DEF Resolved, Using
<1>7. ASSUME NEW l \in Loop, Unresolved(l) PROVE NilNeedsOverlap'
  BY <1>1, <1>7 DEF Unresolved, Using
<1>8. ASSUME NEW l \in Loop, NEW c \in Conn, Dialed(l, c) PROVE NilNeedsOverlap'
  BY <1>1, <1>8, ProgramAssumption DEF Dialed
<1>9. ASSUME NEW l \in Loop, DialFails(l) PROVE NilNeedsOverlap'
  BY <1>1, <1>9 DEF DialFails, Using
<1>10. ASSUME NEW l \in Loop, NEW r \in Reader, Accepted(l, r) PROVE NilNeedsOverlap'
  BY <1>1, <1>10 DEF Accepted, Using
<1>11. ASSUME NEW l \in Loop, NotAccepted(l) PROVE NilNeedsOverlap'
  BY <1>1, <1>11 DEF NotAccepted, Using, clientVars
<1>12. ASSUME NEW l \in Loop, WakeUp(l) PROVE NilNeedsOverlap'
  BY <1>1, <1>12 DEF WakeUp, Using
<1>13. ASSUME NEW l \in Loop, Turn(l) PROVE NilNeedsOverlap'
  BY <1>1, <1>13 DEF Turn, Using
<1>14. ASSUME NEW l \in Loop, SendFrame(l) PROVE NilNeedsOverlap'
  BY <1>1, <1>14 DEF SendFrame, Using
<1>15. ASSUME NEW l \in Loop, CaptureFails(l) PROVE NilNeedsOverlap'
  BY <1>1, <1>15 DEF CaptureFails, Using
<1>16. ASSUME NEW l \in Loop, HangUp(l) PROVE NilNeedsOverlap'
  BY <1>1, <1>16 DEF HangUp, Using, clientVars
<1>17. ASSUME NEW l \in Loop, LoopRuns(l) PROVE NilNeedsOverlap'
  BY <1>3, <1>5, <1>6, <1>7, <1>8, <1>9, <1>10, <1>11, <1>12, <1>13, <1>14, <1>15, <1>16,
     <1>17 DEF LoopRuns, CapturerGone, SocketGone
<1>18. ASSUME NEW r \in Reader, ReaderRuns(r) PROVE NilNeedsOverlap'
  <2>1. Crash \/ UNCHANGED <<lpc, sock, running>>
    BY <1>18 DEF ReaderRuns, ReaderTurn, ReaderSocketGone, ReaderReturns, Dispatch,
                 DispatchEnds, clientVars, loopVars
  <2>2. QED
    BY <2>1, <1>2, <1>3
<1>19. CASE Draw \/ ChangeSettings \/ TryAgain \/ (\E c \in Conn : Drop(c)) \/ UNCHANGED vars
  <2>1. UNCHANGED <<lpc, sock>> /\ (running' => running)
    BY <1>19 DEF Draw, ChangeSettings, TryAgain, Drop, vars, clientVars, loopVars
  <2>2. QED
    BY <2>1, <1>2
<1> HIDE DEF NilNeedsOverlap, Goto, At
<1>20. QED
  BY <1>4, <1>17, <1>18, <1>19 DEF Next, UI

(* The same for any number of loops: while the student is in the exam, a   *)
(* loop finds nil in Client.socket only beside another loop.               *)
THEOREM NilNeedsOverlapAlways == Spec => []NilNeedsOverlap
<1>1. Init => NilNeedsOverlap
  BY DEF Init, NilNeedsOverlap, Using
<1>2. QED
  BY <1>1, OverlapStep, StudentTypeCorrect, PTL DEF Spec

-----------------------------------------------------------------------------
(* The cached address.  Whoever stores an address goes on to dial it, and  *)
(* a dial that fails forgets the cached one, whichever that is by then; a  *)
(* loop that moves from one step to another without dialling takes no      *)
(* address out of anybody's hands.                                         *)

LEMMA DeadCacheStep == TypeOK /\ DeadCacheIsDialled /\ [Next]_vars => DeadCacheIsDialled'
<1> SUFFICES ASSUME TypeOK, DeadCacheIsDialled, [Next]_vars PROVE DeadCacheIsDialled'
  OBVIOUS
<1> USE DEF DeadCacheIsDialled, Goto, At
<1>1. ASSUME cached' = NoAddr PROVE DeadCacheIsDialled'
  BY <1>1, ProgramAssumption
<1>2. ASSUME UNCHANGED <<cached, lpc, target>> PROVE DeadCacheIsDialled'
  BY <1>2
<1>3. ASSUME NEW l \in Loop, NEW step, lpc[l] # "dial",
             UNCHANGED <<cached, target>>, lpc' = [lpc EXCEPT ![l] = step]
      PROVE DeadCacheIsDialled'
  <2> SUFFICES ASSUME cached \in Addr \ Answering
               PROVE \E m \in Loop : lpc'[m] = "dial" /\ target'[m] = cached'
    BY <1>3
  <2>1. PICK m \in Loop : lpc[m] = "dial" /\ target[m] = cached
    OBVIOUS
  <2>2. lpc'[m] = "dial"
    BY <2>1, <1>3 DEF TypeOK
  <2>3. QED
    BY <2>1, <2>2, <1>3
<1>4. ASSUME NEW l \in Loop, lpc'[l] = "dial", target'[l] = cached' PROVE DeadCacheIsDialled'
  BY <1>4
<1>5. ASSUME NEW l \in Loop, Top(l) PROVE DeadCacheIsDialled'
  <2>1. CASE running /\ cached = NoAddr
    BY <2>1, <1>1, <1>5 DEF Top
  <2>2. CASE running /\ cached # NoAddr
    <3>1. lpc'[l] = "dial" /\ target'[l] = cached'
      BY <2>2, <1>5 DEF Top, TypeOK
    <3>2. QED
      BY <3>1, <1>4
  <2>3. CASE ~running
    BY <2>3, <1>3, <1>5 DEF Top
  <2>4. QED
    BY <2>1, <2>2, <2>3
<1>6. ASSUME NEW l \in Loop, NEW a \in Addr, Resolved(l, a) PROVE DeadCacheIsDialled'
  <2>1. lpc'[l] = "dial" /\ target'[l] = cached'
    BY <1>6 DEF Resolved, TypeOK
  <2>2. QED
    BY <2>1, <1>4
\* The one loop that lets go of an address and keeps the cached one has found
\* somebody there.
<1>7. ASSUME NEW l \in Loop, NEW c \in Conn, Dialed(l, c) PROVE DeadCacheIsDialled'
  <2> SUFFICES ASSUME cached' \in Addr \ Answering
               PROVE \E m \in Loop : lpc'[m] = "dial" /\ target'[m] = cached'
    OBVIOUS
  <2>1. cached' = cached
    BY <1>7 DEF Dialed
  <2>2. PICK m \in Loop : lpc[m] = "dial" /\ target[m] = cached
    BY <2>1
  <2>3. m # l
    BY <2>1, <2>2, <1>7 DEF Dialed
  <2>4. lpc'[m] = lpc[m] /\ target'[m] = target[m]
    BY <2>3, <1>7 DEF Dialed, TypeOK
  <2>5. QED
    BY <2>1, <2>2, <2>4
<1>8. ASSUME NEW l \in Loop, Unresolved(l) \/ DialFails(l) PROVE DeadCacheIsDialled'
  BY <1>1, <1>8 DEF Unresolved, DialFails
<1>9. ASSUME Crash PROVE DeadCacheIsDialled'
  BY <1>1, <1>9 DEF Crash
<1>10. ASSUME NEW l \in Loop, NEW r \in Reader, Accepted(l, r) PROVE DeadCacheIsDialled'
  BY <1>3, <1>10 DEF Accepted
<1>11. ASSUME NEW l \in Loop, NotAccepted(l) \/ HangUp(l) PROVE DeadCacheIsDialled'
  BY <1>3, <1>11 DEF NotAccepted, HangUp, clientVars
<1>12. ASSUME NEW l \in Loop, WakeUp(l) PROVE DeadCacheIsDialled'
  BY <1>3, <1>12 DEF WakeUp
<1>13. ASSUME NEW l \in Loop, Turn(l) \/ SendFrame(l) \/ CaptureFails(l)
       PROVE DeadCacheIsDialled'
  BY <1>3, <1>13 DEF Turn, SendFrame, CaptureFails
<1>14. ASSUME NEW l \in Loop, LoopRuns(l) PROVE DeadCacheIsDialled'
  BY <1>5, <1>6, <1>7, <1>8, <1>9, <1>10, <1>11, <1>12, <1>13, <1>14
     DEF LoopRuns, CapturerGone, SocketGone
<1>15. ASSUME NEW r \in Reader, ReaderRuns(r) PROVE DeadCacheIsDialled'
  <2>1. Crash \/ UNCHANGED <<cached, lpc, target>>
    BY <1>15 DEF ReaderRuns, ReaderTurn, ReaderSocketGone, ReaderReturns, Dispatch,
                 DispatchEnds, clientVars, loopVars
  <2>2. QED
    BY <2>1, <1>2, <1>9
<1>16. ASSUME NEW l \in Loop, NEW ip \in Manual \cup {NoAddr}, Submit(l, ip)
       PROVE DeadCacheIsDialled'
  BY <1>3, <1>16 DEF Submit
<1>17. CASE TryAgain
  BY <1>1, <1>17 DEF TryAgain
<1>18. CASE Draw \/ ChangeSettings \/ (\E c \in Conn : Drop(c)) \/ UNCHANGED vars
  <2>1. UNCHANGED <<cached, lpc, target>>
    BY <1>18 DEF Draw, ChangeSettings, Drop, vars, clientVars, loopVars
  <2>2. QED
    BY <2>1, <1>2
<1> HIDE DEF DeadCacheIsDialled, Goto, At
<1>19. QED
  BY <1>14, <1>15, <1>16, <1>17, <1>18 DEF Next, UI

(* An address where nobody answers is remembered no longer than some loop  *)
(* has it in hand to dial.                                                 *)
THEOREM DeadCacheIsDialledAlways == Spec => []DeadCacheIsDialled
<1>1. Init => DeadCacheIsDialled
  BY ProgramAssumption DEF Init, DeadCacheIsDialled
<1>2. QED
  BY <1>1, DeadCacheStep, StudentTypeCorrect, PTL DEF Spec

-----------------------------------------------------------------------------
(* Seen from outside, an exam is not taken back.  The mapping of ExamTold  *)
(* is over as soon as the flag of the dashboard or the machine says so;    *)
(* the machine is never behind the flag, nor behind a stop in progress.    *)

ToldNow == IF ended \/ machine = "stopped" THEN "over"
           ELSE IF machine = "capturing" THEN "running" ELSE machine

EndedIsStopped ==
  /\ ended => machine = "stopped"
  /\ \A r \in Reader : rpc[r] = "second" /\ event[r] = "exam_stop" => machine = "stopped"

\* The frames that move the machine.
MachineStep ==
  \/ machine' = machine
  \/ \E e \in ClientEvent : machine' = ClientApply(machine, e)

LEMMA EndedStep ==
  TypeOK /\ EndedIsStopped /\ [Next]_vars => EndedIsStopped' /\ MachineStep
<1> SUFFICES ASSUME TypeOK, EndedIsStopped, [Next]_vars PROVE EndedIsStopped' /\ MachineStep
  OBVIOUS
<1> USE DEF EndedIsStopped, MachineStep
<1>1. ASSUME UNCHANGED <<machine, ended, event>>,
             \A r \in Reader : rpc'[r] = "second" => rpc[r] = "second"
      PROVE EndedIsStopped' /\ MachineStep
  BY <1>1
<1>2. ASSUME Crash PROVE EndedIsStopped' /\ MachineStep
  BY <1>2 DEF Crash
<1>3. ASSUME NEW l \in Loop, NEW r \in Reader, Accepted(l, r)
      PROVE EndedIsStopped' /\ MachineStep
  <2>1. machine = "stopped" => machine' = "stopped"
    BY <1>3, ApplyEnds, Frames DEF Accepted
  <2>2. \A q \in Reader : rpc'[q] = "second" => rpc[q] = "second"
    BY <1>3 DEF Accepted, TypeOK
  <2>3. QED
    BY <1>3, <2>1, <2>2, Frames DEF Accepted
<1>4. ASSUME NEW r \in Reader, NEW f \in Frame, Dispatch(r, f)
      PROVE EndedIsStopped' /\ MachineStep
  <2>1. f \in ClientEvent /\ machine \in ClientState
    BY Frames DEF TypeOK
  <2>2. machine = "stopped" => machine' = "stopped"
    BY <1>4, <2>1, ApplyEnds DEF Dispatch
  <2>3. f = "exam_stop" => machine' = "stopped"
    BY <1>4, <2>1, ApplyEnds DEF Dispatch
  <2>4. \A q \in Reader : rpc'[q] = "second" /\ event'[q] = "exam_stop" =>
          \/ q = r /\ f = "exam_stop"
          \/ rpc[q] = "second" /\ event[q] = "exam_stop"
    BY <1>4 DEF Dispatch, TypeOK
  <2>5. ended' => ended
    BY <1>4 DEF Dispatch
  <2>6. MachineStep
    BY <1>4, <2>1 DEF Dispatch
  <2>7. QED
    BY <2>2, <2>3, <2>4, <2>5, <2>6
<1>5. ASSUME NEW r \in Reader, DispatchEnds(r) PROVE EndedIsStopped' /\ MachineStep
  <2>1. machine = "stopped" => machine' = "stopped"
    BY <1>5, ApplyEnds, Frames DEF DispatchEnds
  <2>2. \A q \in Reader : rpc'[q] = "second" => rpc[q] = "second" /\ event'[q] = event[q]
    BY <1>5 DEF DispatchEnds, TypeOK
  <2>3. ended' => ended \/ event[r] = "exam_stop"
    BY <1>5 DEF DispatchEnds
  <2>4. rpc[r] = "second"
    BY <1>5 DEF DispatchEnds
  <2>5. MachineStep
    BY <1>5, Frames DEF DispatchEnds
  <2>6. QED
    BY <2>1, <2>2, <2>3, <2>4, <2>5
<1>6. ASSUME NEW r \in Reader, ReaderTurn(r) \/ ReaderReturns(r)
      PROVE EndedIsStopped' /\ MachineStep
  <2>1. \A q \in Reader : rpc'[q] = "second" => rpc[q] = "second"
    BY <1>6 DEF ReaderTurn, ReaderReturns, TypeOK
  <2>2. QED
    BY <1>6, <2>1, <1>1 DEF ReaderTurn, ReaderReturns, uiVars, clientVars
<1>7. ASSUME NEW r \in Reader, ReaderRuns(r) PROVE EndedIsStopped' /\ MachineStep
  BY <1>2, <1>4, <1>5, <1>6, <1>7 DEF ReaderRuns, ReaderSocketGone
<1>8. ASSUME NEW l \in Loop, LoopRuns(l) PROVE EndedIsStopped' /\ MachineStep
  <2>1. \/ Crash \/ \E r \in Reader : Accepted(l, r)
        \/ UNCHANGED <<machine, ended, event, rpc>>
    BY <1>8 DEF LoopRuns, Top, Resolved, Unresolved, Dialed, DialFails, NotAccepted, WakeUp,
                Turn, SendFrame, CapturerGone, CaptureFails, HangUp, SocketGone,
                uiVars, clientVars, readerVars
  <2>2. QED
    BY <2>1, <1>1, <1>2, <1>3
<1>9. CASE UI \/ (\E c \in Conn : Drop(c)) \/ UNCHANGED vars
  <2>1. UNCHANGED <<machine, ended, event, rpc>>
    BY <1>9 DEF UI, Draw, Submit, ChangeSettings, TryAgain, Drop, vars, uiVars, clientVars,
                readerVars
  <2>2. QED
    BY <2>1, <1>1
<1> HIDE DEF EndedIsStopped, MachineStep
<1>10. QED
  BY <1>7, <1>8, <1>9 DEF Next

LEMMA ToldStep ==
  TypeOK /\ EndedIsStopped /\ EndedIsStopped' /\ MachineStep
    => (Told!ToldNext \/ ToldNow' = ToldNow)
<1> SUFFICES ASSUME TypeOK, EndedIsStopped, EndedIsStopped', MachineStep
             PROVE  Told!ToldNext \/ ToldNow' = ToldNow
  OBVIOUS
<1> DEFINE Shown(st) == IF st = "stopped" THEN "over"
                        ELSE IF st = "capturing" THEN "running" ELSE st
<1>1. ToldNow = Shown(machine) /\ ToldNow' = Shown(machine')
  BY DEF EndedIsStopped, ToldNow
<1>2. machine \in ClientState
  BY DEF TypeOK
<1>3. \/ Shown(machine') = Shown(machine)
      \/ Shown(machine) = "waiting" /\ Shown(machine') \in {"running", "locked", "over"}
      \/ Shown(machine) \in {"running", "locked"}
         /\ Shown(machine') \in {"running", "locked", "over"}
  BY <1>2 DEF MachineStep, ClientApply, ClientState, ClientEvent
<1> HIDE DEF Shown
<1>4. QED
  BY <1>1, <1>3 DEF Told!ToldNext, Told!Begin, Told!LockOrUnlock, Told!Finish,
                    Told!Waiting, Told!Running, ToldNow

(* The student's program implements ExamTold: the exam the student is told *)
(* of begins, may be locked and unlocked, ends, and stays ended.           *)
THEOREM ExamNotTakenBackAlways == Spec => ExamNotTakenBack
<1>1. Init => EndedIsStopped /\ Told!ToldInit
  BY DEF Init, EndedIsStopped, NewMachine, Told!ToldInit, Told!Waiting
<1>2. Spec => [](TypeOK /\ EndedIsStopped)
  BY <1>1, EndedStep, StudentTypeCorrect, PTL DEF Spec
<1>3. TypeOK /\ EndedIsStopped /\ EndedIsStopped' /\ [Next]_vars
        => (Told!ToldNext \/ ToldNow' = ToldNow)
  BY EndedStep, ToldStep
<1>4. TypeOK /\ EndedIsStopped /\ EndedIsStopped' /\ [Next]_vars
        => [Told!ToldNext]_ToldNow
  BY <1>3
<1>5. QED
  BY <1>1, <1>2, <1>4, PTL DEF Spec, ExamNotTakenBack, Told!ToldSpec, ToldNow
=============================================================================
