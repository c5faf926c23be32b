-------------------------- MODULE LockOverlayProofs --------------------------
(***************************************************************************)
(* Proofs about the lock overlay, for any messages and any number of       *)
(* goroutines.  Books is how calls, goroutines and windows go together in  *)
(* every state; CalmBooks is what is true besides while no Show is hurried *)
(* and no window is closed from outside: then one goroutine at most lives, *)
(* it is the last one started, and `window` leads to it.                   *)
(***************************************************************************)
EXTENDS LockOverlay, TLAPS

(* A call in progress agrees with what is wanted, and Show has a goroutine *)
(* left to start.                                                          *)
Calls ==
  /\ caller \in {"swap", "refresh"} => wanted
  /\ caller \in {"hide", "close"} => ~wanted
  /\ caller = "swap" => spawned < MaxRuns
  /\ caller = "close" => ~visible

(* A goroutine is started before it is anything, stored before it is found *)
(* or closed, and its window is up only while it takes events.             *)
Windows ==
  /\ \A r \in Run : r > spawned => rpc[r] = "unused"
  /\ \A r \in Run : rpc[r] \in {"unused", "start"} =>
       win[r] = "none" /\ ~closing[r] /\ window # r
  /\ \A r \in Run : win[r] = "up" => rpc[r] \in {"check", "event", "drain"}

Books == TypeOK /\ Calls /\ Windows /\ VisibleIsServed

(* One goroutine at most, and it can be found once it takes events.        *)
OneGoroutine ==
  /\ \A r \in Run : Alive(r) => r = spawned
  /\ caller = "swap" /\ ~visible => \A r \in Run : ~Alive(r)
  /\ \A r \in Run : rpc[r] \in {"check", "event"} => window = r

(* What is wanted is raised, a raised overlay is not being closed, and one *)
(* that is not raised is, or the call that lowered it is about to.         *)
RaisedAsWanted ==
  /\ caller = "idle" => (visible <=> wanted)
  /\ caller = "refresh" => visible
  /\ visible => \E r \in Run : /\ r = spawned
                               /\ rpc[r] \in {"start", "check", "event"}
                               /\ ~closing[r]
  /\ \A r \in Run : rpc[r] = "event" /\ ~visible =>
       closing[r] \/ (caller = "close" /\ window = r)

(* A window that is up shows the last message, or will.                    *)
Shows ==
  \A r \in Run : win[r] = "up" /\ visible /\ caller \notin {"swap", "refresh"} =>
    redraw[r] \/ drawn[r] = message

CalmBooks == Calm => OneGoroutine /\ RaisedAsWanted /\ Shows

OverlayInv == Books /\ CalmBooks
-----------------------------------------------------------------------------
(* Every step of the reader, of a goroutine or of the desktop keeps types. *)
LEMMA TypeStep ==
  ASSUME OverlayInv, [Next]_overlayVars
  PROVE  TypeOK'
<1> USE OverlayAssumption DEF TypeOK, Run, NoRun, Serving, RunGoto, runVars,
                              OverlayInv, Books, Calls
<1>1. ASSUME NEW m \in Message, CallShow(m) PROVE TypeOK'
  BY <1>1 DEF CallShow
<1>2. CASE ShowSwap
  BY <1>2 DEF ShowSwap
<1>3. CASE ShowRefresh
  BY <1>3 DEF ShowRefresh
<1>4. CASE CallHide
  BY <1>4 DEF CallHide
<1>5. CASE HideSwap
  BY <1>5 DEF HideSwap
<1>6. CASE HideClose
  BY <1>6 DEF HideClose
<1>7. ASSUME NEW r \in Run, StoreWindow(r) PROVE TypeOK'
  BY <1>7 DEF StoreWindow
<1>8. ASSUME NEW r \in Run, CheckVisible(r) PROVE TypeOK'
  BY <1>8 DEF CheckVisible
<1>9. ASSUME NEW r \in Run, OpenWindow(r) PROVE TypeOK'
  BY <1>9 DEF OpenWindow
<1>10. ASSUME NEW r \in Run, Draw(r) PROVE TypeOK'
  BY <1>10 DEF Draw
<1>11. ASSUME NEW r \in Run, OtherEvent(r) PROVE TypeOK'
  BY <1>11 DEF OtherEvent
<1>12. ASSUME NEW r \in Run, CloseFromOutside(r) PROVE TypeOK'
  BY <1>12 DEF CloseFromOutside
<1>13. ASSUME NEW r \in Run, Destroy(r) PROVE TypeOK'
  BY <1>13 DEF Destroy
<1>14. ASSUME NEW r \in Run, LowerVisible(r) PROVE TypeOK'
  BY <1>14 DEF LowerVisible
<1>15. ASSUME NEW r \in Run, ForgetWindow(r) PROVE TypeOK'
  BY <1>15 DEF ForgetWindow
<1>16. CASE UNCHANGED overlayVars
  BY <1>16 DEF overlayVars
<1> HIDE DEF TypeOK, Run, NoRun, Serving, RunGoto, runVars, OverlayInv, Books,
             Calls
<1>17. QED
  BY <1>1, <1>2, <1>3, <1>4, <1>5, <1>6, <1>7, <1>8,
     <1>9, <1>10, <1>11, <1>12, <1>13, <1>14, <1>15, <1>16 DEF Next, Reader, Goroutine

(* Show and Hide run one after the other on the reader goroutine.          *)
LEMMA CallsStep ==
  ASSUME OverlayInv, [Next]_overlayVars
  PROVE  Calls'
<1> USE OverlayAssumption DEF TypeOK, Run, NoRun, Serving, RunGoto, runVars,
                              OverlayInv, Books, Calls
<1>1. ASSUME NEW m \in Message, CallShow(m) PROVE Calls'
  BY <1>1 DEF CallShow
<1>2. CASE ShowSwap
  BY <1>2 DEF ShowSwap
<1>3. CASE ShowRefresh
  BY <1>3 DEF ShowRefresh
<1>4. CASE CallHide
  BY <1>4 DEF CallHide
<1>5. CASE HideSwap
  BY <1>5 DEF HideSwap
<1>6. CASE HideClose
  BY <1>6 DEF HideClose
<1>7. ASSUME NEW r \in Run, StoreWindow(r) PROVE Calls'
  BY <1>7 DEF StoreWindow
<1>8. ASSUME NEW r \in Run, CheckVisible(r) PROVE Calls'
  BY <1>8 DEF CheckVisible
<1>9. ASSUME NEW r \in Run, OpenWindow(r) PROVE Calls'
  BY <1>9 DEF OpenWindow
<1>10. ASSUME NEW r \in Run, Draw(r) PROVE Calls'
  BY <1>10 DEF Draw
<1>11. ASSUME NEW r \in Run, OtherEvent(r) PROVE Calls'
  BY <1>11 DEF OtherEvent
<1>12. ASSUME NEW r \in Run, CloseFromOutside(r) PROVE Calls'
  BY <1>12 DEF CloseFromOutside
<1>13. ASSUME NEW r \in Run, Destroy(r) PROVE Calls'
  BY <1>13 DEF Destroy
<1>14. ASSUME NEW r \in Run, LowerVisible(r) PROVE Calls'
  BY <1>14 DEF LowerVisible
<1>15. ASSUME NEW r \in Run, ForgetWindow(r) PROVE Calls'
  BY <1>15 DEF ForgetWindow
<1>16. CASE UNCHANGED overlayVars
  BY <1>16 DEF overlayVars
<1> HIDE DEF TypeOK, Run, NoRun, Serving, RunGoto, runVars, OverlayInv, Books,
             Calls
<1>17. QED
  BY <1>1, <1>2, <1>3, <1>4, <1>5, <1>6, <1>7, <1>8,
     <1>9, <1>10, <1>11, <1>12, <1>13, <1>14, <1>15, <1>16 DEF Next, Reader, Goroutine

(* Windows and goroutines go through their lives in step.                  *)
LEMMA WindowsStep ==
  ASSUME OverlayInv, [Next]_overlayVars
  PROVE  Windows'
<1> USE OverlayAssumption DEF TypeOK, Run, NoRun, Serving, RunGoto, runVars,
                              OverlayInv, Books, Calls, Windows
<1>1. ASSUME NEW m \in Message, CallShow(m) PROVE Windows'
  BY <1>1 DEF CallShow
<1>2. CASE ShowSwap
  BY <1>2 DEF ShowSwap
<1>3. CASE ShowRefresh
  BY <1>3 DEF ShowRefresh
<1>4. CASE CallHide
  BY <1>4 DEF CallHide
<1>5. CASE HideSwap
  BY <1>5 DEF HideSwap
<1>6. CASE HideClose
  BY <1>6 DEF HideClose
<1>7. ASSUME NEW r \in Run, StoreWindow(r) PROVE Windows'
  BY <1>7 DEF StoreWindow
<1>8. ASSUME NEW r \in Run, CheckVisible(r) PROVE Windows'
  BY <1>8 DEF CheckVisible
<1>9. ASSUME NEW r \in Run, OpenWindow(r) PROVE Windows'
  BY <1>9 DEF OpenWindow
<1>10. ASSUME NEW r \in Run, Draw(r) PROVE Windows'
  BY <1>10 DEF Draw
<1>11. ASSUME NEW r \in Run, OtherEvent(r) PROVE Windows'
  BY <1>11 DEF OtherEvent
<1>12. ASSUME NEW r \in Run, CloseFromOutside(r) PROVE Windows'
  BY <1>12 DEF CloseFromOutside
<1>13. ASSUME NEW r \in Run, Destroy(r) PROVE Windows'
  BY <1>13 DEF Destroy
<1>14. ASSUME NEW r \in Run, LowerVisible(r) PROVE Windows'
  BY <1>14 DEF LowerVisible
<1>15. ASSUME NEW r \in Run, ForgetWindow(r) PROVE Windows'
  BY <1>15 DEF ForgetWindow
<1>16. CASE UNCHANGED overlayVars
  BY <1>16 DEF overlayVars
<1> HIDE DEF TypeOK, Run, NoRun, Serving, RunGoto, runVars, OverlayInv, Books,
             Calls, Windows
<1>17. QED
  BY <1>1, <1>2, <1>3, <1>4, <1>5, <1>6, <1>7, <1>8,
     <1>9, <1>10, <1>11, <1>12, <1>13, <1>14, <1>15, <1>16 DEF Next, Reader, Goroutine

(* The goroutine that lowers `visible` was the last to answer for it, or   *)
(* has only taken back a raise that nobody else answers for.               *)
LEMMA ServedStep ==
  ASSUME OverlayInv, [Next]_overlayVars
  PROVE  VisibleIsServed'
<1> USE OverlayAssumption DEF TypeOK, Run, NoRun, Serving, RunGoto, runVars,
                              OverlayInv, Books, Calls, Windows,
                              VisibleIsServed
<1>1. ASSUME NEW m \in Message, CallShow(m) PROVE VisibleIsServed'
  BY <1>1 DEF CallShow
<1>2. CASE ShowSwap
  BY <1>2 DEF ShowSwap
<1>3. CASE ShowRefresh
  BY <1>3 DEF ShowRefresh
<1>4. CASE CallHide
  BY <1>4 DEF CallHide
<1>5. CASE HideSwap
  BY <1>5 DEF HideSwap
<1>6. CASE HideClose
  BY <1>6 DEF HideClose
<1>7. ASSUME NEW r \in Run, StoreWindow(r) PROVE VisibleIsServed'
  BY <1>7 DEF StoreWindow
<1>8. ASSUME NEW r \in Run, CheckVisible(r) PROVE VisibleIsServed'
  BY <1>8 DEF CheckVisible
<1>9. ASSUME NEW r \in Run, OpenWindow(r) PROVE VisibleIsServed'
  BY <1>9 DEF OpenWindow
<1>10. ASSUME NEW r \in Run, Draw(r) PROVE VisibleIsServed'
  BY <1>10 DEF Draw
<1>11. ASSUME NEW r \in Run, OtherEvent(r) PROVE VisibleIsServed'
  BY <1>11 DEF OtherEvent
<1>12. ASSUME NEW r \in Run, CloseFromOutside(r) PROVE VisibleIsServed'
  BY <1>12 DEF CloseFromOutside
<1>13. ASSUME NEW r \in Run, Destroy(r) PROVE VisibleIsServed'
  BY <1>13 DEF Destroy
<1>14. ASSUME NEW r \in Run, LowerVisible(r) PROVE VisibleIsServed'
  BY <1>14 DEF LowerVisible
<1>15. ASSUME NEW r \in Run, ForgetWindow(r) PROVE VisibleIsServed'
  BY <1>15 DEF ForgetWindow
<1>16. CASE UNCHANGED overlayVars
  BY <1>16 DEF overlayVars
<1> HIDE DEF TypeOK, Run, NoRun, Serving, RunGoto, runVars, OverlayInv, Books,
             Calls, Windows, VisibleIsServed
<1>17. QED
  BY <1>1, <1>2, <1>3, <1>4, <1>5, <1>6, <1>7, <1>8,
     <1>9, <1>10, <1>11, <1>12, <1>13, <1>14, <1>15, <1>16 DEF Next, Reader, Goroutine

(* While calm, a goroutine is started only when none lives.                *)
LEMMA OneStep ==
  ASSUME OverlayInv, Calm', [Next]_overlayVars
  PROVE  OneGoroutine'
<1> USE OverlayAssumption DEF TypeOK, Run, NoRun, Serving, RunGoto, runVars,
                              OverlayInv, Books, Calls, Windows, CalmBooks,
                              Calm, Alive, OneGoroutine, RaisedAsWanted
<1>1. ASSUME NEW m \in Message, CallShow(m) PROVE OneGoroutine'
  BY <1>1 DEF CallShow
<1>2. CASE ShowSwap
  BY <1>2 DEF ShowSwap
<1>3. CASE ShowRefresh
  BY <1>3 DEF ShowRefresh
<1>4. CASE CallHide
  BY <1>4 DEF CallHide
<1>5. CASE HideSwap
  BY <1>5 DEF HideSwap
<1>6. CASE HideClose
  BY <1>6 DEF HideClose
<1>7. ASSUME NEW r \in Run, StoreWindow(r) PROVE OneGoroutine'
  BY <1>7 DEF StoreWindow
<1>8. ASSUME NEW r \in Run, CheckVisible(r) PROVE OneGoroutine'
  BY <1>8 DEF CheckVisible
<1>9. ASSUME NEW r \in Run, OpenWindow(r) PROVE OneGoroutine'
  BY <1>9 DEF OpenWindow
<1>10. ASSUME NEW r \in Run, Draw(r) PROVE OneGoroutine'
  BY <1>10 DEF Draw
<1>11. ASSUME NEW r \in Run, OtherEvent(r) PROVE OneGoroutine'
  BY <1>11 DEF OtherEvent
<1>12. ASSUME NEW r \in Run, CloseFromOutside(r) PROVE OneGoroutine'
  BY <1>12 DEF CloseFromOutside
<1>13. ASSUME NEW r \in Run, Destroy(r) PROVE OneGoroutine'
  BY <1>13 DEF Destroy
<1>14. ASSUME NEW r \in Run, LowerVisible(r) PROVE OneGoroutine'
  BY <1>14 DEF LowerVisible
<1>15. ASSUME NEW r \in Run, ForgetWindow(r) PROVE OneGoroutine'
  BY <1>15 DEF ForgetWindow
<1>16. CASE UNCHANGED overlayVars
  BY <1>16 DEF overlayVars
<1> HIDE DEF TypeOK, Run, NoRun, Serving, RunGoto, runVars, OverlayInv, Books,
             Calls, Windows, CalmBooks, Calm, Alive, OneGoroutine,
             RaisedAsWanted
<1>17. QED
  BY <1>1, <1>2, <1>3, <1>4, <1>5, <1>6, <1>7, <1>8,
     <1>9, <1>10, <1>11, <1>12, <1>13, <1>14, <1>15, <1>16 DEF Next, Reader, Goroutine

(* While calm, nothing but Hide lowers what Show raised.                   *)
LEMMA RaisedStep ==
  ASSUME OverlayInv, Calm', [Next]_overlayVars
  PROVE  RaisedAsWanted'
<1> USE OverlayAssumption DEF TypeOK, Run, NoRun, Serving, RunGoto, runVars,
                              OverlayInv, Books, Calls, Windows, CalmBooks,
                              Calm, Alive, OneGoroutine, RaisedAsWanted
<1>1. ASSUME NEW m \in Message, CallShow(m) PROVE RaisedAsWanted'
  BY <1>1 DEF CallShow
<1>2. CASE ShowSwap
  BY <1>2 DEF ShowSwap
<1>3. CASE ShowRefresh
  BY <1>3 DEF ShowRefresh
<1>4. CASE CallHide
  BY <1>4 DEF CallHide
<1>5. CASE HideSwap
  BY <1>5 DEF HideSwap
<1>6. CASE HideClose
  BY <1>6 DEF HideClose
<1>7. ASSUME NEW r \in Run, StoreWindow(r) PROVE RaisedAsWanted'
  BY <1>7 DEF StoreWindow
<1>8. ASSUME NEW r \in Run, CheckVisible(r) PROVE RaisedAsWanted'
  BY <1>8 DEF CheckVisible
<1>9. ASSUME NEW r \in Run, OpenWindow(r) PROVE RaisedAsWanted'
  BY <1>9 DEF OpenWindow
<1>10. ASSUME NEW r \in Run, Draw(r) PROVE RaisedAsWanted'
  BY <1>10 DEF Draw
<1>11. ASSUME NEW r \in Run, OtherEvent(r) PROVE RaisedAsWanted'
  BY <1>11 DEF OtherEvent
<1>12. ASSUME NEW r \in Run, CloseFromOutside(r) PROVE RaisedAsWanted'
  BY <1>12 DEF CloseFromOutside
<1>13. ASSUME NEW r \in Run, Destroy(r) PROVE RaisedAsWanted'
  BY <1>13 DEF Destroy
<1>14. ASSUME NEW r \in Run, LowerVisible(r) PROVE RaisedAsWanted'
  BY <1>14 DEF LowerVisible
<1>15. ASSUME NEW r \in Run, ForgetWindow(r) PROVE RaisedAsWanted'
  BY <1>15 DEF ForgetWindow
<1>16. CASE UNCHANGED overlayVars
  BY <1>16 DEF overlayVars
<1> HIDE DEF TypeOK, Run, NoRun, Serving, RunGoto, runVars, OverlayInv, Books,
             Calls, Windows, CalmBooks, Calm, Alive, OneGoroutine,
             RaisedAsWanted
<1>17. QED
  BY <1>1, <1>2, <1>3, <1>4, <1>5, <1>6, <1>7, <1>8,
     <1>9, <1>10, <1>11, <1>12, <1>13, <1>14, <1>15, <1>16 DEF Next, Reader, Goroutine

(* While calm, a refreshed message reaches the one window there is.        *)
LEMMA ShowsStep ==
  ASSUME OverlayInv, Calm', [Next]_overlayVars
  PROVE  Shows'
<1> USE OverlayAssumption DEF TypeOK, Run, NoRun, Serving, RunGoto, runVars,
                              OverlayInv, Books, Calls, Windows, CalmBooks,
                              Calm, Alive, OneGoroutine, RaisedAsWanted, Shows
<1>1. ASSUME NEW m \in Message, CallShow(m) PROVE Shows'
  BY <1>1 DEF CallShow
<1>2. CASE ShowSwap
  BY <1>2 DEF ShowSwap
<1>3. CASE ShowRefresh
  BY <1>3 DEF ShowRefresh
<1>4. CASE CallHide
  BY <1>4 DEF CallHide
<1>5. CASE HideSwap
  BY <1>5 DEF HideSwap
<1>6. CASE HideClose
  BY <1>6 DEF HideClose
<1>7. ASSUME NEW r \in Run, StoreWindow(r) PROVE Shows'
  BY <1>7 DEF StoreWindow
<1>8. ASSUME NEW r \in Run, CheckVisible(r) PROVE Shows'
  BY <1>8 DEF CheckVisible
<1>9. ASSUME NEW r \in Run, OpenWindow(r) PROVE Shows'
  BY <1>9 DEF OpenWindow
<1>10. ASSUME NEW r \in Run, Draw(r) PROVE Shows'
  BY <1>10 DEF Draw
<1>11. ASSUME NEW r \in Run, OtherEvent(r) PROVE Shows'
  BY <1>11 DEF OtherEvent
<1>12. ASSUME NEW r \in Run, CloseFromOutside(r) PROVE Shows'
  BY <1>12 DEF CloseFromOutside
<1>13. ASSUME NEW r \in Run, Destroy(r) PROVE Shows'
  BY <1>13 DEF Destroy
<1>14. ASSUME NEW r \in Run, LowerVisible(r) PROVE Shows'
  BY <1>14 DEF LowerVisible
<1>15. ASSUME NEW r \in Run, ForgetWindow(r) PROVE Shows'
  BY <1>15 DEF ForgetWindow
<1>16. CASE UNCHANGED overlayVars
  BY <1>16 DEF overlayVars
<1> HIDE DEF TypeOK, Run, NoRun, Serving, RunGoto, runVars, OverlayInv, Books,
             Calls, Windows, CalmBooks, Calm, Alive, OneGoroutine,
             RaisedAsWanted, Shows
<1>17. QED
  BY <1>1, <1>2, <1>3, <1>4, <1>5, <1>6, <1>7, <1>8,
     <1>9, <1>10, <1>11, <1>12, <1>13, <1>14, <1>15, <1>16 DEF Next, Reader, Goroutine

-----------------------------------------------------------------------------
(* No goroutine, no window, nothing wanted.                                *)
LEMMA InitOverlayInv == Init => OverlayInv
<1> SUFFICES ASSUME Init PROVE OverlayInv
  OBVIOUS
<1> USE OverlayAssumption DEF Init
<1>1. TypeOK
  <2>1. rpc \in [Run -> Serving \cup {"unused", "drain", "forget", "done"}]
    OBVIOUS
  <2>2. win \in [Run -> {"none", "up", "gone"}] /\ drawn \in [Run -> Message]
    OBVIOUS
  <2>3. redraw \in [Run -> BOOLEAN] /\ closing \in [Run -> BOOLEAN]
    OBVIOUS
  <2>4. spawned \in 0..MaxRuns
    OBVIOUS
  <2>5. QED
    BY <2>1, <2>2, <2>3, <2>4 DEF TypeOK
<1>2. Calls /\ Windows /\ VisibleIsServed
  BY DEF Calls, Windows, VisibleIsServed, Run, NoRun
<1>3. OneGoroutine /\ RaisedAsWanted /\ Shows
  BY DEF OneGoroutine, Alive, RaisedAsWanted, Shows
<1>4. QED
  BY <1>1, <1>2, <1>3 DEF OverlayInv, Books, CalmBooks

(* Every step keeps it, conjunct by conjunct.                              *)
LEMMA NextOverlayInv == OverlayInv /\ [Next]_overlayVars => OverlayInv'
<1> SUFFICES ASSUME OverlayInv, [Next]_overlayVars PROVE OverlayInv'
  OBVIOUS
<1>1. Books'
  BY TypeStep, CallsStep, WindowsStep, ServedStep DEF Books
<1>2. CalmBooks'
  BY OneStep, RaisedStep, ShowsStep DEF CalmBooks
<1>3. QED
  BY <1>1, <1>2 DEF OverlayInv

(* So the invariant holds throughout.                                      *)
LEMMA AlwaysOverlayInv == Spec => []OverlayInv
  BY InitOverlayInv, NextOverlayInv, PTL DEF Spec

(* The overlay's variables keep their types: the window is a goroutine's   *)
(* own or nil, and no more goroutines are started than the bound allows.   *)
THEOREM OverlayTypeCorrect == Spec => []TypeOK
<1>1. OverlayInv => TypeOK
  BY DEF OverlayInv, Books
<1>2. QED
  BY <1>1, AlwaysOverlayInv, PTL

(* A raised `visible` always has a goroutine that answers for it, hurried  *)
(* calls and windows closed from outside included.                         *)
THEOREM VisibleIsServedAlways == Spec => []VisibleIsServed
<1>1. OverlayInv => VisibleIsServed
  BY DEF OverlayInv, Books
<1>2. QED
  BY <1>1, AlwaysOverlayInv, PTL

(* Without hurried calls and outside closes, what settles on the screen is *)
(* what the reader asked for last: one window with the last message, or    *)
(* none.                                                                   *)
THEOREM SettlesAsWantedAlways == Spec => []SettlesAsWanted
<1>1. OverlayInv => SettlesAsWanted
  <2>1. SUFFICES ASSUME OverlayInv, Settled, Calm
                 PROVE  /\ wanted => \E r \in Run : win[r] = "up" /\ drawn[r] = message
                        /\ \A r, q \in Run : win[r] = "up" /\ win[q] = "up"
                                              => wanted /\ r = q
    BY DEF SettlesAsWanted
  <2>2. OneGoroutine /\ RaisedAsWanted /\ Shows /\ Windows
    BY <2>1 DEF OverlayInv, Books, CalmBooks
  <2>3. ASSUME wanted PROVE \E r \in Run : win[r] = "up" /\ drawn[r] = message
    <3>1. PICK r \in Run : rpc[r] \in {"start", "check", "event"}
      BY <2>1, <2>2, <2>3 DEF RaisedAsWanted, Settled
    <3>2. win[r] = "up" /\ ~redraw[r] /\ visible
      BY <2>1, <2>2, <2>3, <3>1 DEF Settled, Alive, RaisedAsWanted
    <3>3. QED
      BY <2>1, <2>2, <3>2 DEF Shows, Settled
  <2>4. ASSUME NEW r \in Run, win[r] = "up" PROVE wanted /\ r = spawned
    <3>1. Alive(r)
      BY <2>2, <2>4 DEF Windows, Alive
    <3>2. rpc[r] = "event" /\ ~closing[r] /\ caller = "idle"
      BY <2>1, <3>1 DEF Settled
    <3>3. QED
      BY <2>2, <3>1, <3>2 DEF OneGoroutine, RaisedAsWanted
  <2>5. QED
    BY <2>3, <2>4
<1>2. QED
  BY <1>1, AlwaysOverlayInv, PTL
=============================================================================
