----------------------------- MODULE LockOverlay -----------------------------
(***************************************************************************)
(* The lock overlay of the client (client/ui/overlay.go): Show and Hide,   *)
(* called by the reader goroutine on LOCK and UNLOCK, and the goroutines   *)
(* `run` that each own a full-screen window.  They share two atomics:      *)
(* `visible`, which also tells Show whether a goroutine is needed, and     *)
(* `window`, which tells Show and Hide whom to wake.  One action is what   *)
(* happens between two operations on them.                                 *)
(*                                                                         *)
(* Gio is external: a window is created by the first Event, Event blocks   *)
(* until there is something to deliver, Invalidate brings a frame, an      *)
(* ActionClose brings a DestroyEvent, after which the window is gone.      *)
(***************************************************************************)
EXTENDS Naturals

CONSTANTS
  Message,   \* lock messages
  MaxRuns    \* bound: goroutines started, one for each Show that raises

ASSUME OverlayAssumption == Message # {} /\ MaxRuns \in Nat

Run == 1..MaxRuns
NoRun == 0     \* the nil window

VARIABLES
  caller,    \* where the reader stands in Show or Hide
  wanted,    \* the last call was Show (history)
  visible,   \* LockOverlay.visible
  message,   \* LockOverlay.message and .by
  window,    \* LockOverlay.window: the goroutine that stored it, or NoRun
  spawned,   \* goroutines started so far: 1..spawned
  rpc,       \* where each `run` stands
  win,       \* its window: not yet created, up, or gone
  redraw,    \* a frame is due for its window
  closing,   \* an ActionClose is due for its window
  drawn,     \* the message its window last drew
  hurried,   \* a Show raised it while an old goroutine was ending (history)
  dismissed  \* a window was closed from outside (history)

runVars == <<spawned, rpc, win, redraw, closing, drawn>>
overlayVars == <<caller, wanted, visible, message, window, runVars, hurried, dismissed>>

\* A goroutine in one of these will look at `visible`, or has it to lower.
Serving == {"start", "check", "event", "lower"}

TypeOK ==
  /\ caller \in {"idle", "swap", "refresh", "hide", "close"}
  /\ wanted \in BOOLEAN /\ visible \in BOOLEAN
  /\ hurried \in BOOLEAN /\ dismissed \in BOOLEAN
  /\ message \in Message
  /\ window \in Run \cup {NoRun}
  /\ spawned \in 0..MaxRuns
  /\ rpc \in [Run -> Serving \cup {"unused", "drain", "forget", "done"}]
  /\ win \in [Run -> {"none", "up", "gone"}]
  /\ redraw \in [Run -> BOOLEAN]
  /\ closing \in [Run -> BOOLEAN]
  /\ drawn \in [Run -> Message]

\* Seeded fault: NewLockOverlay stores no message, so a Load finds nil.
Init_NoMessage ==
  /\ caller = "idle"
  /\ wanted = FALSE /\ visible = FALSE
  /\ hurried = FALSE /\ dismissed = FALSE
  /\ message = "nil"
  /\ window = NoRun
  /\ spawned = 0
  /\ rpc = [r \in Run |-> "unused"]
  /\ win = [r \in Run |-> "none"]
  /\ redraw = [r \in Run |-> FALSE]
  /\ closing = [r \in Run |-> FALSE]
  /\ drawn = [r \in Run |-> message]

Init ==
  /\ caller = "idle"
  /\ wanted = FALSE /\ visible = FALSE
  /\ hurried = FALSE /\ dismissed = FALSE
  /\ message \in Message
  /\ window = NoRun
  /\ spawned = 0
  /\ rpc = [r \in Run |-> "unused"]
  /\ win = [r \in Run |-> "none"]
  /\ redraw = [r \in Run |-> FALSE]
  /\ closing = [r \in Run |-> FALSE]
  /\ drawn = [r \in Run |-> message]

Alive(r) == rpc[r] \notin {"unused", "done"}

-----------------------------------------------------------------------------
(* Show and Hide, on the reader goroutine. *)

\* Show stores the message first.  It is hurried when it will have to raise
\* an overlay whose last goroutine has not ended yet.
CallShow(m) ==
  /\ caller = "idle"
  /\ spawned < MaxRuns
  /\ caller' = "swap"
  /\ wanted' = TRUE
  /\ message' = m
  /\ hurried' = (hurried \/ (~visible /\ \E r \in Run : Alive(r)))
  /\ UNCHANGED <<visible, window, runVars, dismissed>>

\* visible.Swap(true): only the call that raises it starts a goroutine.
ShowSwap ==
  /\ caller = "swap"
  /\ visible' = TRUE
  /\ IF visible
     THEN caller' = "refresh" /\ UNCHANGED <<spawned, rpc>>
     ELSE /\ caller' = "idle"
          /\ spawned' = spawned + 1
          /\ rpc' = [rpc EXCEPT ![spawned + 1] = "start"]
  /\ UNCHANGED <<wanted, message, window, win, redraw, closing, drawn, hurried, dismissed>>

\* Seeded fault: Show does not invalidate a window that is already up.
ShowRefresh_NoInvalidate ==
  /\ caller = "refresh"
  /\ caller' = "idle"
  /\ UNCHANGED <<wanted, visible, message, window, runVars, hurried, dismissed>>

\* Already visible: the window, if there is one to be found, draws again.
ShowRefresh ==
  /\ caller = "refresh"
  /\ caller' = "idle"
  /\ redraw' = IF window = NoRun THEN redraw ELSE [redraw EXCEPT ![window] = TRUE]
  /\ UNCHANGED <<wanted, visible, message, window, spawned, rpc, win, closing,
                 drawn, hurried, dismissed>>

CallHide ==
  /\ caller = "idle"
  /\ caller' = "hide"
  /\ wanted' = FALSE
  /\ UNCHANGED <<visible, message, window, runVars, hurried, dismissed>>

\* visible.Swap(false): there is a window to close only if it was up.
HideSwap ==
  /\ caller = "hide"
  /\ caller' = IF visible THEN "close" ELSE "idle"
  /\ visible' = FALSE
  /\ UNCHANGED <<wanted, message, window, runVars, hurried, dismissed>>

\* The goroutine may be blocked in Event: the close wakes it.
HideClose ==
  /\ caller = "close"
  /\ caller' = "idle"
  /\ closing' = IF window = NoRun THEN closing ELSE [closing EXCEPT ![window] = TRUE]
  /\ UNCHANGED <<wanted, visible, message, window, spawned, rpc, win, redraw,
                 drawn, hurried, dismissed>>

-----------------------------------------------------------------------------
(* The goroutine `run` and its window. *)

RunGoto(r, from, to) == rpc[r] = from /\ rpc' = [rpc EXCEPT ![r] = to]

StoreWindow(r) ==
  /\ RunGoto(r, "start", "check")
  /\ window' = r
  /\ UNCHANGED <<caller, wanted, visible, message, spawned, win, redraw, closing,
                 drawn, hurried, dismissed>>

\* Seeded fault: a lowered overlay is drained without being closed.
CheckVisible_NoClose(r) ==
  /\ RunGoto(r, "check", IF visible THEN "event" ELSE "drain")
  /\ UNCHANGED <<caller, wanted, visible, message, window, spawned, win, redraw,
                 closing, drawn, hurried, dismissed>>

\* The head of the loop; a lowered overlay is closed and drained.
CheckVisible(r) ==
  /\ RunGoto(r, "check", IF visible THEN "event" ELSE "drain")
  /\ closing' = [closing EXCEPT ![r] = @ \/ ~visible]
  /\ UNCHANGED <<caller, wanted, visible, message, window, spawned, win, redraw,
                 drawn, hurried, dismissed>>

\* The first Event creates the window; its first frame is due.
OpenWindow(r) ==
  /\ rpc[r] \in {"event", "drain"}
  /\ win[r] = "none"
  /\ win' = [win EXCEPT ![r] = "up"]
  /\ redraw' = [redraw EXCEPT ![r] = TRUE]
  /\ UNCHANGED <<caller, wanted, visible, message, window, spawned, rpc, closing,
                 drawn, hurried, dismissed>>

\* FrameEvent in the loop: draw loads the message.
Draw(r) ==
  /\ win[r] = "up" /\ redraw[r]
  /\ RunGoto(r, "event", "check")
  /\ redraw' = [redraw EXCEPT ![r] = FALSE]
  /\ drawn' = [drawn EXCEPT ![r] = message]
  /\ UNCHANGED <<caller, wanted, visible, message, window, spawned, win, closing, hurried, dismissed>>

\* Any other event (focus, configuration) only takes the loop round once.
OtherEvent(r) ==
  /\ win[r] = "up"
  /\ RunGoto(r, "event", "check")
  /\ UNCHANGED <<caller, wanted, visible, message, window, spawned, win, redraw,
                 closing, drawn, hurried, dismissed>>

\* The desktop closes the window, asked by the student and not by the program.
CloseFromOutside(r) ==
  /\ win[r] = "up" /\ ~closing[r]
  /\ closing' = [closing EXCEPT ![r] = TRUE]
  /\ dismissed' = TRUE
  /\ UNCHANGED <<caller, wanted, visible, message, window, spawned, rpc, win,
                 redraw, drawn, hurried>>

\* DestroyEvent, in the loop or while draining.
Destroy(r) ==
  /\ win[r] = "up" /\ closing[r]
  /\ win' = [win EXCEPT ![r] = "gone"]
  /\ RunGoto(r, "event", "lower") \/ RunGoto(r, "drain", "forget")
  /\ UNCHANGED <<caller, wanted, visible, message, window, spawned, redraw,
                 closing, drawn, hurried, dismissed>>

\* Seeded fault: the loop's DestroyEvent leaves `visible` raised.
LowerVisible_StaysUp(r) ==
  /\ RunGoto(r, "lower", "forget")
  /\ UNCHANGED <<caller, wanted, visible, message, window, spawned, win, redraw,
                 closing, drawn, hurried, dismissed>>

\* The loop's DestroyEvent lowers `visible`, whoever raised it last.
LowerVisible(r) ==
  /\ RunGoto(r, "lower", "forget")
  /\ visible' = FALSE
  /\ UNCHANGED <<caller, wanted, message, window, spawned, win, redraw, closing,
                 drawn, hurried, dismissed>>

\* The deferred window.Store(nil), whoever stored it last.
ForgetWindow(r) ==
  /\ RunGoto(r, "forget", "done")
  /\ window' = NoRun
  /\ UNCHANGED <<caller, wanted, visible, message, spawned, win, redraw, closing,
                 drawn, hurried, dismissed>>

-----------------------------------------------------------------------------
Reader ==
  \/ (\E m \in Message : CallShow(m)) \/ ShowSwap \/ ShowRefresh
  \/ CallHide \/ HideSwap \/ HideClose

Goroutine(r) ==
  \/ StoreWindow(r) \/ CheckVisible(r) \/ OpenWindow(r) \/ Draw(r)
  \/ OtherEvent(r) \/ CloseFromOutside(r) \/ Destroy(r)
  \/ LowerVisible(r) \/ ForgetWindow(r)

Next == Reader \/ \E r \in Run : Goroutine(r)

Spec == Init /\ [][Next]_overlayVars

(* Neither a call nor a goroutine is held up; the desktop delivers the     *)
(* frames and closes it owes.  It owes nothing else.                       *)
Fairness ==
  /\ WF_overlayVars(ShowSwap) /\ WF_overlayVars(ShowRefresh)
  /\ WF_overlayVars(HideSwap) /\ WF_overlayVars(HideClose)
  /\ \A r \in Run :
       /\ WF_overlayVars(StoreWindow(r)) /\ WF_overlayVars(CheckVisible(r))
       /\ WF_overlayVars(OpenWindow(r)) /\ SF_overlayVars(Draw(r))
       /\ SF_overlayVars(Destroy(r))
       /\ WF_overlayVars(LowerVisible(r)) /\ WF_overlayVars(ForgetWindow(r))

FairSpec == Spec /\ Fairness

-----------------------------------------------------------------------------
(* Properties. *)

(***************************************************************************)
(* A raised `visible` has a goroutine that answers for it: Show may rely   *)
(* on it when it starts none, however Show, Hide and old goroutines        *)
(* overlap (Show's Swap against the loop's head and its DestroyEvent).     *)
(***************************************************************************)
VisibleIsServed == visible => \E r \in Run : rpc[r] \in Serving

\* No UNLOCK was overtaken by the next LOCK, no window closed from outside.
Calm == ~hurried /\ ~dismissed

\* Nothing is on its way: what the student sees will stay.
Settled ==
  /\ caller = "idle"
  /\ \A r \in Run : Alive(r) =>
       rpc[r] = "event" /\ win[r] = "up" /\ ~redraw[r] /\ ~closing[r]

(***************************************************************************)
(* Unless an UNLOCK is overtaken by the next LOCK or the window is closed  *)
(* from outside, what settles is what was asked for: one window with the   *)
(* last message after Show, none after Hide, even of a window that had     *)
(* not opened yet (Show and Hide against run).                             *)
(***************************************************************************)
SettlesAsWanted ==
  Settled /\ Calm =>
    /\ wanted => \E r \in Run : win[r] = "up" /\ drawn[r] = message
    /\ \A r, q \in Run : win[r] = "up" /\ win[q] = "up" => wanted /\ r = q

(***************************************************************************)
(* A calm overlay that stays unwanted ends with no goroutine and no window *)
(* (Hide's close and the drain of run).                                    *)
(***************************************************************************)
HideTakesEffect ==
  (~wanted /\ Calm) ~> (wanted \/ ~Calm \/ \A r \in Run : ~Alive(r))
=============================================================================
