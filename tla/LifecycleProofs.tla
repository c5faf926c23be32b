--------------------------- MODULE LifecycleProofs ---------------------------
(***************************************************************************)
(* Proofs about opening and closing rooms, for any ports and any number of *)
(* Starts.                                                                 *)
(***************************************************************************)
EXTENDS ServerLifecycle, TLAPS

LEMMA LifeTypeStep == LifeTypeOK /\ [LifeNext]_lifeVars => LifeTypeOK'
<1> SUFFICES ASSUME LifeTypeOK, [LifeNext]_lifeVars PROVE LifeTypeOK'
  OBVIOUS
<1> USE LifecycleAssumption DEF LifeTypeOK, Run, NoRun, Become
<1>1. CASE Start
  <2>1. starts' \in Run
    BY <1>1 DEF Start
  <2>2. QED
    BY <1>1, <2>1 DEF Start, Advertise, Unfinished
<1>2. CASE Stop
  BY <1>2 DEF Stop
<1>3. ASSUME NEW r \in Run, Listen(r) PROVE LifeTypeOK'
  BY <1>3 DEF Listen
<1>4. ASSUME NEW r \in Run, ListenFails(r) PROVE LifeTypeOK'
  BY <1>4 DEF ListenFails
<1>5. ASSUME NEW r \in Run, Store(r) PROVE LifeTypeOK'
  BY <1>5 DEF Store
<1>6. ASSUME NEW r \in Run, AcceptTop(r) PROVE LifeTypeOK'
  BY <1>6 DEF AcceptTop
<1>7. ASSUME NEW r \in Run, AcceptFails(r) \/ Connect(r) PROVE LifeTypeOK'
  BY <1>7 DEF AcceptFails, Connect
<1>8. ASSUME NEW r \in Run, Announce(r) PROVE LifeTypeOK'
  BY <1>8 DEF Announce
<1>9. ASSUME NEW r \in Run, WakeAnnouncer(r) PROVE LifeTypeOK'
  BY <1>9 DEF WakeAnnouncer
<1>10. CASE UNCHANGED lifeVars
  BY <1>10 DEF lifeVars
<1>11. QED
  BY <1>1, <1>2, <1>3, <1>4, <1>5, <1>6, <1>7, <1>8, <1>9, <1>10
     DEF LifeNext, Acceptor, Announcer

LEMMA LifeTypeInit == LifeInit => LifeTypeOK
<1> SUFFICES ASSUME LifeInit PROVE LifeTypeOK
  OBVIOUS
<1>1. /\ acceptor \in [Run -> {"none", "begin", "store", "top", "accept", "ended", "failed"}]
      /\ announcer \in [Run -> {"none", "top", "sleep", "ended"}]
  BY DEF LifeInit
<1>2. starts \in 0 .. MaxStarts
  BY LifecycleAssumption DEF LifeInit
<1>3. /\ shown \in BOOLEAN /\ isRunning \in BOOLEAN /\ cancelled \in BOOLEAN
      /\ overtaken \in BOOLEAN
  BY DEF LifeInit
<1>4. QED
  BY <1>1, <1>2, <1>3 DEF LifeInit, LifeTypeOK, NoRun

(* Every variable of the lifecycle keeps to its type.                      *)
THEOREM LifeTypeCorrect == LifeSpec => []LifeTypeOK
  BY LifeTypeInit, LifeTypeStep, PTL DEF LifeSpec

LEMMA BecomeMoves ==
  ASSUME LifeTypeOK, NEW r \in Run, NEW step, Become(r, step)
  PROVE  /\ acceptor'[r] = step
         /\ \A q \in Run : q # r => acceptor'[q] = acceptor[q]
  BY DEF LifeTypeOK, Become

-----------------------------------------------------------------------------
(* Listeners and their goroutines.                                         *)

(* A goroutine belongs to a Start that has happened, and a listener is open *)
(* until it is stored: Stop reaches it through s.listener.                 *)
StartedOnly ==
  /\ shown => starts \in Run
  /\ \A r \in Run : /\ r > starts => acceptor[r] = "none" /\ announcer[r] = "none"
                    /\ acceptor[r] \in {"none", "begin", "store"} => listener # r
                    /\ acceptor[r] = "store" => r \in bound

LEMMA OwnedStep ==
  LifeTypeOK /\ OpenIsOwned /\ StartedOnly /\ [LifeNext]_lifeVars
    => OpenIsOwned' /\ StartedOnly'
<1> SUFFICES ASSUME LifeTypeOK, OpenIsOwned, StartedOnly, [LifeNext]_lifeVars
             PROVE  OpenIsOwned' /\ StartedOnly'
  OBVIOUS
<1> USE LifecycleAssumption DEF LifeTypeOK, OpenIsOwned, StartedOnly, Run
<1>1. CASE Start
  BY <1>1 DEF Start
<1>2. CASE Stop
  BY <1>2 DEF Stop
<1>3. ASSUME NEW r \in Run, Listen(r) PROVE OpenIsOwned' /\ StartedOnly'
  <2>1. acceptor'[r] = "store" /\ \A q \in Run : q # r => acceptor'[q] = acceptor[q]
    BY <1>3, BecomeMoves DEF Listen
  <2>2. QED
    BY <1>3, <2>1 DEF Listen
<1>4. ASSUME NEW r \in Run, ListenFails(r) PROVE OpenIsOwned' /\ StartedOnly'
  <2>1. acceptor'[r] = "failed" /\ \A q \in Run : q # r => acceptor'[q] = acceptor[q]
    BY <1>4, BecomeMoves DEF ListenFails
  <2>2. QED
    BY <1>4, <2>1 DEF ListenFails
<1>5. ASSUME NEW r \in Run, Store(r) \/ AcceptFails(r) \/ Connect(r)
      PROVE OpenIsOwned' /\ StartedOnly'
  <2>1. acceptor'[r] = "top" /\ \A q \in Run : q # r => acceptor'[q] = acceptor[q]
    BY <1>5, BecomeMoves DEF Store, AcceptFails, Connect
  <2>2. acceptor[r] \in {"store", "accept"} /\ listener' \in {listener, r}
    BY <1>5 DEF Store, AcceptFails, Connect
  <2>3. /\ shown' = shown /\ starts' = starts /\ bound' = bound
        /\ announcer' = announcer
    BY <1>5 DEF Store, AcceptFails, Connect
  <2>4. QED
    BY <2>1, <2>2, <2>3
<1>6. ASSUME NEW r \in Run, AcceptTop(r) PROVE OpenIsOwned' /\ StartedOnly'
  <2>1. acceptor'[r] \in {"accept", "ended"} /\ (isRunning => acceptor'[r] = "accept")
    BY <1>6, BecomeMoves DEF AcceptTop
  <2>2. acceptor[r] = "top" /\ \A q \in Run : q # r => acceptor'[q] = acceptor[q]
    BY <1>6, BecomeMoves DEF AcceptTop
  <2>3. bound' = IF isRunning THEN bound ELSE bound \ {r}
    BY <1>6 DEF AcceptTop
  <2>4. /\ shown' = shown /\ starts' = starts /\ announcer' = announcer
        /\ listener' = listener
    BY <1>6 DEF AcceptTop
  <2>5. QED
    BY <2>1, <2>2, <2>3, <2>4
<1>7. ASSUME NEW r \in Run, Announcer(r) PROVE OpenIsOwned' /\ StartedOnly'
  <2>1. /\ shown' = shown /\ starts' = starts /\ bound' = bound
        /\ listener' = listener /\ acceptor' = acceptor
    BY <1>7 DEF Announcer, Announce, WakeAnnouncer
  <2>2. announcer[r] # "none" /\ \A q \in Run : q # r => announcer'[q] = announcer[q]
    BY <1>7 DEF Announcer, Announce, WakeAnnouncer
  <2>3. QED
    BY <2>1, <2>2
<1>8. CASE UNCHANGED lifeVars
  BY <1>8 DEF lifeVars
<1>9. QED
  BY <1>1, <1>2, <1>3, <1>4, <1>5, <1>6, <1>7, <1>8 DEF LifeNext, Acceptor

(* No listener is ever left without the goroutine that closes it on its    *)
(* way out, whatever Starts and Stops overlap.                             *)
THEOREM OpenIsOwnedAlways == LifeSpec => []OpenIsOwned
<1>1. LifeInit => OpenIsOwned /\ StartedOnly
  BY DEF LifeInit, OpenIsOwned, StartedOnly, Run, NoRun
<1>2. QED
  BY <1>1, OwnedStep, LifeTypeCorrect, PTL DEF LifeSpec

-----------------------------------------------------------------------------
(* The room on screen and its goroutines.                                  *)

(* Unless a room was opened over an earlier one, at most the last room has *)
(* a listener, ahead of it or open; s.listener holds it once it is stored, *)
(* and under a closed room it is on its way out.                           *)
RoomsApart ==
  ~overtaken =>
    /\ \A r \in Run : r \in bound \/ acceptor[r] = "begin" => r = starts
    /\ \A r \in bound : /\ acceptor[r] \in {"store", "top", "accept"}
                        /\ acceptor[r] = "accept" => shown
                        /\ acceptor[r] \in {"top", "accept"} => listener = r

LEMMA ServedByOwn ==
  LifeTypeOK /\ StartedOnly /\ OpenRoomIsServed /\ RoomsApart /\ [LifeNext]_lifeVars
    => OpenRoomIsServed'
<1> SUFFICES ASSUME LifeTypeOK, StartedOnly, OpenRoomIsServed, RoomsApart,
                    [LifeNext]_lifeVars
             PROVE  OpenRoomIsServed'
  OBVIOUS
<1> USE LifecycleAssumption DEF LifeTypeOK, OpenRoomIsServed, RoomsApart, Run, Become
<1>1. CASE Start
  BY <1>1 DEF Start
<1>2. CASE Stop
  BY <1>2 DEF Stop
<1>3. ASSUME NEW r \in Run, Listen(r) PROVE OpenRoomIsServed'
  BY <1>3 DEF Listen
<1>4. ASSUME NEW r \in Run, ListenFails(r) PROVE OpenRoomIsServed'
  BY <1>4 DEF ListenFails
<1>5. ASSUME NEW r \in Run, AcceptTop(r) PROVE OpenRoomIsServed'
  <2>1. acceptor[r] = "top" /\ starts' = starts /\ isRunning' = isRunning
    BY <1>5 DEF AcceptTop
  <2>2. acceptor'[r] \in {"accept", "ended"} /\ (isRunning => acceptor'[r] = "accept")
    BY <1>5, BecomeMoves DEF AcceptTop
  <2>3. \A q \in Run : q # r => acceptor'[q] = acceptor[q]
    BY <1>5, BecomeMoves DEF AcceptTop
  <2>4. \A q \in Run : acceptor[q] = "failed" => acceptor'[q] = "failed"
    BY <2>1, <2>3
  <2>5. shown' = shown /\ announcer' = announcer /\ overtaken' = overtaken
        /\ (isRunning => bound' = bound)
    BY <1>5 DEF AcceptTop
  <2>6. CASE isRunning
    BY <2>1, <2>2, <2>3, <2>5, <2>6
  <2>7. CASE ~isRunning
    <3>1. shown' => starts \in Run
      BY <2>5 DEF StartedOnly
    <3>2. QED
      BY <2>1, <2>4, <2>5, <2>7, <3>1
  <2>8. QED
    BY <2>6, <2>7
<1>6. ASSUME NEW r \in Run, Store(r) \/ AcceptFails(r) \/ Connect(r) PROVE OpenRoomIsServed'
  <2>1. acceptor[r] \in {"store", "accept"} /\ Become(r, "top")
    BY <1>6 DEF Store, AcceptFails, Connect
  <2>2. acceptor'[r] = "top" /\ \A q \in Run : q # r => acceptor'[q] = acceptor[q]
    BY <2>1, BecomeMoves
  <2>3. /\ shown' = shown /\ starts' = starts /\ isRunning' = isRunning /\ bound' = bound
        /\ announcer' = announcer /\ overtaken' = overtaken
    BY <1>6 DEF Store, AcceptFails, Connect
  <2>4. QED
    BY <2>1, <2>2, <2>3
<1>7. ASSUME NEW r \in Run, Announcer(r) PROVE OpenRoomIsServed'
  BY <1>7 DEF Announcer, Announce, WakeAnnouncer
<1>8. CASE UNCHANGED lifeVars
  BY <1>8 DEF lifeVars
<1>9. QED
  BY <1>1, <1>2, <1>3, <1>4, <1>5, <1>6, <1>7, <1>8 DEF LifeNext, Acceptor

LEMMA ApartStep ==
  /\ LifeTypeOK /\ OpenIsOwned /\ StartedOnly /\ OpenRoomIsServed /\ RoomsApart
  /\ [LifeNext]_lifeVars
  => RoomsApart'
<1> SUFFICES ASSUME LifeTypeOK, OpenIsOwned, StartedOnly, OpenRoomIsServed, RoomsApart,
                    [LifeNext]_lifeVars
             PROVE  RoomsApart'
  OBVIOUS
<1> USE LifecycleAssumption
    DEF LifeTypeOK, OpenIsOwned, StartedOnly, RoomsApart, Run
<1>1. CASE Start
  BY <1>1 DEF Start, Unfinished
<1>2. CASE Stop
  BY <1>2 DEF Stop
<1>3. ASSUME NEW r \in Run, Listen(r) PROVE RoomsApart'
  <2>1. acceptor'[r] = "store" /\ \A q \in Run : q # r => acceptor'[q] = acceptor[q]
    BY <1>3, BecomeMoves DEF Listen
  <2>2. QED
    BY <1>3, <2>1 DEF Listen
<1>4. ASSUME NEW r \in Run, ListenFails(r) PROVE RoomsApart'
  <2>1. acceptor'[r] = "failed" /\ \A q \in Run : q # r => acceptor'[q] = acceptor[q]
    BY <1>4, BecomeMoves DEF ListenFails
  <2>2. r \notin bound
    BY <1>4 DEF ListenFails
  <2>3. QED
    BY <1>4, <2>1, <2>2 DEF ListenFails
<1>5. ASSUME NEW r \in Run, Store(r) \/ AcceptFails(r) \/ Connect(r) PROVE RoomsApart'
  <2>1. acceptor'[r] = "top" /\ \A q \in Run : q # r => acceptor'[q] = acceptor[q]
    BY <1>5, BecomeMoves DEF Store, AcceptFails, Connect
  <2>2. CASE Store(r)
    <3>1. r \in bound
      BY <2>2 DEF Store
    <3>2. QED
      BY <2>1, <2>2, <3>1 DEF Store
  <2>3. CASE AcceptFails(r) \/ Connect(r)
    <3>1. /\ acceptor[r] = "accept" /\ shown' = shown /\ starts' = starts
          /\ bound' = bound /\ listener' = listener /\ overtaken' = overtaken
      BY <2>3 DEF AcceptFails, Connect
    <3>2. QED
      BY <2>1, <3>1
  <2>4. QED
    BY <1>5, <2>2, <2>3
<1>6. ASSUME NEW r \in Run, AcceptTop(r) PROVE RoomsApart'
  <2>1. \A q \in Run : q # r => acceptor'[q] = acceptor[q]
    BY <1>6, BecomeMoves DEF AcceptTop
  <2>2. acceptor[r] = "top"
    BY <1>6 DEF AcceptTop
  <2>3. CASE isRunning
    <3>1. acceptor'[r] = "accept" /\ shown
      BY <1>6, <2>3, BecomeMoves DEF AcceptTop, OpenRoomIsServed
    <3>2. QED
      BY <1>6, <2>1, <2>2, <2>3, <3>1 DEF AcceptTop
  <2>4. CASE ~isRunning
    <3>1. acceptor'[r] = "ended"
      BY <1>6, <2>4, BecomeMoves DEF AcceptTop
    <3>2. QED
      BY <1>6, <2>1, <2>2, <2>4, <3>1 DEF AcceptTop
  <2>5. QED
    BY <2>3, <2>4
<1>7. ASSUME NEW r \in Run, Announcer(r) PROVE RoomsApart'
  <2>1. /\ shown' = shown /\ starts' = starts /\ bound' = bound
        /\ listener' = listener /\ acceptor' = acceptor /\ overtaken' = overtaken
    BY <1>7 DEF Announcer, Announce, WakeAnnouncer
  <2>2. QED
    BY <2>1
<1>8. CASE UNCHANGED lifeVars
  BY <1>8 DEF lifeVars
<1>9. QED
  BY <1>1, <1>2, <1>3, <1>4, <1>5, <1>6, <1>7, <1>8 DEF LifeNext, Acceptor

LEMMA LifeInvariant ==
  LifeSpec => [](OpenIsOwned /\ StartedOnly /\ OpenRoomIsServed /\ RoomsApart)
<1>1. LifeInit => OpenIsOwned /\ StartedOnly /\ OpenRoomIsServed /\ RoomsApart
  BY DEF LifeInit, OpenIsOwned, StartedOnly, OpenRoomIsServed, RoomsApart, Run, NoRun
<1>2. QED
  BY <1>1, OwnedStep, ServedByOwn, ApartStep, LifeTypeCorrect, PTL DEF LifeSpec

(* The flag is up only under a room on screen, falls under one only when   *)
(* its own listen fails, or one of two that overlap, and while it is up    *)
(* that room's own goroutines serve it.                                    *)
THEOREM OpenRoomIsServedAlways == LifeSpec => []OpenRoomIsServed
  BY LifeInvariant, PTL

(* Unless a room was opened over the listen of an earlier one, no listener *)
(* outlives its room.                                                      *)
THEOREM ClosedRoomLetsGoAlways == LifeSpec => []ClosedRoomLetsGo
<1>1. LifeTypeOK /\ RoomsApart => ClosedRoomLetsGo
  BY DEF LifeTypeOK, RoomsApart, ClosedRoomLetsGo, Run
<1>2. QED
  BY <1>1, LifeInvariant, LifeTypeCorrect, PTL
=============================================================================
