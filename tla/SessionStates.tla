---------------------------- MODULE SessionStates ----------------------------
(***************************************************************************)
(* The two session state machines of the monitor: the server's             *)
(* authoritative one (server/session/state.go) and the client's mirror     *)
(* with its mismatch recoveries (client/session/state.go).  Constant-level *)
(* definitions only: the modules that hold a machine as a variable take    *)
(* its steps from here.                                                    *)
(***************************************************************************)

(* server/session State; the client knows all of them but "idle". *)
ServerState == {"idle", "waiting", "capturing", "locked", "stopped"}
ClientState == {"waiting", "capturing", "locked", "stopped"}

ServerEvent == {"create_exam", "start_exam", "lock", "unlock", "stop_exam"}
ClientEvent == {"exam_start", "exam_stop", "lock", "unlock"}

(* The legal (from, event, to) edges of the server machine.  Apply refuses *)
(* every other pair and leaves the state alone.                            *)
ServerEdge ==
  { <<"idle",      "create_exam", "waiting">>,
    <<"waiting",   "start_exam",  "capturing">>,
    <<"capturing", "lock",        "locked">>,
    <<"locked",    "unlock",      "capturing">>,
    <<"capturing", "stop_exam",   "stopped">>,
    <<"locked",    "stop_exam",   "stopped">> }

(* Locked is a substate of Capturing: frames still flow. *)
IsCapturing(st) == st \in {"capturing", "locked"}

(* Seeded fault, used by no specification: a second EXAM_START also takes  *)
(* a Locked client back to Capturing.                                      *)
ClientApply_RestartUnlocks(st, ev) ==
  CASE st = "stopped" -> "stopped"
    [] st # "stopped" /\ ev = "exam_stop" -> "stopped"
    [] st \in {"waiting", "capturing", "locked"} /\ ev = "exam_start" -> "capturing"
    [] st \in {"waiting", "capturing"} /\ ev = "lock" -> "locked"
    [] st \in {"capturing", "locked"} /\ ev = "unlock" -> "capturing"
    [] OTHER -> st

(***************************************************************************)
(* The state the client's Apply leaves behind.  Stopped absorbs; STOP      *)
(* stops from everywhere; LOCK recovers a client that missed START; UNLOCK *)
(* of an unlocked client is a no-op; whatever is left is rejected.         *)
(***************************************************************************)
ClientApply(st, ev) ==
  CASE st = "stopped" -> "stopped"
    [] st # "stopped" /\ ev = "exam_stop" -> "stopped"
    [] st = "waiting" /\ ev = "exam_start" -> "capturing"
    [] st \in {"waiting", "capturing"} /\ ev = "lock" -> "locked"
    [] st \in {"capturing", "locked"} /\ ev = "unlock" -> "capturing"
    [] OTHER -> st
=============================================================================
