--------------------------- MODULE RecorderClaims ---------------------------
(***************************************************************************)
(* What the repository says of the state task and the code does not do.    *)
(***************************************************************************)
EXTENDS Recorder

(* task_state.cpp:697: "We should unconditionally shutdown after 8 minutes *)
(* of operation" (age 4), if only the button is not held for ever.  A      *)
(* memory that is full at the start, or gets full during a record, leaves  *)
(* the state task in RECORD_PREPARE or with an active record for good.     *)
ShutDownAfterEightMinutes ==
  []<>(~button.down) => (context.mode = "FIELD" /\ age = 4 ~> ~On)
=============================================================================
