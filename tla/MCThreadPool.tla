---------------------------- MODULE MCThreadPool ----------------------------
(* ThreadPool for TLC: the calls made from outside the pool, and those that  *)
(* its functions make.                                                       *)
EXTENDS ThreadPool

AllCalls == {"schedule", "start", "stop", "isStarted"}
FromFunctions == {"schedule", "isStarted", "start"}
=============================================================================
