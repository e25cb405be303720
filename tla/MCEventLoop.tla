----------------------------- MODULE MCEventLoop -----------------------------
(* Small instances of EventLoop for TLC.                                    *)
EXTENDS EventLoop

CONSTANTS b1

==============================================================================
