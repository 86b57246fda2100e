------------------------------ MODULE DeviceLock ------------------------------
(***************************************************************************)
(* What the command broker promises its callers and the extension: on one  *)
(* device, a mutating command is active alone and reads may share it       *)
(* (backend/open_webui/utils/browser_extension_broker.py, dispatch and     *)
(* _remove_pending).  A command is begun once, is active as a read or a    *)
(* write, and is over for good once it ended.                              *)
(***************************************************************************)
CONSTANTS Commands, Devices, None

VARIABLES
  mode,     \* command -> "idle" | "read" | "write" | "over"
  target    \* command -> the device it was begun on, or None

lockVars == <<mode, target>>

Active(d) == {c \in Commands : target[c] = d /\ mode[c] \in {"read", "write"}}

LockInit ==
  /\ mode = [c \in Commands |-> "idle"]
  /\ target = [c \in Commands |-> None]

\* Nothing that excludes a new command is active on d.
Free(d, m) == \A c \in Active(d) : m = "read" /\ mode[c] = "read"

Begin(c, d, m) ==
  /\ mode[c] = "idle"
  /\ Free(d, m)
  /\ mode' = [mode EXCEPT ![c] = m]
  /\ target' = [target EXCEPT ![c] = d]

\* Any number of active commands end in one step: a lost socket ends them all.
End(C) ==
  /\ \A c \in C : mode[c] \in {"read", "write"}
  /\ mode' = [c \in Commands |-> IF c \in C THEN "over" ELSE mode[c]]
  /\ UNCHANGED target

LockNext ==
  \/ \E c \in Commands, d \in Devices, m \in {"read", "write"} : Begin(c, d, m)
  \/ \E C \in SUBSET Commands : End(C)

LockSpec == LockInit /\ [][LockNext]_lockVars
=============================================================================
