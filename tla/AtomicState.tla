---------------------------- MODULE AtomicState ----------------------------
(***************************************************************************)
(* What callers of JsonStateStore.update are promised: Local State is one  *)
(* value, every update is a read-modify-write that takes effect at one     *)
(* instant between its call and its end, or never.  The value is the set   *)
(* of the updates that took effect.                                        *)
(***************************************************************************)
CONSTANT Update   \* the update calls, of every process that shares the file

VARIABLES
  value,          \* the Local State a reader would get
  phase           \* phase[u]: how far update u has come

aVars == <<value, phase>>

Phase == {"idle", "running", "applied", "ended"}

AtomicTypeOK ==
  /\ value \in SUBSET Update
  /\ phase \in [Update -> Phase]

AInit ==
  /\ value = {}
  /\ phase = [u \in Update |-> "idle"]

Begin(u) ==
  /\ phase[u] = "idle"
  /\ phase' = [phase EXCEPT ![u] = "running"]
  /\ UNCHANGED value

\* The one instant at which the update is both based on the current value
\* and becomes the current value.
Apply(u) ==
  /\ phase[u] = "running"
  /\ value' = value \cup {u}
  /\ phase' = [phase EXCEPT ![u] = "applied"]

\* The call returns or throws, or its process dies.
End(u) ==
  /\ phase[u] # "ended"
  /\ phase' = [phase EXCEPT ![u] = "ended"]
  /\ UNCHANGED value

ANext == \E u \in Update : Begin(u) \/ Apply(u) \/ End(u)

ASpec == AInit /\ [][ANext]_aVars

=============================================================================
