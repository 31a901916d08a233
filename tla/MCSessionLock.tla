---------------------------- MODULE MCSessionLock ----------------------------
(* Model checking of SessionLock on a few outputs.                         *)
EXTENDS SessionLock, TLC

Symmetry == Permutations(Outputs)

\* Every output is connected from the start and nothing reconfigures them.
SteadyInit == Init /\ \A o \in Outputs : out[o].conn
SteadySpec == SteadyInit /\ [][Next /\ ~Reconfigure]_vars /\ Fairness

\* Outputs are switched off and on, and nothing else happens to them: the part of
\* the system in which set_output_dpms leaves a second callback.
DpmsSpec ==
  SteadyInit /\ [][Next /\ (Reconfigure => \E o \in Outputs : PowerOff(o) \/ PowerOn(o))]_vars

\* Either that, or one CRTC is spare for ever and the other outputs are reconfigured at
\* will.
Spare == CHOOSE o \in Outputs : TRUE

LiveInit == Init /\ (out[Spare].conn => \A o \in Outputs : out[o].conn)
LiveNext == /\ Next
            /\ out'[Spare].conn = out[Spare].conn
            /\ out[Spare].conn => ~Reconfigure
LiveSpec == LiveInit /\ [][LiveNext]_vars /\ Fairness

\* A single output is enough to grant a lock, even if the lock surfaces never rest.
SingleLockIsGranted == [](~out[Spare].conn) => LockIsGranted
=============================================================================
