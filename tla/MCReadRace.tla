------------------------------ MODULE MCReadRace ------------------------------
\* ReadRace with one thread of each kind.
EXTENDS ReadRace

\* The checked properties are about behaviours without a clash.
Undisturbed == ~clash /\ ~dirty

\* One call at a time, after the first flush has begun; only the record of the
\* first flush expires (a collection of the newest SST hands its id out again);
\* the restart comes after the flushes and leaves one call.
OneAtATime ==
    /\ \A t \in Gets, s \in Scans : rd[t].pc = "idle" \/ sc[s].pc = "idle"
    /\ reads > 0 => flushes > 0
    /\ expired \subseteq {1}
    /\ restarts > 0 => flushes = MaxFlushes /\ reads <= 1
===============================================================================
