---------------------------- MODULE MCSstLifecycle ----------------------------
\* SstLifecycle on small sets of compacting and collecting threads.
EXTENDS SstLifecycle

\* The checked properties are about behaviours without a clash.
NoClash == ~clash
=============================================================================
