------------------------------ MODULE MCManifest ------------------------------
\* Manifest with a snapshot after few entries.
EXTENDS Manifest
===============================================================================
