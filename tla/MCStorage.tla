----------------------------- MODULE MCStorage -----------------------------
\* Model checking of Storage.
EXTENDS Storage
=============================================================================
