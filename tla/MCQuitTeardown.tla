---------------------------- MODULE MCQuitTeardown ----------------------------
EXTENDS QuitTeardown

\* Starts overlap, or a stop besides the teardown's own is called, not both.
OneOfTwo == overlapped => \A q \in Stops \ {QuitStop} : stopPhase[q] = "idle"
==============================================================================
