---------------------- MODULE MCUpstreamAttempts ----------------------
EXTENDS UpstreamAttempts

MCModes == {"chat", "stream", "audio"}
MCStream == {"stream"}
=============================================================================
