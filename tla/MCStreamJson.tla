---------------------------- MODULE MCStreamJson ----------------------------
EXTENDS StreamJson
=============================================================================
