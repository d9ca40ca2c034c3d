----------------------------- MODULE MCSecurity -----------------------------
EXTENDS Security
=============================================================================
