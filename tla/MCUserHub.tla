---- MODULE MCUserHub ----
EXTENDS UserHub
====
