-------------------------- MODULE PlayerSessionMC --------------------------
EXTENDS PlayerSession

MCJobs == 1 .. 2
MCLength == [j \in MCJobs |-> IF j = 1 THEN 2 ELSE 1]
=============================================================================
