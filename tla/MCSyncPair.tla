------------------------------ MODULE MCSyncPair ------------------------------
(* What an rsync of one file makes the kernel report (CREATE, CLOSE_WRITE and *)
(* ATTRIB; CLOSE_WRITE is a MODIFY of the watcher).                           *)
EXTENDS SyncPair

\* As many events as the engine announces ...
ExactNew    == {<<"CREATE", "MODIFY", "ATTRIB">>}
ExactUpdate == {<<"MODIFY", "ATTRIB", "ATTRIB">>}

\* ... and as many as rsync causes, one ATTRIB for the times and one more for
\* the mode when it differs.
RsyncNew    == {<<"CREATE", "MODIFY", "ATTRIB">>, <<"CREATE", "MODIFY", "ATTRIB", "ATTRIB">>}
RsyncUpdate == {<<"MODIFY", "ATTRIB">>, <<"MODIFY", "ATTRIB", "ATTRIB">>}

\* Never more events than announced: all that an rsync causes is claimed.
ClaimedNew    == {<<"CREATE", "MODIFY", "ATTRIB">>}
ClaimedUpdate == RsyncUpdate
===============================================================================
