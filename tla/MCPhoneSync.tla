---------------------------- MODULE MCPhoneSync ----------------------------
\* A desktop and a phone on one account.
EXTENDS PhoneSync

CONSTANTS d1, pref, host

\* The desktop edits the host, or the preferences too.
HostOnly == {d1} \X {host}
Everything == {d1} \X {pref, host}

\* Two edits that meet, or one edit with an offline spell or with other mishaps.
InBounds ==
    /\ clock <= 2 \/ used.fails + used.offline + used.restarts = 0
    /\ used.offline = 0 \/ used.fails + used.restarts = 0
BoundedSpec == PhoneInit /\ [][PhoneNext /\ InBounds']_allVars /\ PhoneFairness
=============================================================================
