--------------------------- MODULE MCDesktopSync ---------------------------
\* DesktopSync on a small account.
EXTENDS DesktopSync, TLC

CONSTANTS d1, d2, pref, host

\* Both devices edit the host; nobody touches the preferences.
HostOnly == {d1, d2} \X {host}
\* Both devices edit both records.
Everything == {d1, d2} \X {pref, host}
\* Both devices may do the same things.
SameDevices == Permutations({d1, d2})
=============================================================================
