---------------------------- MODULE MCVaultFence ----------------------------
\* VaultFence with one push and one session request on the wire in all:
\* they touch nothing in common but the account's row, which only vault
\* operations move.
EXTENDS VaultFence, TLC

Symmetry == Permutations(Devices)
OneAtATime ==
  Cardinality({p \in Devices \cup {Old} : push[p].pc # "none"})
    + Cardinality({d \in Devices : refresh[d].pc # "none"}) <= 1
OneNext == Next /\ OneAtATime'
OneSpec == Init /\ [][OneNext]_vars
=============================================================================
