---- MODULE MCTailnetRegistry ----
EXTENDS TailnetRegistry
====
