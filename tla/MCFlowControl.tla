---- MODULE MCFlowControl ----
EXTENDS FlowControl
====
