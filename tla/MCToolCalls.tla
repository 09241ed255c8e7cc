---------------------------- MODULE MCToolCalls -----------------------------
\* Names of sources, tools and callers for model checking ToolCalls.
EXTENDS ToolCalls

CONSTANTS s1, s2, read, rm, o1
=============================================================================
