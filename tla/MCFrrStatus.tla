---------------------------- MODULE MCFrrStatus ----------------------------
EXTENDS FrrStatus

\* With these a tick meets an unsafe name, the limit on VRFs and, in a list
\* of four errors, one too many.
MCVrfOrder == <<"blue", "green", "odd">>
MCUnsafe == {"odd"}
=============================================================================
