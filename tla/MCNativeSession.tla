-------------------------- MODULE MCNativeSession --------------------------
\* Instances of NativeSession for TLC.
EXTENDS NativeSession, TLC

\* Local helpers and pids are interchangeable.
Symmetric == Permutations(Helpers \ RemoteHelpers) \union Permutations(Pids)
=============================================================================
