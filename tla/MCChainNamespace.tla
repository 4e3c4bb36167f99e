-------------------------- MODULE MCChainNamespace --------------------------
(* Small instances of ChainNamespace for TLC.                               *)
EXTENDS ChainNamespace

MCSpec(complete, tls, keyPath, version) ==
  [complete |-> complete, tls |-> tls, keyPath |-> keyPath,
   version |-> version]

\* A spec with an empty name, a new namespace without TLS, a TLS section
\* without CA reference, and an update with it.
MixedSpecs ==
  {MCSpec(FALSE, "off", FALSE, -1), MCSpec(TRUE, "off", FALSE, -1),
   MCSpec(TRUE, "incomplete", FALSE, 0), MCSpec(TRUE, "on", TRUE, 0)}
=============================================================================
