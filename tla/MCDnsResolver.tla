---------------------------- MODULE MCDnsResolver ----------------------------
(***************************************************************************)
(* Instances of DnsResolver for TLC: every environment is an initial state.*)
(***************************************************************************)
EXTENDS DnsResolver, TLC

Symmetry == Permutations(Servers)

=============================================================================
