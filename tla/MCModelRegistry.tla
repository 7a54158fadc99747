-------------------------- MODULE MCModelRegistry ---------------------------
(* Instances of ModelRegistry for TLC.                                     *)
EXTENDS ModelRegistry, TLC

RegistrySymmetry == Permutations(Clients) \cup Permutations(Providers)

\* When only some clients are marked they are not interchangeable.
ProviderSymmetry == Permutations(Providers)

=============================================================================
