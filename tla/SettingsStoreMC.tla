--------------------------- MODULE SettingsStoreMC ---------------------------
(* Small instances of SettingsStore for TLC.                               *)
EXTENDS SettingsStoreInv, TLC

CONSTANTS img1, img2, builtin, custom

\* Bounds out of order on both sides, and a config without an image.
SomeConfs == {[min |-> -1, max |-> -2, image |-> img1],
              [min |-> 2, max |-> 1, image |-> None]}

\* The builtin switched off; a custom template next to it.
SomeLists == {builtin :> "off", custom :> "on"}

\* The environment's bounds are taken as they are.
EnvSeed == [min |-> 3, max |-> 1, image |-> img2]

=============================================================================
