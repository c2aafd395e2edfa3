---------------------------- MODULE PoolTargetsMC ----------------------------
(* A small instance of PoolTargets for TLC.                                *)
EXTENDS PoolTargets, TLC

CONSTANTS base, lab

Tmpl(on, min, max) == [on |-> on, min |-> min, max |-> max]

\* An environment without a ceiling, and an admin's ceiling of one.  The floor below
\* zero is corrected in the latter only.
Unbounded == [min |-> -1, max |-> -1, decay |-> 20]

OneConf == {[min |-> -1, max |-> 1, decay |-> 10]}

\* The default template has a floor above its ceiling.  The other has no bounds of its
\* own, and may be disabled.
TwoRegistries ==
  {base :> Tmpl(TRUE, 2, 1) @@ lab :> Tmpl(TRUE, 0, 0),
   base :> Tmpl(TRUE, 2, 1) @@ lab :> Tmpl(FALSE, 0, 0)}

==============================================================================
