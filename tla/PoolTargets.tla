----------------------------- MODULE PoolTargets -----------------------------
(***************************************************************************)
(* How many warm boxes each template is to have, and the loop that gets    *)
(* there: create requests are counted, every pass of the reconciler folds  *)
(* the counts into a moving average, and keeps as many boxes as that asks  *)
(* for within bounds that admins change at any time.                       *)
(*                                                                         *)
(* Averages are in units of 1/Unit, rounded up.  A pool is a number of     *)
(* boxes here; WarmPool has the boxes themselves.                          *)
(***************************************************************************)
EXTENDS Integers

CONSTANTS
  Templates,    \* template ids
  Default,      \* the one that stands in for an unknown id
  Wanted,       \* the ids that create requests name
  Confs,        \* the configs admins send
  Env,          \* the config in boxlyd's environment
  Registries,   \* the registries that admins' template lists lead to
  Unit,         \* resolution of the averages
  MaxRequests   \* bound on the requests between two passes

\* What matters of a template: whether it is enabled, and its own bounds.
Template == [on : BOOLEAN, min : Nat, max : Nat]

\* A registry, or a part of one.
IsRegistry(r) == DOMAIN r \subseteq Templates /\ r \in [DOMAIN r -> Template]

\* The default template is a builtin, so it is always there.
ASSUME PoolTargetsAssumption ==
  /\ Default \in Templates
  /\ Unit \in Nat \ {0} /\ MaxRequests \in Nat
  /\ Confs \cup {Env} \subseteq [min : Int, max : Int, decay : 1..(Unit - 1)]
  /\ \A r \in Registries : IsRegistry(r) /\ Default \in DOMAIN r

VARIABLES
  conf,     \* the bounds and the decay in the settings store
  reg,      \* the template registry
  pending,  \* requests since the last pass, per template
  ewma,     \* their moving average
  warm,     \* warm boxes, per template
  pass,     \* the reconciler's pass: where it is, and what it read
  todo,     \* its copy of the templates it has still to do
  stale,    \* whether bounds changed, or a pass left something undone, lately
  calm      \* requests, admins and failures have stopped

vars == <<conf, reg, pending, ewma, warm, pass, todo, stale, calm>>

demandVars == <<pending, ewma>>
adminVars == <<conf, reg>>
passVars == <<pass, todo>>

Larger(m, n) == IF m > n THEN m ELSE n
Smaller(m, n) == IF m < n THEN m ELSE n

-----------------------------------------------------------------------------
(* The settings, the registry and the tracker, as functions.               *)

\* normalize, as in SettingsStore.
Normal(c) == [c EXCEPT !.min = Larger(0, c.min), !.max = Larger(Larger(0, c.min), c.max)]

\* The configs that may be in force: only an admin's is normalized.
InForce == {Env} \cup {Normal(c) : c \in Confs}

\* template.Get: an unknown id stands for the default template.
Get(id) == IF id \in DOMAIN reg THEN id ELSE Default

\* template.All: the enabled templates.
All == {t \in DOMAIN reg : reg[t].on}

\* A template's floor raises the global one, its ceiling replaces it.
EffMin(tmpl, c) == Larger(tmpl.min, c.min)
EffMax(tmpl, c) == IF tmpl.max > 0 THEN tmpl.max ELSE c.max

\* n / d, rounded up.
CeilDiv(n, d) == (n + d - 1) \div d

\* Mutants: the new count has full weight; a cut-off at one.
FoldedSum(e, n, decay) ==
  LET avg == CeilDiv(decay * e, Unit) + n * Unit
  IN IF 20 * avg < Unit THEN 0 ELSE avg

FoldedCut(e, n, decay) ==
  LET avg == CeilDiv(decay * e + (Unit - decay) * n * Unit, Unit)
  IN IF avg < Unit THEN 0 ELSE avg

\* The average with an interval of n requests; below 1/20 it is forgotten.
Folded(e, n, decay) ==
  LET avg == CeilDiv(decay * e + (Unit - decay) * n * Unit, Unit)
  IN IF 20 * avg < Unit THEN 0 ELSE avg

\* Mutants: the floor is applied last; one more than the integer part.
DesiredFloorLast(e, min, max) ==
  LET d == CeilDiv(e, Unit)
  IN Larger(IF max > 0 THEN Smaller(d, max) ELSE d, min)

DesiredOneMore(e, min, max) ==
  LET d == Larger(e \div Unit + 1, min)
  IN IF max > 0 THEN Smaller(d, max) ELSE d

\* A ceiling of 0 is none.
Desired(e, min, max) ==
  LET d == Larger(CeilDiv(e, Unit), min)
  IN IF max > 0 THEN Smaller(d, max) ELSE d

-----------------------------------------------------------------------------
\* No pass.  One in progress has read the global bounds, and for the template at hand it
\* has a target and a number of boxes to create, or, below zero, to delete.
AtRest == [pc |-> "idle", min |-> 0, max |-> 0, at |-> Default, goal |-> 0, need |-> 0]
Nothing == [t \in {} |-> 0]

\* The state is well-formed.
TypeOK ==
  /\ conf \in InForce
  /\ reg \in Registries
  /\ pending \in [Templates -> 0..MaxRequests]
  /\ ewma \in [Templates -> 0..(MaxRequests * Unit)]
  /\ warm \in [Templates -> Nat]
  /\ pass \in [pc : {"idle", "all", "loop", "work"}, min : Int, max : Int,
               at : Templates, goal : Nat, need : Int]
  /\ IsRegistry(todo)
  /\ stale \in {"yes", "pass", "no"}
  /\ calm \in BOOLEAN

Init ==
  /\ conf \in InForce
  /\ reg \in Registries
  /\ pending = [t \in Templates |-> 0]
  /\ ewma = [t \in Templates |-> 0]
  /\ warm = [t \in Templates |-> 0]
  /\ pass = AtRest /\ todo = Nothing
  /\ stale = "yes" /\ calm = FALSE

-----------------------------------------------------------------------------
(* Requests, claims and admins.                                            *)

\* handleCreate counts the request, for disabled templates too.
Record ==
  /\ ~calm
  /\ \E id \in Wanted :
       /\ pending[Get(id)] < MaxRequests
       /\ pending' = [pending EXCEPT ![Get(id)] = @ + 1]
  /\ UNCHANGED <<adminVars, ewma, warm, passVars, stale, calm>>

\* A warm box is claimed, or its pod is deleted by somebody else.
Taken ==
  /\ ~calm
  /\ \E t \in Templates : warm[t] > 0 /\ warm' = [warm EXCEPT ![t] = @ - 1]
  /\ UNCHANGED <<adminVars, demandVars, passVars, stale, calm>>

\* Store.Set and LoadCustom, each under its lock.
PutConfig ==
  /\ ~calm
  /\ \E c \in Confs : conf' = Normal(c)
  /\ stale' = "yes"
  /\ UNCHANGED <<reg, demandVars, warm, passVars, calm>>

PutTemplates ==
  /\ ~calm
  /\ reg' \in Registries
  /\ stale' = "yes"
  /\ UNCHANGED <<conf, demandVars, warm, passVars, calm>>

\* A restart forgets the demand, and has the settings that were saved, or the
\* environment's; SettingsStore tells which.
Restart ==
  /\ ~calm
  /\ pending' = [t \in Templates |-> 0]
  /\ ewma' = [t \in Templates |-> 0]
  /\ pass' = AtRest /\ todo' = Nothing
  /\ conf' \in InForce /\ reg' \in Registries
  /\ stale' = "yes"
  /\ UNCHANGED <<warm, calm>>

Calm ==
  /\ ~calm
  /\ calm' = TRUE
  /\ UNCHANGED <<adminVars, demandVars, warm, passVars, stale>>

-----------------------------------------------------------------------------
(* The reconciler.                                                         *)

\* Mutant: the counts are not reset.
BeginKeepsCounts ==
  /\ pass.pc = "idle"
  /\ pass' = [pass EXCEPT !.pc = "all", !.min = conf.min, !.max = conf.max]
  /\ ewma' = [t \in Templates |-> Folded(ewma[t], pending[t], conf.decay)]
  /\ stale' = IF stale = "yes" THEN "pass" ELSE stale
  /\ UNCHANGED <<adminVars, pending, warm, todo, calm>>

\* The pass reads the settings and folds the counts.
Begin ==
  /\ pass.pc = "idle"
  /\ pass' = [pass EXCEPT !.pc = "all", !.min = conf.min, !.max = conf.max]
  /\ ewma' = [t \in Templates |-> Folded(ewma[t], pending[t], conf.decay)]
  /\ pending' = [t \in Templates |-> 0]
  /\ stale' = IF stale = "yes" THEN "pass" ELSE stale
  /\ UNCHANGED <<adminVars, warm, todo, calm>>

\* Mutant: on all of them.
ListTemplatesAll ==
  /\ pass.pc = "all"
  /\ pass' = [pass EXCEPT !.pc = "loop"]
  /\ todo' = reg
  /\ UNCHANGED <<adminVars, demandVars, warm, stale, calm>>

\* It works on a copy of the enabled templates.
ListTemplates ==
  /\ pass.pc = "all"
  /\ pass' = [pass EXCEPT !.pc = "loop"]
  /\ todo' = [t \in All |-> reg[t]]
  /\ UNCHANGED <<adminVars, demandVars, warm, stale, calm>>

\* The loop moves on to t.
Take(t) == todo' = [u \in DOMAIN todo \ {t} |-> todo[u]]

\* The warm boxes are listed and compared with the target.
ListWarm ==
  /\ pass.pc = "loop"
  /\ \E t \in DOMAIN todo :
       LET goal == Desired(ewma[t], EffMin(todo[t], pass), EffMax(todo[t], pass))
       IN /\ Take(t)
          /\ pass' = [pass EXCEPT !.pc = "work", !.at = t, !.goal = goal,
                                  !.need = goal - warm[t]]
  /\ UNCHANGED <<adminVars, demandVars, warm, stale, calm>>

ListWarmFails ==
  /\ pass.pc = "loop" /\ ~calm
  /\ \E t \in DOMAIN todo : Take(t)
  /\ stale' = "yes"
  /\ UNCHANGED <<adminVars, demandVars, warm, pass, calm>>

CreateWarm ==
  /\ pass.pc = "work" /\ pass.need > 0
  /\ warm' = [warm EXCEPT ![pass.at] = @ + 1]
  /\ pass' = [pass EXCEPT !.need = @ - 1]
  /\ UNCHANGED <<adminVars, demandVars, todo, stale, calm>>

\* A failure ends the creations for this template; the box may exist all the same.
CreateWarmFails ==
  /\ pass.pc = "work" /\ pass.need > 0 /\ ~calm
  /\ warm' \in {warm, [warm EXCEPT ![pass.at] = @ + 1]}
  /\ pass' = [pass EXCEPT !.need = 0]
  /\ UNCHANGED <<adminVars, demandVars, todo, stale, calm>>

\* The next victim goes, or is not warm any more, if a listed box was taken since.
DeleteWarm ==
  /\ pass.pc = "work" /\ pass.need < 0
  /\ \/ warm[pass.at] > 0 /\ warm' = [warm EXCEPT ![pass.at] = @ - 1]
     \/ warm[pass.at] < pass.goal - pass.need /\ UNCHANGED warm
  /\ pass' = [pass EXCEPT !.need = @ + 1]
  /\ UNCHANGED <<adminVars, demandVars, todo, stale, calm>>

\* A failing delete is logged, and the next victim tried.
DeleteWarmFails ==
  /\ pass.pc = "work" /\ pass.need < 0 /\ ~calm
  /\ pass' = [pass EXCEPT !.need = @ + 1]
  /\ stale' = "yes"
  /\ UNCHANGED <<adminVars, demandVars, todo, warm, calm>>

TemplateDone ==
  /\ pass.pc = "work" /\ pass.need = 0
  /\ pass' = [pass EXCEPT !.pc = "loop", !.at = Default, !.goal = 0]
  /\ UNCHANGED <<adminVars, demandVars, todo, warm, stale, calm>>

End ==
  /\ pass.pc = "loop" /\ DOMAIN todo = {}
  /\ pass' = AtRest /\ todo' = Nothing
  /\ stale' = IF stale = "pass" THEN "no" ELSE stale
  /\ UNCHANGED <<adminVars, demandVars, warm, calm>>

Reconciler ==
  \/ Begin \/ ListTemplates
  \/ ListWarm \/ ListWarmFails
  \/ CreateWarm \/ CreateWarmFails
  \/ DeleteWarm \/ DeleteWarmFails
  \/ TemplateDone \/ End

Next ==
  \/ Reconciler
  \/ Record \/ Taken \/ PutConfig \/ PutTemplates \/ Restart \/ Calm

Spec == Init /\ [][Next]_vars

\* A pass starts every five seconds, and each of its calls ends.
FairSpec == Spec /\ WF_vars(Reconciler)

-----------------------------------------------------------------------------
(* Properties.                                                             *)

\* Once a pass has worked with the bounds in force, and nothing failed, no pool of an
\* enabled template is above its ceiling, if it has one, whatever was claimed during the
\* pass and whatever its floor is (tracker.go:84, pool.go:141).
CeilingKept ==
  stale = "no" =>
    \A t \in All : LET max == EffMax(reg[t], conf)
                   IN max > 0 => warm[t] <= max

\* What the pool of t may have by its floors alone.
Floors(t) == {EffMin(r[t], c) : r \in {q \in Registries : t \in DOMAIN q}, c \in InForce}

\* A pool has never more boxes than were requested in the busiest interval, or than a
\* floor asks for: the average, rounded up, does not add up over time (tracker.go:55).
PoolWithinDemand ==
  \A t \in Templates : warm[t] <= MaxRequests \/ \E f \in Floors(t) : warm[t] <= f

\* A template that is disabled gets no new boxes, but by a pass that read the registry
\* before (pool.go:55, registry.go:38; catalog.go:34 says "never warmed").
DisabledNotWarmed ==
  [][\A t \in Templates : warm'[t] > warm[t] => t \in All \/ stale = "yes"]_vars

\* When requests stop, every pool goes down to its floor: averages halve for ever, so
\* only the cut-off lets the last box go (tracker.go:62).
AtFloor ==
  \A t \in All : warm[t] = Desired(0, EffMin(reg[t], conf), EffMax(reg[t], conf))

IdlePoolDrains == calm ~> []AtFloor

\* Of template t, k boxes are asked for in every interval, boxlyd stays up and its calls
\* succeed, t is enabled, its ceiling allows k, and the decay is at most 0.95.  Boxes of t
\* are claimed at any time but during the pass's work on t, where each new box might go at
\* once.
Steady(t, k) ==
  /\ ~Restart /\ ~ListWarmFails /\ (CreateWarmFails => CreateWarm)
  /\ Begin => pending[t] >= k
  /\ Get(t) = t /\ t \in All
  /\ EffMax(reg[t], conf) \notin 1..(k - 1)
  /\ 20 * (Unit - conf.decay) >= Unit
  /\ Taken /\ pass.pc = "work" /\ pass.at = t => warm'[t] = warm[t]

\* Then the average survives the cut-off and grows enough for k boxes to be warm again
\* and again, whatever else changes or is claimed (tracker.go:55, 80, pool.go:83; tracker.go:2,
\* "so the pool can pre-warm boxes ahead of need").
SteadyDemandWarms ==
  \A t \in Wanted : \A k \in 1..MaxRequests :
    (<>[][Steady(t, k)]_vars) => []<>(warm[t] >= k)

=============================================================================
