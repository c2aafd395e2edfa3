--------------------------- MODULE PoolTargetsProofs ---------------------------
(* Proofs about PoolTargets, for any templates, settings, registries and    *)
(* resolution of the averages.                                              *)
EXTENDS PoolTargets, TLAPS

-----------------------------------------------------------------------------
(* Arithmetic: averages and targets stay within the busiest interval.       *)

\* Products keep the order.
LEMMA TimesMonotone ==
  ASSUME NEW a \in Nat, NEW b \in Nat, NEW c \in Nat, a <= b
  PROVE  a * c <= b * c /\ c * a <= c * b
OBVIOUS

\* A quotient is rounded down, so it is in the bound of its dividend.
LEMMA DivBound ==
  ASSUME NEW x \in Nat, NEW d \in Nat \ {0}, NEW m \in Nat, x < (m + 1) * d
  PROVE  x \div d \in Nat /\ x \div d <= m
<1> DEFINE q == x \div d
<1>1. q \in Nat /\ d * q <= x
  OBVIOUS
<1>2. SUFFICES ASSUME m + 1 <= q PROVE FALSE
  BY <1>1
<1>3. (m + 1) * d <= q * d
  BY <1>1, <1>2, TimesMonotone
<1> QED BY <1>1, <1>3

LEMMA CeilDivBound ==
  ASSUME NEW n \in Nat, NEW d \in Nat \ {0}, NEW m \in Nat, n <= m * d
  PROVE  CeilDiv(n, d) \in Nat /\ CeilDiv(n, d) <= m
<1>1. n + d - 1 \in Nat /\ n + d - 1 < (m + 1) * d
  OBVIOUS
<1> QED BY <1>1, DivBound DEF CeilDiv

\* A weighted mean is at most the larger of the two.
LEMMA FoldedBound ==
  ASSUME NEW e \in 0..(MaxRequests * Unit), NEW n \in 0..MaxRequests, NEW decay \in 1..(Unit - 1)
  PROVE  Folded(e, n, decay) \in 0..(MaxRequests * Unit)
<1> DEFINE peak == MaxRequests * Unit
           sum == decay * e + (Unit - decay) * n * Unit
<1>1. Unit \in Nat \ {0} /\ MaxRequests \in Nat /\ peak \in Nat
  BY PoolTargetsAssumption
<1>2. decay \in Nat /\ Unit - decay \in Nat /\ e \in Nat /\ n \in Nat
  BY <1>1
<1>3. n * Unit \in Nat /\ n * Unit <= peak
  BY <1>1, <1>2, TimesMonotone
<1>4. (Unit - decay) * (n * Unit) <= (Unit - decay) * peak
  BY <1>1, <1>2, <1>3, TimesMonotone
<1>5. decay * e <= decay * peak
  BY <1>1, <1>2, TimesMonotone
<1>6. (Unit - decay) * n * Unit = (Unit - decay) * (n * Unit)
  BY <1>1, <1>2
<1>7. decay * peak + (Unit - decay) * peak = peak * Unit
  BY <1>1, <1>2
<1>8. sum \in Nat /\ sum <= peak * Unit
  <2>1. decay * e \in Nat /\ (Unit - decay) * (n * Unit) \in Nat
    BY <1>2, <1>3
  <2> QED BY <2>1, <1>1, <1>4, <1>5, <1>6, <1>7
<1>9. CeilDiv(sum, Unit) \in Nat /\ CeilDiv(sum, Unit) <= peak
  BY <1>1, <1>8, CeilDivBound
<1> HIDE DEF sum
<1> QED BY <1>1, <1>9 DEF Folded, sum

\* The target is within the busiest interval or the floor, and within the ceiling.
LEMMA DesiredBound ==
  ASSUME NEW e \in 0..(MaxRequests * Unit), NEW min \in Nat, NEW max \in Int
  PROVE  /\ Desired(e, min, max) \in Nat
         /\ Desired(e, min, max) <= MaxRequests \/ Desired(e, min, max) <= min
         /\ max > 0 => Desired(e, min, max) <= max
<1>1. Unit \in Nat \ {0} /\ MaxRequests \in Nat /\ e \in Nat /\ e <= MaxRequests * Unit
  BY PoolTargetsAssumption
<1>2. CeilDiv(e, Unit) \in Nat /\ CeilDiv(e, Unit) <= MaxRequests
  BY <1>1, CeilDivBound
<1> QED BY <1>1, <1>2 DEF Desired, Larger, Smaller

\* The settings are numbers, normalized or not.
LEMMA InForceTyped ==
  ASSUME NEW c \in InForce
  PROVE  c.min \in Int /\ c.max \in Int /\ c.decay \in 1..(Unit - 1)
<1> DEFINE Config == [min : Int, max : Int, decay : 1..(Unit - 1)]
<1>1. ASSUME NEW e \in Confs PROVE Normal(e) \in Config
  <2>1. e \in Config
    BY PoolTargetsAssumption
  <2>2. e.min \in Int /\ e.max \in Int
    BY <2>1
  <2>3. Larger(0, e.min) \in Int /\ Larger(Larger(0, e.min), e.max) \in Int
    BY <2>2 DEF Larger
  <2> QED BY <2>1, <2>3 DEF Normal
<1>2. c \in Config
  BY <1>1, PoolTargetsAssumption DEF InForce
<1> QED BY <1>2

-----------------------------------------------------------------------------
(* The invariant.                                                           *)

\* The pass holds bounds that were in force at some time, and no templates before it
\* has read them.
ReadBounds ==
  /\ pass.pc \in {"idle", "all"} => DOMAIN todo = {}
  /\ pass.pc # "idle" => \E c \in InForce : pass.min = c.min /\ pass.max = c.max
  /\ \A t \in DOMAIN todo : \E r \in Registries : t \in DOMAIN r /\ todo[t] = r[t]

Bounded(t, n) == n <= MaxRequests \/ \E f \in Floors(t) : n <= f

\* The creations that are left fit under the target, and the target under the bounds.
GoalFits ==
  /\ Bounded(pass.at, pass.goal)
  /\ pass.need > 0 => warm[pass.at] + pass.need <= pass.goal

DInv == TypeOK /\ ReadBounds /\ GoalFits /\ PoolWithinDemand

Kept(t) == LET max == EffMax(reg[t], conf) IN max > 0 => warm[t] <= max

\* Unless something changed or failed, what the pass read is what is in force, ...
ReadInForce ==
  stale # "yes" =>
    /\ pass.pc # "idle" => pass.min = conf.min /\ pass.max = conf.max
    /\ \A t \in DOMAIN todo : t \in All /\ todo[t] = reg[t]

\* ... the template at hand ends at its target, which is below the ceiling in force, ...
WorkInForce ==
  stale # "yes" /\ pass.pc = "work" =>
    /\ pass.at \in All
    /\ warm[pass.at] + pass.need <= pass.goal
    /\ LET max == EffMax(reg[pass.at], conf) IN max > 0 => pass.goal <= max

\* ... and the templates before it have been dealt with.
Passed(t) ==
  \/ stale = "no"
  \/ /\ stale = "pass" /\ pass.pc \in {"loop", "work"}
     /\ t \notin DOMAIN todo /\ ~(pass.pc = "work" /\ pass.at = t)

PassedKept == \A t \in All : Passed(t) => Kept(t)

CInv == DInv /\ ReadInForce /\ WorkInForce /\ PassedKept

\* The floor and the ceiling of a template are numbers.
LEMMA BoundsTyped ==
  ASSUME NEW tmpl \in Template, NEW c, c.min \in Int, c.max \in Int
  PROVE  EffMin(tmpl, c) \in Nat /\ EffMax(tmpl, c) \in Int
BY DEF Template, EffMin, EffMax, Larger

LEMMA RegistryTyped ==
  ASSUME NEW r \in Registries
  PROVE  IsRegistry(r) /\ Default \in DOMAIN r
BY PoolTargetsAssumption

LEMMA InitInv == Init => CInv
<1> SUFFICES ASSUME Init PROVE CInv
  OBVIOUS
<1>1. Unit \in Nat \ {0} /\ MaxRequests \in Nat /\ 0 \in 0..(MaxRequests * Unit)
  BY PoolTargetsAssumption
<1>2. IsRegistry(Nothing) /\ DOMAIN Nothing = {}
  BY DEF Nothing, IsRegistry
<1>3. AtRest \in [pc : {"idle", "all", "loop", "work"}, min : Int, max : Int,
                  at : Templates, goal : Nat, need : Int]
  BY PoolTargetsAssumption DEF AtRest
<1>4. TypeOK
  <2>1. pending \in [Templates -> 0..MaxRequests] /\ ewma \in [Templates -> 0..(MaxRequests * Unit)]
    BY <1>1 DEF Init
  <2> QED BY <1>2, <1>3, <2>1 DEF Init, TypeOK
<1>5. ReadBounds /\ GoalFits /\ PoolWithinDemand
  BY <1>1, <1>2 DEF Init, ReadBounds, GoalFits, Bounded, PoolWithinDemand, AtRest
<1>6. ReadInForce /\ WorkInForce /\ PassedKept
  BY DEF Init, ReadInForce, WorkInForce, PassedKept, Passed
<1> QED BY <1>4, <1>5, <1>6 DEF CInv, DInv

-----------------------------------------------------------------------------
(* The steps of the environment.                                            *)

\* Requests change the counts only.
LEMMA RecordInv ==
  ASSUME CInv, Record
  PROVE  CInv'
<1> USE DEF CInv, DInv
<1>1. PICK id \in Wanted :
        /\ pending[Get(id)] < MaxRequests
        /\ pending' = [pending EXCEPT ![Get(id)] = @ + 1]
  BY DEF Record
<1>2. Get(id) \in Templates
  BY RegistryTyped, PoolTargetsAssumption DEF TypeOK, Get, IsRegistry
<1>3. pending[Get(id)] + 1 \in 0..MaxRequests
  BY <1>1, <1>2, PoolTargetsAssumption DEF TypeOK
<1>4. TypeOK'
  BY <1>1, <1>2, <1>3 DEF TypeOK, Record, adminVars, passVars
<1>5. ReadBounds' /\ GoalFits' /\ PoolWithinDemand'
  BY DEF ReadBounds, GoalFits, PoolWithinDemand, Bounded, Floors, Record, adminVars, passVars
<1>6. ReadInForce' /\ WorkInForce' /\ PassedKept'
  BY DEF ReadInForce, WorkInForce, PassedKept, Passed, Kept, All, Record, adminVars, passVars
<1> QED BY <1>4, <1>5, <1>6

\* A pool that loses a box stays within every bound.
LEMMA TakenInv ==
  ASSUME CInv, Taken
  PROVE  CInv'
<1> USE DEF CInv, DInv
<1>1. PICK t \in Templates : warm[t] > 0 /\ warm' = [warm EXCEPT ![t] = @ - 1]
  BY DEF Taken
<1>2. \A u \in Templates : warm[u] \in Nat /\ warm'[u] \in Nat /\ warm'[u] <= warm[u]
  BY <1>1 DEF TypeOK
<1>3. TypeOK'
  BY <1>1, <1>2 DEF TypeOK, Taken, adminVars, demandVars, passVars
<1>4. ReadBounds'
  BY DEF ReadBounds, Taken, passVars
<1>5. pass.at \in Templates /\ pass.need \in Int /\ pass.goal \in Nat
  BY DEF TypeOK
<1>6. GoalFits'
  BY <1>2, <1>5 DEF GoalFits, Bounded, Floors, Taken, passVars
<1>7. PoolWithinDemand'
  <2> SUFFICES ASSUME NEW u \in Templates
               PROVE  warm'[u] <= MaxRequests \/ \E f \in Floors(u) : warm'[u] <= f
    BY DEF PoolWithinDemand
  <2>1. CASE warm[u] <= MaxRequests
    BY <1>2, <2>1, PoolTargetsAssumption
  <2>2. CASE \E f \in Floors(u) : warm[u] <= f
    <3> PICK f \in Floors(u) : warm[u] <= f
      BY <2>2
    <3>1. f \in Int
      BY InForceTyped, RegistryTyped, BoundsTyped DEF Floors, IsRegistry
    <3> QED BY <1>2, <3>1
  <2> QED BY <2>1, <2>2 DEF PoolWithinDemand
<1>8. ReadInForce'
  BY DEF ReadInForce, All, Taken, adminVars, passVars
<1>9. WorkInForce'
  BY <1>2, <1>5 DEF WorkInForce, All, Taken, adminVars, passVars
<1>10. PassedKept'
  <2> SUFFICES ASSUME NEW u \in All, Passed(u), Kept(u), EffMax(reg[u], conf) > 0
               PROVE  warm'[u] <= EffMax(reg[u], conf)
    BY DEF PassedKept, Passed, Kept, All, Taken, adminVars, passVars
  <2>1. u \in Templates /\ reg[u] \in Template /\ conf.min \in Int /\ conf.max \in Int
    BY RegistryTyped, InForceTyped DEF TypeOK, All, IsRegistry
  <2>2. EffMax(reg[u], conf) \in Int
    BY <2>1, BoundsTyped
  <2> QED BY <1>2, <2>1, <2>2 DEF Kept
<1> QED BY <1>3, <1>4, <1>6, <1>7, <1>8, <1>9, <1>10

\* A change of the bounds leaves nothing known about the pools but what the floors say.
LEMMA ChangeInv ==
  ASSUME CInv, PutConfig \/ PutTemplates
  PROVE  CInv'
<1> USE DEF CInv, DInv
<1>1. TypeOK'
  BY DEF TypeOK, InForce, PutConfig, PutTemplates, demandVars, passVars
<1>2. ReadBounds' /\ GoalFits' /\ PoolWithinDemand'
  BY DEF ReadBounds, GoalFits, PoolWithinDemand, Bounded, Floors, PutConfig, PutTemplates, passVars
<1>3. ReadInForce' /\ WorkInForce' /\ PassedKept'
  BY DEF ReadInForce, WorkInForce, PassedKept, Passed, PutConfig, PutTemplates
<1> QED BY <1>1, <1>2, <1>3

\* A pass at rest.
LEMMA AtRestFacts ==
  /\ AtRest \in [pc : {"idle", "all", "loop", "work"}, min : Int, max : Int,
                 at : Templates, goal : Nat, need : Int]
  /\ AtRest.pc = "idle" /\ AtRest.need = 0 /\ AtRest.goal = 0
  /\ IsRegistry(Nothing) /\ DOMAIN Nothing = {}
BY PoolTargetsAssumption DEF AtRest, Nothing, IsRegistry

LEMMA RestartInv ==
  ASSUME CInv, Restart
  PROVE  CInv'
<1> USE DEF CInv, DInv
<1>1. Unit \in Nat \ {0} /\ MaxRequests \in Nat /\ 0 \in 0..(MaxRequests * Unit)
  BY PoolTargetsAssumption
<1>2. pending' \in [Templates -> 0..MaxRequests] /\ ewma' \in [Templates -> 0..(MaxRequests * Unit)]
  BY <1>1 DEF Restart
<1>3. TypeOK'
  BY <1>2, AtRestFacts DEF TypeOK, Restart, adminVars
<1>4. ReadBounds' /\ GoalFits' /\ PoolWithinDemand'
  BY <1>1, AtRestFacts DEF ReadBounds, GoalFits, PoolWithinDemand, Bounded, Floors, Restart
<1>5. ReadInForce' /\ WorkInForce' /\ PassedKept'
  BY DEF ReadInForce, WorkInForce, PassedKept, Passed, Restart
<1> QED BY <1>3, <1>4, <1>5

\* Steps that leave all but calm alone.
LEMMA CalmInv ==
  ASSUME CInv, Calm \/ UNCHANGED vars
  PROVE  CInv'
<1> USE DEF CInv, DInv
<1>1. UNCHANGED <<conf, reg, pending, ewma, warm, pass, todo, stale>> /\ calm' \in BOOLEAN
  BY DEF TypeOK, Calm, vars, adminVars, demandVars, passVars
<1>2. TypeOK'
  BY <1>1 DEF TypeOK
<1>3. ReadBounds' /\ GoalFits' /\ PoolWithinDemand'
  BY <1>1 DEF ReadBounds, GoalFits, PoolWithinDemand, Bounded, Floors
<1>4. ReadInForce' /\ WorkInForce' /\ PassedKept'
  BY <1>1 DEF ReadInForce, WorkInForce, PassedKept, Passed, Kept, All
<1> QED BY <1>2, <1>3, <1>4

-----------------------------------------------------------------------------
(* The steps of a pass.                                                     *)

LEMMA BeginInv ==
  ASSUME CInv, Begin
  PROVE  CInv'
<1> USE DEF CInv, DInv
<1>1. conf \in InForce
  BY DEF TypeOK
<1>2. conf.min \in Int /\ conf.max \in Int /\ conf.decay \in 1..(Unit - 1)
  BY <1>1, InForceTyped
<1>3. \A t \in Templates : Folded(ewma[t], pending[t], conf.decay) \in 0..(MaxRequests * Unit)
  BY <1>2, FoldedBound DEF TypeOK
<1>4. ewma' \in [Templates -> 0..(MaxRequests * Unit)]
  BY <1>3 DEF Begin
<1>5. pending' \in [Templates -> 0..MaxRequests]
  BY PoolTargetsAssumption DEF Begin
<1>6. /\ pass' \in [pc : {"idle", "all", "loop", "work"}, min : Int, max : Int,
                   at : Templates, goal : Nat, need : Int]
      /\ pass'.pc = "all" /\ pass'.min = conf.min /\ pass'.max = conf.max
      /\ pass'.at = pass.at /\ pass'.goal = pass.goal /\ pass'.need = pass.need
  BY <1>2 DEF TypeOK, Begin
<1>7. TypeOK'
  BY <1>4, <1>5, <1>6 DEF TypeOK, Begin, adminVars
<1>8. ReadBounds' /\ DOMAIN todo' = {}
  BY <1>1, <1>6 DEF ReadBounds, Begin
<1>9. GoalFits' /\ PoolWithinDemand'
  BY <1>6 DEF GoalFits, PoolWithinDemand, Bounded, Floors, Begin
<1>10. ReadInForce' /\ WorkInForce'
  BY <1>6, <1>8 DEF ReadInForce, WorkInForce, Begin, adminVars
<1>11. PassedKept'
  BY <1>6 DEF PassedKept, Passed, Kept, All, Begin, adminVars
<1> QED BY <1>7, <1>8, <1>9, <1>10, <1>11

LEMMA ListTemplatesInv ==
  ASSUME CInv, ListTemplates
  PROVE  CInv'
<1> USE DEF CInv, DInv
<1>1. /\ pass' \in [pc : {"idle", "all", "loop", "work"}, min : Int, max : Int,
                   at : Templates, goal : Nat, need : Int]
      /\ pass'.pc = "loop" /\ pass.pc = "all" /\ pass'.min = pass.min /\ pass'.max = pass.max
      /\ pass'.at = pass.at /\ pass'.goal = pass.goal /\ pass'.need = pass.need
  BY DEF TypeOK, ListTemplates
<1>2. DOMAIN todo' = All /\ (\A t \in All : todo'[t] = reg[t]) /\ todo' = [t \in All |-> reg[t]]
  BY DEF ListTemplates
<1>3. reg \in Registries /\ IsRegistry(reg) /\ All \subseteq DOMAIN reg
  BY RegistryTyped DEF TypeOK, All
<1>4. IsRegistry(todo')
  BY <1>2, <1>3 DEF IsRegistry
<1>5. TypeOK'
  BY <1>1, <1>4 DEF TypeOK, ListTemplates, adminVars, demandVars
<1>6. ReadBounds'
  BY <1>1, <1>2, <1>3 DEF ReadBounds
<1>7. GoalFits' /\ PoolWithinDemand'
  BY <1>1 DEF GoalFits, PoolWithinDemand, Bounded, Floors, ListTemplates
<1>8. ReadInForce' /\ WorkInForce'
  BY <1>1, <1>2 DEF ReadInForce, WorkInForce, All, ListTemplates, adminVars
<1>9. PassedKept'
  BY <1>1, <1>2 DEF PassedKept, Passed, Kept, All, ListTemplates, adminVars
<1> QED BY <1>5, <1>6, <1>7, <1>8, <1>9

\* The loop takes t out of its copy.
LEMMA TakeFacts ==
  ASSUME IsRegistry(todo), NEW t \in DOMAIN todo, Take(t)
  PROVE  /\ IsRegistry(todo') /\ DOMAIN todo' = DOMAIN todo \ {t}
         /\ \A u \in DOMAIN todo' : todo'[u] = todo[u]
BY DEF IsRegistry, Take

\* The target that is computed for t is within the bounds that were read.
LEMMA ListWarmInv ==
  ASSUME CInv, ListWarm
  PROVE  CInv'
<1> USE DEF CInv, DInv
<1> DEFINE Goal(t) == Desired(ewma[t], EffMin(todo[t], pass), EffMax(todo[t], pass))
<1>1. PICK t \in DOMAIN todo :
        /\ Take(t)
        /\ pass' = [pass EXCEPT !.pc = "work", !.at = t, !.goal = Goal(t),
                               !.need = Goal(t) - warm[t]]
  BY DEF ListWarm
<1>2. t \in Templates /\ todo[t] \in Template /\ pass.min \in Int /\ pass.max \in Int
  BY DEF TypeOK, IsRegistry
<1>3. EffMin(todo[t], pass) \in Nat /\ EffMax(todo[t], pass) \in Int
  BY <1>2, BoundsTyped
<1>4. ewma[t] \in 0..(MaxRequests * Unit) /\ warm[t] \in Nat
  BY <1>2 DEF TypeOK
<1>5. /\ Goal(t) \in Nat
      /\ Goal(t) <= MaxRequests \/ Goal(t) <= EffMin(todo[t], pass)
      /\ EffMax(todo[t], pass) > 0 => Goal(t) <= EffMax(todo[t], pass)
  BY <1>3, <1>4, DesiredBound
<1> HIDE DEF Goal
<1>6. /\ pass' \in [pc : {"idle", "all", "loop", "work"}, min : Int, max : Int,
                   at : Templates, goal : Nat, need : Int]
      /\ pass'.pc = "work" /\ pass.pc = "loop" /\ pass'.min = pass.min /\ pass'.max = pass.max
      /\ pass'.at = t /\ pass'.goal = Goal(t) /\ pass'.need = Goal(t) - warm[t]
  <2>1. pass.pc = "loop" /\ Goal(t) - warm[t] \in Int
    BY <1>4, <1>5 DEF ListWarm
  <2>2. pass \in [pc : {"idle", "all", "loop", "work"}, min : Int, max : Int,
                 at : Templates, goal : Nat, need : Int]
    BY DEF TypeOK
  <2> QED BY <1>1, <1>2, <1>5, <2>1, <2>2
<1>7. /\ IsRegistry(todo') /\ DOMAIN todo' = DOMAIN todo \ {t}
      /\ \A u \in DOMAIN todo' : todo'[u] = todo[u]
  BY <1>1, TakeFacts DEF TypeOK
<1>8. TypeOK'
  BY <1>6, <1>7 DEF TypeOK, ListWarm, adminVars, demandVars
<1>9. ReadBounds'
  BY <1>6, <1>7 DEF ReadBounds
<1>10. Bounded(t, Goal(t))
  <2>1. PICK c \in InForce : pass.min = c.min
    BY <1>6 DEF ReadBounds
  <2>2. PICK r \in Registries : t \in DOMAIN r /\ todo[t] = r[t]
    BY DEF ReadBounds
  <2>3. EffMin(todo[t], pass) = EffMin(r[t], c)
    BY <2>1, <2>2 DEF EffMin
  <2>4. EffMin(todo[t], pass) \in Floors(t)
    BY <2>2, <2>3 DEF Floors
  <2> QED BY <1>5, <2>4 DEF Bounded
<1>11. GoalFits'
  <2>1. pass'.need > 0 => warm'[pass'.at] + pass'.need <= pass'.goal
    BY <1>4, <1>5, <1>6 DEF ListWarm
  <2> QED BY <1>6, <1>10, <2>1 DEF GoalFits, Bounded, Floors
<1>12. PoolWithinDemand'
  BY DEF PoolWithinDemand, Floors, ListWarm
<1>13. ReadInForce'
  BY <1>6, <1>7 DEF ReadInForce, All, ListWarm, adminVars
<1>14. WorkInForce'
  <2> SUFFICES ASSUME stale # "yes"
               PROVE  /\ t \in All
                      /\ warm[t] + (Goal(t) - warm[t]) <= Goal(t)
                      /\ EffMax(reg[t], conf) > 0 => Goal(t) <= EffMax(reg[t], conf)
    BY <1>6 DEF WorkInForce, All, ListWarm, adminVars
  <2>1. t \in All /\ todo[t] = reg[t] /\ pass.max = conf.max
    BY <1>6 DEF ReadInForce
  <2>2. EffMax(todo[t], pass) = EffMax(reg[t], conf)
    BY <2>1 DEF EffMax
  <2> QED BY <1>4, <1>5, <2>1, <2>2
<1>15. PassedKept'
  BY <1>6, <1>7 DEF PassedKept, Passed, Kept, All, ListWarm, adminVars
<1> QED BY <1>8, <1>9, <1>11, <1>12, <1>13, <1>14, <1>15

\* A failing listing skips the template, and says so.
LEMMA ListWarmFailsInv ==
  ASSUME CInv, ListWarmFails
  PROVE  CInv'
<1> USE DEF CInv, DInv
<1>1. PICK t \in DOMAIN todo : Take(t)
  BY DEF ListWarmFails
<1>2. /\ IsRegistry(todo') /\ DOMAIN todo' = DOMAIN todo \ {t}
      /\ \A u \in DOMAIN todo' : todo'[u] = todo[u]
  BY <1>1, TakeFacts DEF TypeOK
<1>3. TypeOK'
  BY <1>2 DEF TypeOK, ListWarmFails, adminVars, demandVars
<1>4. ReadBounds' /\ GoalFits' /\ PoolWithinDemand'
  BY <1>2 DEF ReadBounds, GoalFits, PoolWithinDemand, Bounded, Floors, ListWarmFails
<1>5. ReadInForce' /\ WorkInForce' /\ PassedKept'
  BY DEF ReadInForce, WorkInForce, PassedKept, Passed, ListWarmFails
<1> QED BY <1>3, <1>4, <1>5

\* One step on the template at hand: n is left to do, and its pool becomes w, which is
\* at most what was left to do above what it was.
Works(n, w) ==
  /\ pass.pc = "work"
  /\ pass' = [pass EXCEPT !.need = n]
  /\ warm' = [warm EXCEPT ![pass.at] = w]
  /\ UNCHANGED <<adminVars, demandVars, todo, calm>>
  /\ stale' \in {stale, "yes"}
  /\ w <= warm[pass.at] \/ (pass.need > 0 /\ w <= warm[pass.at] + pass.need)
  /\ n > 0 => pass.need > 0 /\ w + n <= warm[pass.at] + pass.need
  /\ stale' = "yes" \/ w + n <= warm[pass.at] + pass.need \/ w + n <= pass.goal

LEMMA WorkStep ==
  ASSUME CInv, NEW n \in Int, NEW w \in Nat, Works(n, w)
  PROVE  CInv'
<1> USE DEF CInv, DInv, Works
<1> DEFINE at == pass.at
<1>1. at \in Templates /\ warm[at] \in Nat /\ pass.goal \in Nat /\ pass.need \in Int
  BY DEF TypeOK
<1>2. /\ pass' \in [pc : {"idle", "all", "loop", "work"}, min : Int, max : Int,
                   at : Templates, goal : Nat, need : Int]
      /\ pass'.pc = "work" /\ pass'.min = pass.min /\ pass'.max = pass.max
      /\ pass'.at = at /\ pass'.goal = pass.goal /\ pass'.need = n
  BY DEF TypeOK
<1>3. warm' \in [Templates -> Nat] /\ warm'[at] = w
      /\ \A u \in Templates : u # at => warm'[u] = warm[u]
  BY <1>1 DEF TypeOK
<1>4. TypeOK'
  BY <1>2, <1>3 DEF TypeOK, adminVars, demandVars
<1>5. ReadBounds'
  BY <1>2 DEF ReadBounds
<1>6. GoalFits'
  <2>1. n > 0 => w + n <= pass.goal
    BY <1>1 DEF GoalFits
  <2> QED BY <1>2, <1>3, <2>1 DEF GoalFits, Bounded, Floors
<1>7. PoolWithinDemand'
  <2>1. w <= warm[at] \/ w <= pass.goal
    BY <1>1 DEF GoalFits
  <2>2. \A f \in Floors(at) : f \in Int
    BY InForceTyped, RegistryTyped, BoundsTyped DEF Floors, IsRegistry
  <2>3. Bounded(at, w)
    <3>1. Bounded(at, warm[at]) /\ Bounded(at, pass.goal)
      BY <1>1 DEF PoolWithinDemand, GoalFits, Bounded
    <3> QED BY <1>1, <2>1, <2>2, <3>1, PoolTargetsAssumption DEF Bounded
  <2> QED BY <1>3, <2>3 DEF PoolWithinDemand, Bounded, Floors
<1>8. ReadInForce'
  BY <1>2 DEF ReadInForce, All, adminVars
<1>9. WorkInForce'
  <2> SUFFICES ASSUME stale' # "yes"
               PROVE  /\ at \in All /\ w + n <= pass.goal
                      /\ LET max == EffMax(reg[at], conf) IN max > 0 => pass.goal <= max
    BY <1>2, <1>3 DEF WorkInForce, All, adminVars
  <2>1. stale # "yes" /\ (w + n <= warm[at] + pass.need \/ w + n <= pass.goal)
    OBVIOUS
  <2>2. at \in All /\ warm[at] + pass.need <= pass.goal
    BY <2>1 DEF WorkInForce
  <2> QED BY <1>1, <2>1, <2>2 DEF WorkInForce
<1>10. PassedKept'
  <2> SUFFICES ASSUME NEW u \in All, Passed(u)', EffMax(reg[u], conf) > 0
               PROVE  warm'[u] <= EffMax(reg[u], conf)
    BY DEF PassedKept, Kept, All, adminVars
  <2>1. u \in Templates /\ reg[u] \in Template /\ conf.min \in Int /\ conf.max \in Int
    BY RegistryTyped, InForceTyped DEF TypeOK, All, IsRegistry
  <2>2. EffMax(reg[u], conf) \in Int
    BY <2>1, BoundsTyped
  <2>3. stale # "yes" /\ Passed(u)
    BY <1>2 DEF Passed, TypeOK
  <2>4. warm[u] <= EffMax(reg[u], conf)
    BY <2>3 DEF PassedKept, Kept
  <2>5. CASE u # at
    BY <1>3, <2>1, <2>4, <2>5
  <2>6. CASE u = at
    <3>1. w <= warm[at] \/ w <= pass.goal
      BY <1>1 DEF GoalFits
    <3>2. pass.goal <= EffMax(reg[u], conf)
      BY <2>3, <2>6 DEF WorkInForce
    <3> QED BY <1>1, <1>3, <2>2, <2>4, <2>6, <3>1, <3>2
  <2> QED BY <2>5, <2>6
<1> QED BY <1>4, <1>5, <1>6, <1>7, <1>8, <1>9, <1>10

LEMMA CreateInv ==
  ASSUME CInv, CreateWarm \/ CreateWarmFails
  PROVE  CInv'
<1>1. /\ pass.at \in Templates /\ warm[pass.at] \in Nat /\ pass.need \in Int
      /\ warm = [warm EXCEPT ![pass.at] = warm[pass.at]]
  BY DEF CInv, DInv, TypeOK
<1>2. warm[pass.at] + 1 \in Nat /\ pass.need - 1 \in Int /\ 0 \in Int
  BY <1>1
<1>3. CASE CreateWarm
  <2>1. Works(pass.need - 1, warm[pass.at] + 1)
    BY <1>1, <1>3 DEF CreateWarm, Works
  <2> QED BY <1>2, <2>1, WorkStep
<1>4. CASE CreateWarmFails /\ warm' = warm
  <2>1. Works(0, warm[pass.at])
    BY <1>1, <1>4 DEF CreateWarmFails, Works
  <2> QED BY <1>1, <1>2, <2>1, WorkStep
<1>5. CASE CreateWarmFails /\ warm' = [warm EXCEPT ![pass.at] = @ + 1]
  <2>1. Works(0, warm[pass.at] + 1)
    BY <1>1, <1>5 DEF CreateWarmFails, Works
  <2> QED BY <1>2, <2>1, WorkStep
<1> QED BY <1>3, <1>4, <1>5 DEF CreateWarmFails

\* A victim that is gone already was counted by the listing, so the pool is smaller.
LEMMA DeleteInv ==
  ASSUME CInv, DeleteWarm \/ DeleteWarmFails
  PROVE  CInv'
<1>1. /\ pass.at \in Templates /\ warm[pass.at] \in Nat /\ pass.need \in Int /\ pass.goal \in Nat
      /\ warm = [warm EXCEPT ![pass.at] = warm[pass.at]] /\ pass.need + 1 \in Int
  BY DEF CInv, DInv, TypeOK
<1>2. CASE DeleteWarmFails
  <2>1. Works(pass.need + 1, warm[pass.at])
    BY <1>1, <1>2 DEF DeleteWarmFails, Works
  <2> QED BY <1>1, <2>1, WorkStep
<1>3. CASE DeleteWarm /\ warm[pass.at] > 0 /\ warm' = [warm EXCEPT ![pass.at] = @ - 1]
  <2>1. warm[pass.at] - 1 \in Nat
    BY <1>1, <1>3
  <2>2. Works(pass.need + 1, warm[pass.at] - 1)
    BY <1>1, <1>3 DEF DeleteWarm, Works
  <2> QED BY <1>1, <2>1, <2>2, WorkStep
<1>4. CASE DeleteWarm /\ warm[pass.at] < pass.goal - pass.need /\ UNCHANGED warm
  <2>1. Works(pass.need + 1, warm[pass.at])
    BY <1>1, <1>4 DEF DeleteWarm, Works
  <2> QED BY <1>1, <2>1, WorkStep
<1> QED BY <1>2, <1>3, <1>4 DEF DeleteWarm

\* The template at hand has reached its target, which is within its ceiling.
LEMMA TemplateDoneInv ==
  ASSUME CInv, TemplateDone
  PROVE  CInv'
<1> USE DEF CInv, DInv
<1>1. /\ pass' \in [pc : {"idle", "all", "loop", "work"}, min : Int, max : Int,
                   at : Templates, goal : Nat, need : Int]
      /\ pass'.pc = "loop" /\ pass.pc = "work" /\ pass'.min = pass.min /\ pass'.max = pass.max
      /\ pass'.at = Default /\ pass'.goal = 0 /\ pass'.need = 0 /\ pass.need = 0
  BY PoolTargetsAssumption DEF TypeOK, TemplateDone
<1>2. TypeOK'
  BY <1>1 DEF TypeOK, TemplateDone, adminVars, demandVars
<1>3. ReadBounds'
  BY <1>1 DEF ReadBounds, TemplateDone
<1>4. GoalFits' /\ PoolWithinDemand'
  BY <1>1, PoolTargetsAssumption DEF GoalFits, PoolWithinDemand, Bounded, Floors, TemplateDone
<1>5. ReadInForce' /\ WorkInForce'
  BY <1>1 DEF ReadInForce, WorkInForce, All, TemplateDone, adminVars
<1>6. PassedKept'
  <2> SUFFICES ASSUME NEW u \in All, Passed(u)', EffMax(reg[u], conf) > 0
               PROVE  warm[u] <= EffMax(reg[u], conf)
    BY DEF PassedKept, Kept, All, TemplateDone, adminVars
  <2>1. CASE Passed(u)
    BY <2>1 DEF PassedKept, Kept
  <2>2. CASE ~Passed(u)
    <3>1. stale # "yes" /\ u = pass.at
      BY <1>1, <2>2 DEF Passed, TemplateDone
    <3>2. warm[u] <= pass.goal /\ pass.goal <= EffMax(reg[u], conf)
      BY <1>1, <3>1 DEF TypeOK, WorkInForce
    <3>3. reg[u] \in Template /\ conf.max \in Int /\ conf.min \in Int
      BY RegistryTyped, InForceTyped DEF TypeOK, All, IsRegistry
    <3>4. EffMax(reg[u], conf) \in Int /\ warm[u] \in Nat /\ pass.goal \in Nat
      BY <3>1, <3>3, BoundsTyped DEF TypeOK
    <3> QED BY <3>2, <3>4
  <2> QED BY <2>1, <2>2
<1> QED BY <1>2, <1>3, <1>4, <1>5, <1>6

LEMMA EndInv ==
  ASSUME CInv, End
  PROVE  CInv'
<1> USE DEF CInv, DInv
<1>1. TypeOK'
  BY AtRestFacts DEF TypeOK, End, adminVars, demandVars
<1>2. ReadBounds' /\ GoalFits' /\ PoolWithinDemand'
  BY AtRestFacts, PoolTargetsAssumption
  DEF ReadBounds, GoalFits, PoolWithinDemand, Bounded, Floors, End
<1>3. ReadInForce' /\ WorkInForce'
  BY AtRestFacts DEF ReadInForce, WorkInForce, End
<1>4. PassedKept'
  BY DEF PassedKept, Passed, Kept, All, End, adminVars, TypeOK
<1> QED BY <1>1, <1>2, <1>3, <1>4

LEMMA NextInv ==
  ASSUME CInv, [Next]_vars
  PROVE  CInv'
<1>1. CASE Reconciler
  BY <1>1, BeginInv, ListTemplatesInv, ListWarmInv, ListWarmFailsInv, CreateInv, DeleteInv,
     TemplateDoneInv, EndInv DEF Reconciler
<1>2. CASE Record \/ Taken \/ PutConfig \/ PutTemplates \/ Restart \/ Calm \/ UNCHANGED vars
  BY <1>2, RecordInv, TakenInv, ChangeInv, RestartInv, CalmInv
<1> QED BY <1>1, <1>2 DEF Next

-----------------------------------------------------------------------------
(* The theorems.                                                            *)

\* The invariant holds for any templates, settings, registries and decays.
THEOREM TargetsInvariant == Spec => []CInv
<1> QED BY InitInv, NextInv, PTL DEF Spec

\* The state is well-formed; no average exceeds the busiest interval (tracker.go:55).
THEOREM TargetsTyped == Spec => []TypeOK
<1>1. CInv => TypeOK
  BY DEF CInv, DInv
<1> QED BY <1>1, TargetsInvariant, PTL

\* The pool of a template stays within its busiest interval or its floors (tracker.go:78).
THEOREM PoolWithinDemandHolds == Spec => []PoolWithinDemand
<1>1. CInv => PoolWithinDemand
  BY DEF CInv, DInv
<1> QED BY <1>1, TargetsInvariant, PTL

\* Once a pass worked with the bounds in force, ceilings are kept (tracker.go:84).
THEOREM CeilingKeptHolds == Spec => []CeilingKept
<1>1. CInv => CeilingKept
  BY DEF CInv, PassedKept, Passed, Kept, CeilingKept
<1> QED BY <1>1, TargetsInvariant, PTL

\* Only a pass that read an older registry warms a disabled template (pool.go:55).
THEOREM DisabledNotWarmedHolds == Spec => DisabledNotWarmed
<1> DEFINE Step == \A t \in Templates : warm'[t] > warm[t] => t \in All \/ stale = "yes"
<1>1. ASSUME CInv, [Next]_vars PROVE [Step]_vars
  <2> SUFFICES ASSUME Next, NEW t \in Templates, warm'[t] > warm[t], stale # "yes"
               PROVE  t \in All
    BY <1>1
  <2>1. warm[t] \in Nat /\ warm \in [Templates -> Nat] /\ pass.at \in Templates
    BY <1>1 DEF CInv, DInv, TypeOK
  <2>2. warm'[t] \in Nat
    BY <1>1, NextInv DEF CInv, DInv, TypeOK
  <2>3. warm' # warm /\ ~(warm'[t] < warm[t] \/ warm'[t] = warm[t])
    BY <2>1, <2>2
  <2>4. ~Taken /\ ~DeleteWarm
    BY <2>1, <2>3 DEF Taken, DeleteWarm
  <2>5. ~Begin /\ ~ListTemplates /\ ~ListWarm /\ ~ListWarmFails
    BY <2>3 DEF Begin, ListTemplates, ListWarm, ListWarmFails
  <2>6. ~DeleteWarmFails /\ ~TemplateDone /\ ~End
    BY <2>3 DEF DeleteWarmFails, TemplateDone, End
  <2>7. ~Record /\ ~PutConfig /\ ~PutTemplates /\ ~Restart /\ ~Calm
    BY <2>3 DEF Record, PutConfig, PutTemplates, Restart, Calm
  <2>8. CreateWarm \/ CreateWarmFails
    BY <2>4, <2>5, <2>6, <2>7 DEF Next, Reconciler
  <2>9. pass.pc = "work" /\ t = pass.at
    BY <2>1, <2>8 DEF CreateWarm, CreateWarmFails
  <2> QED BY <1>1, <2>9 DEF CInv, WorkInForce
<1> QED BY <1>1, TargetsInvariant, PTL DEF Spec, DisabledNotWarmed

=============================================================================
