---------------------------- MODULE SettingsStore ----------------------------
(***************************************************************************)
(* boxlyd's runtime settings.  They exist four times: in the store that    *)
(* the reconciler reads, in the ConfigMap that survives restarts, in the   *)
(* template registry and in the manager's defaults.  Admins edit them in   *)
(* two halves, the config and the templates, and each PUT writes a copy of *)
(* the whole, taken before, to one place after the other.                  *)
(***************************************************************************)
EXTENDS Integers

CONSTANTS
  Puts,       \* concurrent PUTs of admins
  Confs,      \* the configs admins send
  Lists,      \* the template lists admins send
  Builtins,   \* ids of the builtin templates
  Seed,       \* the config from the environment
  None,       \* the empty image name; no ConfigMap
  LoadFails   \* whether boxlyd may fail to read the ConfigMap as it starts

Images == {c.image : c \in Confs \cup {Seed}} \cup {None}

\* What matters of a config: the pool bounds and the default image.
Conf == [min : Int, max : Int, image : Images]

\* What matters of a custom template: its id and whether it is enabled.
ASSUME SettingsAssumption ==
  /\ Confs \cup {Seed} \subseteq Conf
  /\ Seed.image # None
  /\ \A l \in Lists : l \in [DOMAIN l -> {"on", "off"}]
  /\ LoadFails \in BOOLEAN

VARIABLES
  cur,    \* Store.cur
  saved,  \* the settings in the ConfigMap, or None
  reg,    \* the template registry: whether each template is enabled
  image,  \* the manager's default image
  put,    \* the PUTs in progress
  lone,   \* the PUT that ran alone so far, if there is one
  cause   \* why the copies may disagree

vars == <<cur, saved, reg, image, put, lone, cause>>

\* No custom templates.
NoList == [t \in {} |-> "on"]

Settings == [conf : Conf, list : Lists \cup {NoList}]

\* No ConfigMap is not a ConfigMap with settings in it.
ASSUME NoneAssumption == None \notin Settings

\* What boxlyd runs with until an admin saves something.
SeedSettings == [conf |-> Seed, list |-> NoList]

\* What the next start will find.
Stored == IF saved = None THEN SeedSettings ELSE saved

IdlePut == [pc |-> "idle", kind |-> "config", next |-> SeedSettings]

Put == [pc : {"idle", "set", "save", "create", "registry", "defaults"},
        kind : {"config", "templates"}, next : Settings]

\* LoadCustom: the builtins, overridden and extended by the custom templates.
Registry(list) ==
  [t \in Builtins \cup DOMAIN list |-> IF t \in DOMAIN list THEN list[t] ELSE "on"]

TypeOK ==
  /\ cur \in Settings
  /\ saved \in Settings \cup {None}
  /\ reg \in {Registry(l) : l \in Lists \cup {NoList}}
  /\ image \in Images \ {None}
  /\ put \in [Puts -> Put]
  /\ lone \subseteq Puts
  /\ cause \subseteq {"overlap", "save", "load"}

Init ==
  /\ cur = SeedSettings
  /\ saved = None
  /\ reg = Registry(NoList)
  /\ image = Seed.image
  /\ put = [r \in Puts |-> IdlePut]
  /\ lone = {}
  /\ cause = {}

Idle == \A r \in Puts : put[r].pc = "idle"

-----------------------------------------------------------------------------
(* handleAdminPutConfig and handleAdminPutTemplates.                       *)

\* Get's copy, with one half replaced.
Begin(r, kind, next) ==
  /\ put[r].pc = "idle"
  /\ put' = [put EXCEPT ![r] = [pc |-> "set", kind |-> kind, next |-> next]]
  /\ lone' = IF Idle THEN {r} ELSE {}
  /\ cause' = IF Idle THEN cause ELSE cause \cup {"overlap"}
  /\ UNCHANGED <<cur, saved, reg, image>>

\* Mutant: the settings are built from the request alone.
PutConfigWhole(r, c) == Begin(r, "config", [SeedSettings EXCEPT !.conf = c])

PutConfig(r, c) == Begin(r, "config", [cur EXCEPT !.conf = c])

PutTemplates(r, l) == Begin(r, "templates", [cur EXCEPT !.list = l])

-----------------------------------------------------------------------------
(* Store.Set.                                                              *)

\* Mutant: the ceiling is raised to the floor before the floor is to zero.
NormalSwapped(c) ==
  [min |-> IF c.min < 0 THEN 0 ELSE c.min,
   max |-> IF c.max < c.min THEN c.min ELSE c.max, image |-> c.image]

Floor(c) == IF c.min < 0 THEN 0 ELSE c.min
Ceiling(c) == IF c.max < Floor(c) THEN Floor(c) ELSE c.max

\* normalize: no negative floor, no ceiling below the floor.
Normal(c) == [min |-> Floor(c), max |-> Ceiling(c), image |-> c.image]

\* The store changes first: from here on the reconciler uses the new bounds.
Store(r) ==
  /\ put[r].pc = "set"
  /\ LET next == [put[r].next EXCEPT !.conf = Normal(@)]
     IN /\ cur' = next
        /\ put' = [put EXCEPT ![r].pc = "save", ![r].next = next]
  /\ UNCHANGED <<saved, reg, image, lone, cause>>

\* The ConfigMap is updated without a resource version, so the last one wins;
\* the first save of all finds none.
SaveUpdate(r) ==
  /\ put[r].pc = "save"
  /\ saved' = IF saved = None THEN saved ELSE put[r].next
  /\ put' = [put EXCEPT ![r].pc = IF saved = None THEN "create" ELSE "registry"]
  /\ UNCHANGED <<cur, reg, image, lone, cause>>

SaveCreate(r) ==
  /\ put[r].pc = "create"
  /\ saved = None
  /\ saved' = put[r].next
  /\ put' = [put EXCEPT ![r].pc = "registry"]
  /\ UNCHANGED <<cur, reg, image, lone, cause>>

\* A failing call, or a ConfigMap created meanwhile, ends the PUT with an error.
\* A call may have been applied although its answer was lost.
SaveFails(r) ==
  /\ put[r].pc \in {"save", "create"}
  /\ saved' \in {saved} \cup (IF (put[r].pc = "create") = (saved = None)
                               THEN {put[r].next} ELSE {})
  /\ put' = [put EXCEPT ![r] = IdlePut]
  /\ lone' = lone \ {r}
  /\ cause' = cause \cup {"save"}
  /\ UNCHANGED <<cur, reg, image>>

\* Mutant: the custom templates are added to those that are there.
ApplyRegistryMerged(r) ==
  /\ put[r].pc = "registry"
  /\ LET list == put[r].next.list
     IN reg' = [t \in DOMAIN reg \cup DOMAIN list |->
                  IF t \in DOMAIN list THEN list[t] ELSE reg[t]]
  /\ put' = [put EXCEPT ![r].pc = "defaults"]
  /\ UNCHANGED <<cur, saved, image, lone, cause>>

\* LoadCustom resets the registry.
ApplyRegistry(r) ==
  /\ put[r].pc = "registry"
  /\ reg' = Registry(put[r].next.list)
  /\ put' = [put EXCEPT ![r].pc = "defaults"]
  /\ UNCHANGED <<cur, saved, image, lone, cause>>

\* SetDefaults keeps the old image if there is no new one.  Then the PUT is
\* answered; if no other was in progress, every copy now holds its settings.
ApplyDefaults(r) ==
  /\ put[r].pc = "defaults"
  /\ image' = IF put[r].next.conf.image = None THEN image ELSE put[r].next.conf.image
  /\ put' = [put EXCEPT ![r] = IdlePut]
  /\ lone' = lone \ {r}
  /\ cause' = IF r \in lone THEN {} ELSE cause
  /\ UNCHANGED <<cur, saved, reg>>

-----------------------------------------------------------------------------
(* main: Load and NewStore, before anything else runs.                     *)

\* Mutant: what was loaded is not applied to the registry.
BootUnapplied(seed, why) ==
  /\ cur' = seed
  /\ image' = IF seed.conf.image = None THEN Seed.image ELSE seed.conf.image
  /\ reg' = Registry(NoList)
  /\ put' = [r \in Puts |-> IdlePut]
  /\ lone' = {}
  /\ cause' = why
  /\ UNCHANGED saved

Boot(seed, why) ==
  /\ cur' = seed
  /\ reg' = Registry(seed.list)
  /\ image' = IF seed.conf.image = None THEN Seed.image ELSE seed.conf.image
  /\ put' = [r \in Puts |-> IdlePut]
  /\ lone' = {}
  /\ cause' = why
  /\ UNCHANGED saved

\* boxlyd restarts at any point and reads the ConfigMap, if there is one.
Restart == Boot(Stored, {})

\* A failing read is logged, and boxlyd runs with the environment's config.
RestartUnread == LoadFails /\ Boot(SeedSettings, {"load"})

-----------------------------------------------------------------------------
Handler(r) ==
  \/ \E c \in Confs : PutConfig(r, c)
  \/ \E l \in Lists : PutTemplates(r, l)
  \/ Store(r)
  \/ SaveUpdate(r)
  \/ SaveCreate(r)
  \/ SaveFails(r)
  \/ ApplyRegistry(r)
  \/ ApplyDefaults(r)

Next == (\E r \in Puts : Handler(r)) \/ Restart \/ RestartUnread

Spec == Init /\ [][Next]_vars

-----------------------------------------------------------------------------
(* Properties.                                                             *)

\* The saved pool bounds are in order, whatever admins send.
SavedInOrder == saved # None => 0 <= saved.conf.min /\ saved.conf.min <= saved.conf.max

\* Between PUTs the four copies agree, unless PUTs overlapped, a save failed or
\* the ConfigMap could not be read, and no PUT has succeeded on its own since.
SettledInSync ==
  Idle /\ cause = {} =>
    /\ cur = Stored
    /\ reg = Registry(cur.list)
    /\ cur.conf.image # None => image = cur.conf.image

\* The half of the settings that a PUT of this kind does not edit, up to the
\* normalization that every PUT applies to the whole.
OtherHalf(kind, s) == IF kind = "config" THEN s.list ELSE Normal(s.conf)

\* What a PUT does not edit stays as it is, in the store and in the ConfigMap,
\* as long as there is no such reason.
OtherHalfKept ==
  [][\A r \in lone :
       cause = {} /\ cause' = {} =>
         /\ OtherHalf(put[r].kind, cur') = OtherHalf(put[r].kind, cur)
         /\ OtherHalf(put[r].kind, Stored') = OtherHalf(put[r].kind, Stored)]_vars

-----------------------------------------------------------------------------
(* What the code's comments say and its steps do not keep.                 *)

\* The config "excludes templates, which have their own endpoint", and settings
\* "survive restarts": a PUT of the config does not change the saved templates.
ConfigKeepsTemplates ==
  [][\A r \in Puts :
       /\ put[r].kind = "config" /\ put[r].pc \in {"save", "create"}
       /\ put'[r] # put[r]
       /\ saved # None
       => saved'.list = saved.list]_vars

=============================================================================
