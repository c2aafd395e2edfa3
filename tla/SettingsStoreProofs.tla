-------------------------- MODULE SettingsStoreProofs --------------------------
(* Proofs about SettingsStore, for any number of PUTs and any inputs: the   *)
(* inductive invariant is SInv, with one lemma per action.                  *)
EXTENDS SettingsStoreInv, TLAPS

\* What normalize returns is a config, in order, and normalized.
LEMMA NormalFacts ==
  ASSUME NEW c \in Conf
  PROVE  Normal(c) \in Conf /\ InOrder(Normal(c)) /\ Normal(Normal(c)) = Normal(c)
<1>1. c.min \in Int /\ c.max \in Int /\ c.image \in Images
  BY DEF Conf
<1>2. Floor(c) \in Int /\ 0 <= Floor(c)
  BY <1>1 DEF Floor
<1>3. Ceiling(c) \in Int /\ Floor(c) <= Ceiling(c)
  BY <1>1, <1>2 DEF Ceiling
<1>4. Normal(c) \in Conf /\ InOrder(Normal(c))
  BY <1>1, <1>2, <1>3 DEF Normal, Conf, InOrder
<1>5. Floor(Normal(c)) = Floor(c)
  BY <1>2 DEF Normal, Floor
<1>6. Ceiling(Normal(c)) = Ceiling(c)
  BY <1>2, <1>3, <1>5 DEF Normal, Ceiling
<1>7. Normal(Normal(c)) = Normal(c)
  BY <1>5, <1>6 DEF Normal
<1> QED BY <1>4, <1>7

\* The settings boxlyd starts with.
LEMMA SeedFacts ==
  /\ SeedSettings \in Settings
  /\ SeedSettings # None
  /\ Seed.image \in Images \ {None}
BY SettingsAssumption, NoneAssumption DEF SeedSettings, Settings, Images

\* The settings the next start finds are settings.
LEMMA StoredFacts == TypeOK => Stored \in Settings
BY SeedFacts DEF TypeOK, Stored

\* A PUT starts from a copy of the store.
LEMMA PutConfigInv ==
  ASSUME SInv, NEW r \in Puts, NEW c \in Confs, PutConfig(r, c)
  PROVE  SInv'
<1>1. TypeOK'
  <2>1. [cur EXCEPT !.conf = c] \in Settings
    BY SettingsAssumption DEF SInv, TypeOK, Settings
  <2> QED BY <2>1 DEF SInv, TypeOK, Put, PutConfig, Begin, Idle
<1>2. SavedInOrder'
  BY DEF SInv, TypeOK, Put, SavedInOrder, Begin, Idle, PutConfig
<1>3. NextInOrder'
  BY DEF SInv, TypeOK, Put, NextInOrder, InOrder, Begin, Idle, PutConfig
<1>4. LoneIsAlone'
  BY DEF SInv, TypeOK, Put, LoneIsAlone, Active, Begin, Idle, PutConfig
<1>5. OthersOverlap'
  BY DEF SInv, TypeOK, Put, OthersOverlap, Active, Begin, Idle, PutConfig
<1>6. LoneProgress'
  BY DEF SInv, TypeOK, Put, LoneProgress, Copies, Begin, Idle, PutConfig
<1>7. SyncedBefore'
  BY DEF SInv, TypeOK, Put, SyncedBefore, InSync, Stored, Begin, Idle,
         PutConfig
<1>8. LoneEdits'
  <2> SUFFICES ASSUME NEW q \in lone', cause' = {}
               PROVE  /\ OtherHalf(put'[q].kind, put'[q].next) = OtherHalf(put'[q].kind, cur)
                      /\ cur = Stored
    BY DEF LoneEdits, Stored, PutConfig, Begin
  <2>1. Idle /\ q = r /\ cause = {}
    BY DEF PutConfig, Begin
  <2>2. cur = Stored
    BY <2>1 DEF SInv, SyncedBefore, InSync, Idle
  <2>3. put'[r].next = [cur EXCEPT !.conf = c]
    BY DEF SInv, TypeOK, PutConfig, Begin
  <2>4. put'[r].kind = "config"
    BY DEF SInv, TypeOK, PutConfig, Begin
  <2> QED BY <2>1, <2>2, <2>3, <2>4 DEF SInv, TypeOK, Settings, OtherHalf
<1> QED BY <1>1, <1>2, <1>3, <1>4, <1>5, <1>6, <1>7, <1>8 DEF SInv

\* The other half, likewise.
LEMMA PutTemplatesInv ==
  ASSUME SInv, NEW r \in Puts, NEW l \in Lists, PutTemplates(r, l)
  PROVE  SInv'
<1>1. TypeOK'
  <2>1. [cur EXCEPT !.list = l] \in Settings
    BY SettingsAssumption DEF SInv, TypeOK, Settings
  <2> QED BY <2>1 DEF SInv, TypeOK, Put, PutTemplates, Begin, Idle
<1>2. SavedInOrder'
  BY DEF SInv, TypeOK, Put, SavedInOrder, Begin, Idle, PutTemplates
<1>3. NextInOrder'
  BY DEF SInv, TypeOK, Put, NextInOrder, InOrder, Begin, Idle, PutTemplates
<1>4. LoneIsAlone'
  BY DEF SInv, TypeOK, Put, LoneIsAlone, Active, Begin, Idle, PutTemplates
<1>5. OthersOverlap'
  BY DEF SInv, TypeOK, Put, OthersOverlap, Active, Begin, Idle, PutTemplates
<1>6. LoneProgress'
  BY DEF SInv, TypeOK, Put, LoneProgress, Copies, Begin, Idle, PutTemplates
<1>7. SyncedBefore'
  BY DEF SInv, TypeOK, Put, SyncedBefore, InSync, Stored, Begin, Idle,
         PutTemplates
<1>8. LoneEdits'
  <2> SUFFICES ASSUME NEW q \in lone', cause' = {}
               PROVE  /\ OtherHalf(put'[q].kind, put'[q].next) = OtherHalf(put'[q].kind, cur)
                      /\ cur = Stored
    BY DEF LoneEdits, Stored, PutTemplates, Begin
  <2>1. Idle /\ q = r /\ cause = {}
    BY DEF PutTemplates, Begin
  <2>2. cur = Stored
    BY <2>1 DEF SInv, SyncedBefore, InSync, Idle
  <2>3. put'[r].next = [cur EXCEPT !.list = l]
    BY DEF SInv, TypeOK, PutTemplates, Begin
  <2>4. put'[r].kind = "templates"
    BY DEF SInv, TypeOK, PutTemplates, Begin
  <2> QED BY <2>1, <2>2, <2>3, <2>4 DEF SInv, TypeOK, Settings, OtherHalf
<1> QED BY <1>1, <1>2, <1>3, <1>4, <1>5, <1>6, <1>7, <1>8 DEF SInv

\* Normalizing a copy leaves the half that was in order alone.
LEMMA StoreInv ==
  ASSUME SInv, NEW r \in Puts, Store(r)
  PROVE  SInv'
<1>1. TypeOK'
  <2>1. put[r].next \in Settings
    BY DEF SInv, TypeOK, Put
  <2>2. [put[r].next EXCEPT !.conf = Normal(@)] \in Settings
    BY <2>1, NormalFacts DEF Settings
  <2>3. TypeOK /\ cur' \in Settings
    BY <2>2 DEF SInv, Store
  <2>4. put' \in [Puts -> Put]
    <3>1. put[r] \in Put /\ put \in [Puts -> Put]
      BY DEF SInv, TypeOK
    <3>2. [put[r] EXCEPT !.pc = "save", !.next = cur'] \in Put
      BY <2>3, <3>1 DEF Put
    <3>3. put' = [put EXCEPT ![r] = [put[r] EXCEPT !.pc = "save", !.next = cur']]
      BY <3>1 DEF Store
    <3> QED BY <3>1, <3>2, <3>3
  <2> QED BY <2>3, <2>4 DEF TypeOK, Store
<1>2. SavedInOrder'
  BY DEF SInv, TypeOK, Put, SavedInOrder, Store
<1>3. NextInOrder'
  <2>1. put[r].next \in Settings
    BY DEF SInv, TypeOK, Put
  <2>2. InOrder(put'[r].next.conf)
    BY <2>1, NormalFacts DEF SInv, TypeOK, Settings, Store
  <2> QED BY <2>2 DEF SInv, TypeOK, Put, NextInOrder, Store
<1>4. LoneIsAlone'
  BY DEF SInv, TypeOK, Put, LoneIsAlone, Active, Store
<1>5. OthersOverlap'
  BY DEF SInv, TypeOK, Put, OthersOverlap, Active, Store
<1>6. LoneProgress'
  BY DEF SInv, TypeOK, Put, LoneProgress, LoneIsAlone, Copies, Active, Store
<1>7. SyncedBefore'
  BY DEF SInv, TypeOK, Put, SyncedBefore, InSync, Stored, Store
<1>8. LoneEdits'
  <2> SUFFICES ASSUME NEW q \in lone, cause = {}
               PROVE  /\ OtherHalf(put'[q].kind, put'[q].next) = OtherHalf(put'[q].kind, cur')
                      /\ OtherHalf(put'[q].kind, put'[q].next) = OtherHalf(put'[q].kind, Stored)
    BY DEF LoneEdits, Store, Stored
  <2>1. q = r
    BY DEF SInv, TypeOK, LoneIsAlone, Active, Store
  <2> DEFINE next == [put[r].next EXCEPT !.conf = Normal(@)]
  <2>2. put[r].next \in Settings
    BY DEF SInv, TypeOK, Put
  <2>3. next.list = put[r].next.list /\ Normal(next.conf) = Normal(put[r].next.conf)
    BY <2>2, NormalFacts DEF Settings
  <2>4. put'[r].next = next /\ cur' = next /\ put'[r].kind = put[r].kind
    BY DEF SInv, TypeOK, Put, Store
  <2>5. OtherHalf(put[r].kind, put[r].next) = OtherHalf(put[r].kind, Stored)
    BY <2>1 DEF SInv, LoneEdits
  <2> HIDE DEF next
  <2> QED BY <2>1, <2>3, <2>4, <2>5 DEF OtherHalf
<1> QED BY <1>1, <1>2, <1>3, <1>4, <1>5, <1>6, <1>7, <1>8 DEF SInv

\* The ConfigMap takes the settings the store has.
LEMMA SaveUpdateInv ==
  ASSUME SInv, NEW r \in Puts, SaveUpdate(r)
  PROVE  SInv'
<1>1. TypeOK'
  BY DEF SInv, TypeOK, Put, SaveUpdate
<1>2. SavedInOrder'
  BY DEF SInv, TypeOK, Put, SavedInOrder, NextInOrder, InOrder, SaveUpdate
<1>3. NextInOrder'
  BY DEF SInv, TypeOK, Put, NextInOrder, InOrder, SaveUpdate
<1>4. LoneIsAlone'
  BY DEF SInv, TypeOK, Put, LoneIsAlone, Active, SaveUpdate
<1>5. OthersOverlap'
  BY DEF SInv, TypeOK, Put, OthersOverlap, Active, SaveUpdate
<1>6. LoneProgress'
  BY DEF SInv, TypeOK, Put, LoneProgress, LoneIsAlone, Copies, Active,
         SaveUpdate
<1>7. SyncedBefore'
  BY DEF SInv, TypeOK, Put, SyncedBefore, InSync, Stored, SaveUpdate
<1>8. LoneEdits'
  BY SettingsAssumption, NoneAssumption, SeedFacts, NormalFacts DEF SInv,
         TypeOK, Put, LoneEdits, LoneIsAlone, OtherHalf, Stored, Active,
         SaveUpdate
<1> QED BY <1>1, <1>2, <1>3, <1>4, <1>5, <1>6, <1>7, <1>8 DEF SInv

\* The first save of all.
LEMMA SaveCreateInv ==
  ASSUME SInv, NEW r \in Puts, SaveCreate(r)
  PROVE  SInv'
<1>1. TypeOK'
  BY DEF SInv, TypeOK, Put, SaveCreate
<1>2. SavedInOrder'
  BY DEF SInv, TypeOK, Put, SavedInOrder, NextInOrder, InOrder, SaveCreate
<1>3. NextInOrder'
  BY DEF SInv, TypeOK, Put, NextInOrder, InOrder, SaveCreate
<1>4. LoneIsAlone'
  BY DEF SInv, TypeOK, Put, LoneIsAlone, Active, SaveCreate
<1>5. OthersOverlap'
  BY DEF SInv, TypeOK, Put, OthersOverlap, Active, SaveCreate
<1>6. LoneProgress'
  BY DEF SInv, TypeOK, Put, LoneProgress, LoneIsAlone, Copies, Active,
         SaveCreate
<1>7. SyncedBefore'
  BY DEF SInv, TypeOK, Put, SyncedBefore, InSync, Stored, SaveCreate
<1>8. LoneEdits'
  BY DEF SInv, TypeOK, Put, LoneEdits, LoneIsAlone, OtherHalf, Stored, Active,
         SaveCreate
<1> QED BY <1>1, <1>2, <1>3, <1>4, <1>5, <1>6, <1>7, <1>8 DEF SInv

\* A failed save goes on record.
LEMMA SaveFailsInv ==
  ASSUME SInv, NEW r \in Puts, SaveFails(r)
  PROVE  SInv'
<1>1. TypeOK'
  BY SettingsAssumption, NoneAssumption, SeedFacts, NormalFacts DEF SInv,
         TypeOK, Put, IdlePut, SaveFails
<1>2. SavedInOrder'
  BY SettingsAssumption, NoneAssumption, SeedFacts, NormalFacts DEF SInv,
         TypeOK, Put, SavedInOrder, NextInOrder, InOrder, IdlePut, SaveFails
<1>3. NextInOrder'
  BY DEF SInv, TypeOK, Put, NextInOrder, InOrder, IdlePut, SaveFails
<1>4. LoneIsAlone'
  BY DEF SInv, TypeOK, Put, LoneIsAlone, Active, IdlePut, SaveFails
<1>5. OthersOverlap'
  BY DEF SInv, TypeOK, Put, OthersOverlap, Active, IdlePut, SaveFails
<1>6. LoneProgress'
  BY DEF SInv, TypeOK, Put, LoneProgress, LoneIsAlone, Copies, Active,
         IdlePut, SaveFails
<1>7. SyncedBefore'
  BY DEF SInv, TypeOK, Put, SyncedBefore, InSync, Stored, IdlePut, SaveFails
<1>8. LoneEdits'
  BY DEF SInv, TypeOK, Put, LoneEdits, OtherHalf, Stored, IdlePut, SaveFails
<1> QED BY <1>1, <1>2, <1>3, <1>4, <1>5, <1>6, <1>7, <1>8 DEF SInv

\* The registry follows what was saved.
LEMMA ApplyRegistryInv ==
  ASSUME SInv, NEW r \in Puts, ApplyRegistry(r)
  PROVE  SInv'
<1>1. TypeOK'
  <2>1. put[r].next.list \in Lists \cup {NoList}
    BY DEF SInv, TypeOK, Put, Settings
  <2> QED BY <2>1 DEF SInv, TypeOK, Put, ApplyRegistry
<1>2. SavedInOrder'
  BY DEF SInv, TypeOK, Put, SavedInOrder, ApplyRegistry
<1>3. NextInOrder'
  BY DEF SInv, TypeOK, Put, NextInOrder, InOrder, ApplyRegistry
<1>4. LoneIsAlone'
  BY DEF SInv, TypeOK, Put, LoneIsAlone, Active, ApplyRegistry
<1>5. OthersOverlap'
  BY DEF SInv, TypeOK, Put, OthersOverlap, Active, ApplyRegistry
<1>6. LoneProgress'
  BY DEF SInv, TypeOK, Put, LoneProgress, LoneIsAlone, Copies, Active,
         ApplyRegistry
<1>7. SyncedBefore'
  BY DEF SInv, TypeOK, Put, SyncedBefore, InSync, Stored, ApplyRegistry
<1>8. LoneEdits'
  BY DEF SInv, TypeOK, Put, LoneEdits, OtherHalf, Stored, ApplyRegistry
<1> QED BY <1>1, <1>2, <1>3, <1>4, <1>5, <1>6, <1>7, <1>8 DEF SInv

\* The end of a lone PUT: all copies agree.
LEMMA ApplyDefaultsInv ==
  ASSUME SInv, NEW r \in Puts, ApplyDefaults(r)
  PROVE  SInv'
<1>1. TypeOK'
  <2>1. put[r].next.conf.image \in Images
    BY DEF SInv, TypeOK, Put, Settings, Conf
  <2>2. IdlePut \in Put
    BY SeedFacts DEF IdlePut, Put
  <2> QED BY <2>1, <2>2 DEF SInv, TypeOK, ApplyDefaults
<1>2. SavedInOrder'
  BY DEF SInv, TypeOK, Put, SavedInOrder, IdlePut, ApplyDefaults
<1>3. NextInOrder'
  BY DEF SInv, TypeOK, Put, NextInOrder, InOrder, IdlePut, ApplyDefaults
<1>4. LoneIsAlone'
  BY DEF SInv, TypeOK, Put, LoneIsAlone, Active, IdlePut, ApplyDefaults
<1>5. OthersOverlap'
  BY DEF SInv, TypeOK, Put, OthersOverlap, LoneIsAlone, Active, IdlePut,
         ApplyDefaults
<1>6. LoneProgress'
  BY DEF SInv, TypeOK, Put, LoneProgress, Copies, IdlePut, ApplyDefaults
<1>7. SyncedBefore'
  BY SettingsAssumption, NoneAssumption, SeedFacts, NormalFacts DEF SInv,
         TypeOK, Put, SyncedBefore, LoneIsAlone, OthersOverlap, LoneProgress,
         InSync, Stored, Active, Copies, IdlePut, ApplyDefaults
<1>8. LoneEdits'
  BY DEF SInv, TypeOK, Put, LoneEdits, LoneIsAlone, OtherHalf, Stored, Active,
         IdlePut, ApplyDefaults
<1> QED BY <1>1, <1>2, <1>3, <1>4, <1>5, <1>6, <1>7, <1>8 DEF SInv

\* A start from the ConfigMap makes all copies agree.
LEMMA RestartInv ==
  ASSUME SInv, Restart
  PROVE  SInv'
<1>1. TypeOK'
  <2>1. Stored \in Settings /\ Stored.conf.image \in Images
    BY StoredFacts DEF SInv, Settings, Conf
  <2>2. IdlePut \in Put
    BY SeedFacts DEF IdlePut, Put
  <2>3. Stored.list \in Lists \cup {NoList}
    BY <2>1 DEF Settings
  <2> QED BY <2>1, <2>2, <2>3, SeedFacts DEF SInv, TypeOK, Restart, Boot
<1>2. SavedInOrder'
  BY DEF SInv, TypeOK, Put, SavedInOrder, Boot, IdlePut, Stored, Restart
<1>3. NextInOrder'
  BY DEF SInv, TypeOK, Put, NextInOrder, InOrder, Boot, IdlePut, Stored,
         Restart
<1>4. LoneIsAlone'
  BY DEF SInv, TypeOK, Put, LoneIsAlone, Active, Boot, IdlePut, Stored,
         Restart
<1>5. OthersOverlap'
  BY DEF SInv, TypeOK, Put, OthersOverlap, Active, Boot, IdlePut, Stored,
         Restart
<1>6. LoneProgress'
  BY DEF SInv, TypeOK, Put, LoneProgress, Copies, Boot, IdlePut, Stored,
         Restart
<1>7. SyncedBefore'
  BY DEF SInv, TypeOK, Put, SyncedBefore, InSync, Stored, Boot, IdlePut,
         Restart
<1>8. LoneEdits'
  BY DEF SInv, TypeOK, Put, LoneEdits, OtherHalf, Stored, Boot, IdlePut,
         Restart
<1> QED BY <1>1, <1>2, <1>3, <1>4, <1>5, <1>6, <1>7, <1>8 DEF SInv

\* A start without it goes on record.
LEMMA RestartUnreadInv ==
  ASSUME SInv, RestartUnread
  PROVE  SInv'
<1>1. TypeOK'
  <2>1. SeedSettings \in Settings /\ SeedSettings.conf.image \in Images
    BY SeedFacts DEF Settings, Conf
  <2>2. IdlePut \in Put
    BY SeedFacts DEF IdlePut, Put
  <2>3. SeedSettings.list \in Lists \cup {NoList}
    BY <2>1 DEF Settings
  <2> QED BY <2>1, <2>2, <2>3, SeedFacts DEF SInv, TypeOK, RestartUnread, Boot
<1>2. SavedInOrder'
  BY DEF SInv, TypeOK, Put, SavedInOrder, Boot, IdlePut, RestartUnread
<1>3. NextInOrder'
  BY DEF SInv, TypeOK, Put, NextInOrder, InOrder, Boot, IdlePut, RestartUnread
<1>4. LoneIsAlone'
  BY DEF SInv, TypeOK, Put, LoneIsAlone, Active, Boot, IdlePut, RestartUnread
<1>5. OthersOverlap'
  BY DEF SInv, TypeOK, Put, OthersOverlap, Active, Boot, IdlePut,
         RestartUnread
<1>6. LoneProgress'
  BY DEF SInv, TypeOK, Put, LoneProgress, Copies, Boot, IdlePut, RestartUnread
<1>7. SyncedBefore'
  BY DEF SInv, TypeOK, Put, SyncedBefore, InSync, Stored, Boot, IdlePut,
         RestartUnread
<1>8. LoneEdits'
  BY DEF SInv, TypeOK, Put, LoneEdits, OtherHalf, Stored, Boot, IdlePut,
         RestartUnread
<1> QED BY <1>1, <1>2, <1>3, <1>4, <1>5, <1>6, <1>7, <1>8 DEF SInv

\* boxlyd starts with the environment's config and no ConfigMap.
LEMMA InitInv == Init => SInv
<1> SUFFICES ASSUME Init PROVE SInv
  OBVIOUS
<1>1. TypeOK
  BY SeedFacts DEF Init, TypeOK, IdlePut, Put, SeedSettings, Settings
<1>2. InSync
  BY DEF Init, InSync, Stored, SeedSettings
<1> QED BY <1>1, <1>2
        DEF Init, SInv, SavedInOrder, NextInOrder, LoneIsAlone, OthersOverlap,
            LoneProgress, SyncedBefore, LoneEdits, Active, IdlePut

\* So does a step that changes nothing.
LEMMA StutterInv == SInv /\ UNCHANGED vars => SInv'
BY DEF vars, SInv, TypeOK, SavedInOrder, NextInOrder, LoneIsAlone, OthersOverlap,
       LoneProgress, SyncedBefore, LoneEdits, Active, Copies, InSync, Stored

\* Every step keeps the invariant.
LEMMA NextInv == SInv /\ [Next]_vars => SInv'
<1> SUFFICES ASSUME SInv, [Next]_vars PROVE SInv'
  OBVIOUS
<1>1. ASSUME NEW r \in Puts, Handler(r) PROVE SInv'
  BY <1>1, PutConfigInv, PutTemplatesInv, StoreInv, SaveUpdateInv, SaveCreateInv,
     SaveFailsInv, ApplyRegistryInv, ApplyDefaultsInv DEF Handler
<1> QED BY <1>1, StutterInv, RestartInv, RestartUnreadInv DEF Next

\* The invariant holds in every reachable state.
THEOREM SettingsInvariant == Spec => []SInv
<1> QED BY InitInv, NextInv, PTL DEF Spec

\* No input gets pool bounds that are out of order into the ConfigMap.
THEOREM SavedInOrderHolds == Spec => []SavedInOrder
<1>1. SInv => SavedInOrder
  BY DEF SInv
<1> QED BY <1>1, SettingsInvariant, PTL

\* When nothing is in progress and nothing went wrong, the copies agree.
THEOREM SettledInSyncHolds == Spec => []SettledInSync
<1>1. SInv => SettledInSync
  BY DEF SInv, SyncedBefore, InSync, SettledInSync, Idle
<1> QED BY <1>1, SettingsInvariant, PTL

\* Saving is the only thing that changes the ConfigMap.
LEMMA SavesOnly ==
  ASSUME SInv, NEW r \in Puts, Handler(r), saved' # saved
  PROVE  saved' = put[r].next /\ put[r].pc \in {"save", "create"}
BY DEF Handler, PutConfig, PutTemplates, Begin, Store, SaveUpdate, SaveCreate,
       SaveFails, ApplyRegistry, ApplyDefaults

\* A PUT that runs alone, with no trouble before or during it, changes its own
\* half of the settings only, in the store and in the ConfigMap.
THEOREM OtherHalfKeptHolds == Spec => OtherHalfKept
<1> DEFINE Kept == \A r \in lone :
             cause = {} /\ cause' = {} =>
               /\ OtherHalf(put[r].kind, cur') = OtherHalf(put[r].kind, cur)
               /\ OtherHalf(put[r].kind, Stored') = OtherHalf(put[r].kind, Stored)
<1>1. SInv /\ [Next]_vars => [Kept]_vars
  <2> SUFFICES ASSUME SInv, Next, NEW r \in lone, cause = {}, cause' = {}
               PROVE  /\ OtherHalf(put[r].kind, cur') = OtherHalf(put[r].kind, cur)
                      /\ OtherHalf(put[r].kind, Stored') = OtherHalf(put[r].kind, Stored)
    OBVIOUS
  <2>1. /\ r \in Puts /\ Active(r)
        /\ \A q \in Puts : Active(q) => q = r
        /\ OtherHalf(put[r].kind, put[r].next) = OtherHalf(put[r].kind, cur)
        /\ OtherHalf(put[r].kind, put[r].next) = OtherHalf(put[r].kind, Stored)
    BY DEF SInv, TypeOK, LoneIsAlone, LoneEdits
  <2>2. CASE Restart
    BY <2>1, <2>2 DEF Restart, Boot, Stored
  <2>3. CASE RestartUnread
    BY <2>3 DEF RestartUnread, Boot
  <2>4. ASSUME NEW q \in Puts, Handler(q)
        PROVE  /\ OtherHalf(put[r].kind, cur') = OtherHalf(put[r].kind, cur)
               /\ OtherHalf(put[r].kind, Stored') = OtherHalf(put[r].kind, Stored)
    <3>1. CASE Active(q)
      <4>1. q = r
        BY <2>1, <3>1
      <4>2. OtherHalf(put[r].kind, Stored') = OtherHalf(put[r].kind, Stored)
        <5>1. CASE saved' = saved
          BY <5>1 DEF Stored
        <5>2. CASE saved' # saved
          <6>1. saved' = put[r].next /\ saved' # None
            BY <2>4, <4>1, <5>2, SavesOnly, NoneAssumption DEF SInv, TypeOK, Put
          <6> QED BY <2>1, <6>1 DEF Stored
        <5> QED BY <5>1, <5>2
      <4>3. CASE Store(r)
        <5>1. put[r].next \in Settings
          BY <2>1 DEF SInv, TypeOK, Put
        <5>2. cur' = [put[r].next EXCEPT !.conf = Normal(@)]
          BY <4>3 DEF Store
        <5>3. cur'.list = put[r].next.list /\ Normal(cur'.conf) = Normal(put[r].next.conf)
          BY <5>1, <5>2, NormalFacts DEF Settings
        <5> QED BY <2>1, <4>2, <5>3 DEF OtherHalf
      <4>4. CASE ~Store(r)
        <5>1. cur' = cur
          BY <2>4, <4>1, <4>4
             DEF Handler, PutConfig, PutTemplates, Begin, SaveUpdate, SaveCreate,
                 SaveFails, ApplyRegistry, ApplyDefaults
        <5> QED BY <4>2, <5>1
      <4> QED BY <4>3, <4>4
    <3>2. CASE ~Active(q)
      <4>1. cur' = cur /\ saved' = saved
        BY <2>4, <3>2
           DEF Handler, Active, PutConfig, PutTemplates, Begin, Store, SaveUpdate,
               SaveCreate, SaveFails, ApplyRegistry, ApplyDefaults
      <4> QED BY <4>1 DEF Stored
    <3> QED BY <3>1, <3>2
  <2> QED BY <2>2, <2>3, <2>4 DEF Next
<1> QED BY <1>1, SettingsInvariant, PTL DEF Spec, OtherHalfKept

\* The settings, the ConfigMap and the requests are well-formed; what is in
\* force is always a configuration the code can have normalised.
THEOREM SettingsTyped == Spec => []TypeOK
<1>1. SInv => TypeOK
  BY DEF SInv
<1> QED BY SettingsInvariant, <1>1, PTL

=============================================================================
