# boxly in TLA+

Models of boxlyd, the control plane of boxly, checked with TLC on small
instances and proved with TLAPS for all of them.  boxlyd keeps no database:
its state is Kubernetes objects, which several goroutines read, decide about and
write, one API call at a time.  The models have one step per call, so that
everything an actor decides may be out of date when it acts.

## 1. The system

| Component | State it keeps | Operations | Hard behaviours |
|---|---|---|---|
| Disposable boxes (`internal/vm/manager.go`, `exec.go`, `spec.go`) | pods: labels pool, owner, template, ready; annotation expires-at | Create (claim a warm pod or create one, run the setup script), Delete, Get, List | racing claims, lost answers, crash between create and answer, delete after an outdated check |
| Warm pool (`internal/pool/pool.go`) | `preparing`: the pods whose setup is in progress | every 5 s, per template: list, prepare, create, delete surplus | works on listings that users' claims outdate; crash forgets `preparing` |
| Janitor (`internal/janitor`) | none | every 30 s: list expired boxes, delete each | failing deletes, boxes that change between list and delete |
| Persistent boxes (`manager.go`, `spec.go`) | a Deployment and a volume claim of one name | createPersistent, Delete | two calls and no undo |
| Runtime settings (`internal/settings`, `server/admin.go`, `cmd/boxlyd`) | `Store.cur`, a ConfigMap, the template registry, the manager's defaults | PUT config, PUT templates, boot | read, edit, write back; a save that fails halfway; restarts |
| Template registry (`internal/template`) | templates by id | LoadCustom, Get, All | disabled templates with warm boxes |
| Demand tracker (`internal/demand`) | a moving average per template | Record, Tick, Desired | rounding, cut-off, bounds of zero |
| Exec bridge (`internal/server/exec.go`) | a websocket, a pipe, a size queue, a stream | attach | four goroutines that must all end |
| API and auth (`internal/server`, `internal/auth`) | none of its own | token to owner, routes | expiring tokens |
| Dashboard (`internal/tui`) | rows, screen, selections | keys, messages, commands at work | answers in any order, a build that never ends |
| Client (`internal/cli`, `pkg/client`) | a session | commands, ssh | timeouts, lost answers |

How they interact: the API handlers, the reconciler and the janitor call the same
`vm.Manager`, and meet only in the API server's objects.  The handlers record
demand in the tracker, which the reconciler turns into targets, within bounds it
reads from the settings store.  Admin PUTs change the store, and with it the
registry and the manager's defaults.

What makes each part correct:

- boxes: a box goes to one request, keeps its owner until it is gone, is deleted
  for a reason, and does not outlive its TTL for ever;
- warm pool: ready means prepared; the pool neither overshoots nor dries up;
- persistent boxes: a box has its volume; a delete leaves nothing behind;
- settings: what survives a restart is what runs; a PUT edits its own half;
- demand: the target is within its bounds, a pool that is asked for is warm, an idle
  one drains, a disabled one gets nothing;
- dashboard: the selection points to a row, no screen is a dead end, and in the end
  the rows are the server's;
- exec bridge: when one end goes, everything ends; nothing blocks for ever.

`PROJECT.json` lists the components, the hazards with their lines, the runs, the
mutants, the theorems, and for each definition the lines it models.

## 2. Modules

| Module | Models |
|---|---|
| `WarmPool` | disposable boxes, the reconciler with its setup goroutines, the janitor, the kubelet, crashes |
| `BoxLease` | abstract: what is promised about a disposable box |
| `WarmPoolLease` | the refinement mapping from `WarmPool` to `BoxLease` |
| `WarmPoolInv` | the inductive invariant `IInv` |
| `WarmPoolMC` | constants and symmetry for TLC |
| `WarmPoolProofs`, `WarmPoolSafetyProofs`, `WarmPoolLeaseProofs` | type correctness; `IInv` and its consequences; the refinement |
| `PersistentBoxes`, `PersistentBoxesInv`, `PersistentBoxesProofs` | Deployments and their volumes; `BInv`; its proof |
| `SettingsStore`, `SettingsStoreInv`, `SettingsStoreMC`, `SettingsStoreProofs` | the four copies of the settings; `SInv`; constants; its proof |
| `PoolTargets`, `PoolTargetsMC`, `PoolTargetsProofs` | the tracker, the bounds and the reconciler's pass over the templates, composed; constants; the invariant `CInv` and its proof |
| `Dashboard`, `DashboardProofs` | the event loop with its commands, the calls of `pkg/client`; the invariant `DInv` and its proof |
| `ExecSession` | abstract: what the user and the command see of a session |
| `ExecBridge` | a session with its goroutines, wires, pipe and queue, and the mapping to `ExecSession` |
| `ExecBridgeInv`, `ExecBridgeProofs` | the inductive invariant `EInv`; its proof, and that of the refinement |

### WarmPool and the code

| Model | Code |
|---|---|
| `pods` | the pod objects: labels, the one annotation that matters, phase, deletion timestamp |
| `setup` | where `runScript` has run to its end (an effect inside the box) |
| `expired` | whether now is after the expires-at annotation |
| `req[r]` | a goroutine of `handleCreate` or `handleDelete`; `cand` is what is left of `claimWarm`'s list |
| `handed` | history: the answers that named the box |
| `rec` | the local variables of `reconcileTemplate` |
| `prep` | `Reconciler.preparing` and the goroutines: `exec` before the script's end, `patch` before the label |
| `jan` | the ids left in `sweep`'s loop |
| `faults` | whether calls may still fail and boxlyd may crash |

`CreateBegin` is `Create` up to `claimWarm`'s List, `ClaimWins` and
`ClaimConflicts` are the two outcomes of its Update, `ColdCreate` and
`ColdPrepare` the cold path, `Reply` the response.  `Abandon` is every error
return and every client that hangs up, at any point of a request; from `reply` it
loses the answer to a call that was applied.  `DeleteBegin` is Get with
`authorize`, `DeletePod` the delete call.  `ReconcileList` computes from one
listing what the rest of `reconcileTemplate` does: first `ReconcilePrepare` for
each unready running pod, then either `CreateWarm` up to the target or
`DeleteSurplus` for the victims, unready ones first; the two `...Fails` actions
are a failing call, which ends the first loop and not the second.  `PrepareExec`,
`PreparePatch` and `PrepareFails` are `PrepareWarm` in its goroutine.

What is assumed of Kubernetes: Update compares resource versions, and fails with a
conflict if the object changed (a write by the kubelet counts) and with "not found"
if it is gone; Patch and Delete compare nothing; Delete marks the pod, which goes
away later.  No write restores an earlier content of a pod, so comparing contents
is comparing versions.  A pod's phase goes from Pending to Running or Failed;
changes of status only are left out.  `genID` draws 32 random bits: an id is taken
to be new; in the model an id that no object and no goroutine refers to stands
for a new one.  `Desired` is any value of a constant set per template; `expired`
may become true any time after the claim, so every TTL is covered.

A template keeps its script (`Scripted`) and its manifest for the whole behaviour, where
an admin's PUT may change both: after one, boxes prepared with the old script stay ready,
and "prepared" would mean prepared with the script that the goroutine or the request had
read.  `Labelled` are the templates whose free-hand manifest brings the ready label, which
`hardenPod` does not overwrite; their boxes are ready from the start, and
`ReadyMeansPrepared` says nothing of them.  The runs have no such template; the
proofs hold with any.

### PersistentBoxes and the code

`pvc`, `dep` and `pod` are the objects of each box, `req` the handlers.
`CreateVolume`, `CreateDeployment`, `Prepare` and `Reply` are the calls of
`createPersistent`, `DeleteBegin`, `DeleteDeployment`, `DeleteVolume` and `Ack`
those of `Delete` and its answer.  `left` and `acks` are history: what a handler
gave up halfway, and the deletes answered with success.  `Abandon` and `Crash` end
handlers between their calls; a client that hangs up cancels the context of the
handler's calls, so `Abandon` covers it.  Of Kubernetes: a deleted Deployment is
gone at once and its pod is collected later; a volume claim being deleted stays
while a pod uses it; no pod starts without its claim.

### SettingsStore and the code

`cur`, `saved`, `reg` and `image` are the four places settings live in, `put` the
PUT handlers with the copy each of them read and edited.  `Begin` is Get with one
half replaced, `Store` the assignment under the lock, after `normalize`,
`SaveUpdate`, `SaveCreate` and `SaveFails` the saver (a call may be applied and
its answer lost), `ApplyRegistry` and `ApplyDefaults` the apply hook.  `Restart`
and `RestartUnread` are boot, which is sequential and therefore one step.  `lone`
and `cause` are history: the PUT that ran alone so far, and what has happened that
may set the copies apart (`overlap`, `save`, `load`).  A config is reduced to the
bounds and the image, a template list to which templates it has and whether they
are on.

### ExecBridge and the code

| Model | Code |
|---|---|
| `mode` | whether there is a terminal, and whether the command reads its input and exits at its end |
| `ws`, `up`, `down` | the websocket and the frames on it, `Wire` in each direction |
| `cin`, `client`, `typed`, `got`, `win` | the two goroutines of the client's `pump`, how it returned, what went in and came out |
| `pump`, `shut` | the goroutine in `handleExec`: reading, blocked in `stdinW.Write`, or ended; whether `stdinW` is closed |
| `copy`, `taken` | the stream's goroutines: stdin, and what was copied of each output |
| `sizes`, `term` | `sizeCh` and the size the terminal has |
| `handler` | whether `StreamWithContext` has returned |
| `input`, `cmd`, `read`, `eof`, `made` | the command in the box |

`PumpData`, `PumpEof` and `PumpSize` are the branches of the pump's switch,
`PumpEnds` its return with the deferred close of the pipe.  `CopyOut` is
`wsWriter.Write`: the lock makes a frame one step, and an error makes client-go
discard the rest of the output.  `HandlerCloses` is the end of `handleExec`, and
`ClientClosed` what `pump` makes of it: the client's stdin goroutine may run into
the closed connection first and turn a clean end into an error.  Assumed of
client-go: `StreamWithContext` returns when the command has exited and its
output is copied, or with an error when its own connection breaks, whatever the
error's timing.  `Break` is any loss of the websocket that either side notices;
the code sends no keepalives, and a loss that nobody notices is not modelled.  A
chunk is one frame; frames of an unknown kind and messages that do not parse are
skipped by the code and left out.

### PoolTargets and the code

`WarmPool` takes targets as given and has every box; `PoolTargets` is where targets
come from, and a pool is a number.  The two share the reconciler.

| Model | Code |
|---|---|
| `conf`, `reg` | `Store.cur` and the template registry; how they part is in `SettingsStore`, so they change one by one here |
| `pending`, `ewma` | the tracker's two maps; an absent key is zero |
| `warm` | how many pods `ListWarm` finds for each template |
| `pass`, `todo` | the local variables of `reconcile` and `reconcileTemplate`, and what is left of the copy that `template.All` returned |
| `stale`, `calm` | history: whether the bounds changed or a pass left something undone; whether users, admins and failures have stopped |

`Begin` is `Store.Get`, `SetDecay` and `Tick` in one step: a PUT between them is taken
to come after them, where the code may use its decay one pass earlier;
`ListTemplates` the copy, `ListWarm` the start of `reconcileTemplate`, with
`Desired`; then `CreateWarm` up to the target or `DeleteWarm` for the victims, and
`TemplateDone`; the `...Fails` actions are failing calls, of which a listing ends the
template, a create the creations, and a delete nothing.  `Taken` is a claim, or a
pod that goes for another reason.  `Restart` forgets the demand and comes up with
some settings; the environment's (`Env`) are not normalized, an admin's are.
The tracker ignores decays that are not strictly between zero and one, so those are
left out.  Averages are multiples of `1/Unit`, rounded up, where the code has floats.
Rounding up keeps an average alive a little longer, or for ever if the decay is close
to one for the `Unit`, which decays of 1/2 and 1/4 are not; the proofs hold for any
`Unit` and decay.  Unlike `WarmPool` this module counts
a pod being deleted as gone, and does not look at its phase.

### Dashboard and the code

| Model | Code |
|---|---|
| `boxes`, `cursor`, `mode`, `tmpls`, `pcur` | the fields of `model` that transitions read |
| `timer` | the tick that is pending |
| `shell` | the subprocess of `tea.ExecProcess`; the loop stands still meanwhile |
| `flight` | the goroutines of commands, and the messages they offer to the loop |
| `world` | which boxes the server has |
| `calm` | whether the user, other clients and failures have stopped |

`Loaded`, `TemplatesLoaded`, `Created`, `Failed`, `Finished` and `Tick` are the
branches of `Update`, `OpenShell` and `ShellEnds` the two ends of `ExecProcess`;
`UpdateList`, `MovePick`, `Turn` and `Launch` are the keys of each screen.  The
`Answer...` and `Poll...` actions are the commands' calls; `CallFails` is any
error of `do`, the 180 s timeout included, whether the call had taken effect or
not.  Each message is one step, and so is each call.  A message may be handled any
time after its call, before or after others.  `meMsg`, the spinner and the axe only
change what is drawn and are left out, with the status line; so are the kind and name
typed in the dialogs.  A list is one step, although the code lists sandboxes and then
persistent boxes.  Quitting is immediate.

## 3. Properties and runs

| Run | Instance | Shows |
|---|---|---|
| `WarmPoolRace` | 2 boxes, 2 users, 2 requests, target 1, no script | `OneTaker`, `TakenByOwner`, `ClaimIsFinal`, and that the whole implements `BoxLease` |
| `WarmPoolChurn` | 2 boxes, 2 users, 1 request, target 0 or 1, script, evictions | `IInv` (with `TypeOK`), `TakenIsClaimed`, `ReadyMeansPrepared`, `WarmWithinTarget`, `DeletedForCause` |
| `WarmPoolLive` | 2 boxes, 1 user, 1 request, target 1, faults that stop | `ClaimedBoxEnds`, `PoolSettles` |
| `PersistentBoxes` | 2 boxes, 2 users, 3 requests | `BInv`, `DeploymentHasVolume`, `OrphansAreAbandoned`, `OneDeleteAcked`, `DeletedByOwner`, `KeepsRunning`, `AckedDeleteEnds` |
| `SettingsStore` | 2 PUTs, 2 configs, 2 lists, failing loads | `SavedInOrder`, `SettledInSync`, `OtherHalfKept` |
| `ExecBridge` | 2 chunks of input, 1 on each output, 2 sizes, every buffer of capacity 1 | `EInv` (with `TypeOK`), `SessionIsFaithful` (it implements `ExecSession`), `CommandEndsSession`, `OutputArrives`, `InputArrives`, `SocketEndsStream` |
| `PoolTargets` | 2 templates, one in demand and at times disabled, the other with a floor above its ceiling; a config without ceiling and one with a ceiling of 1; decays 1/2 and 1/4, `Unit` 40, 2 requests per interval | `CeilingKept`, `PoolWithinDemand`, `DisabledNotWarmed`, `IdlePoolDrains`, `SteadyDemandWarms` |
| `Dashboard` | 2 boxes, 2 commands in flight, no box types or 2 | `SelectionInRange`, `BuildHasCreate`, `DashboardSettles`, `BuildEnds`, `CreatedBoxOpens` |

Four runs end in a counterexample on purpose; each shows that a comment in the
code says more than the code does.

| Run | Comment | Counterexample |
|---|---|---|
| `WarmPoolSurplus` | "removes a surplus warm pod" | list, claim by a user, delete by name: a box its user was just given |
| `WarmPoolEvicted` | "keep one always-warm" | an evicted warm pod counts as live for ever |
| `PersistentBoxesOrphan` | "removes a VM and any backing PVC" | delete ends halfway, the retry finds no box |
| `SettingsStoreWiped` | config "excludes templates"; settings "survive restarts" | load fails at boot, one PUT of the config empties the saved templates |

`ConfigKeepsTemplates` is also violated, without a failed load, by two PUTs that
overlap: each writes the whole of what it read.  `OtherHalfKept` is what remains
true.

Other comments that say more than the code does, seen while modelling
(`PROJECT.json` quotes them under "findings"):

- the pool may run a setup script in a box that was claimed since the listing: a second
  pass lists the pod before it is labelled, and comes to `prepareAsync` after its claim;
- a manifest that brings the ready label makes boxes ready without their script:
  `ReadyMeansPrepared` leaves such templates (`Labelled`) out;
- a pool ceiling of zero, or below, is none, so `CeilingKept` is stated for positive
  ones;
- with a decay above 0.95 one request per interval is forgotten each time, so
  `SteadyDemandWarms` holds up to there;
- the exec stream is tied to nothing: a command that does not read its input outlives
  the websocket, so `SocketEndsStream` is stated for those that read;
- a disabled template keeps the warm boxes it has, and they can be claimed:
  `DisabledNotWarmed` is what remains true;
- `createBox` does not wait longer than two minutes for a box to run; `BuildEnds` and
  `CreatedBoxOpens` rest on that;
- an error of another command leaves the build screen while the create is at work;
  the shell opens later all the same (`CreatedBoxOpens`).

Why the bounds are enough for what they show.  Two requests race for a box and two
boxes let the loser go on to another, or to the cold path; two users tell whose
box it is.  A target of one makes the reconciler create whenever a box is claimed or
fails to come; no box ever comes back to a pool, so surplus to delete takes a target
that falls, and one that moves between zero and one gives it.  Every
crash is possible at every point, so one process suffices.  Two PUTs overlap in
all ways.  Boxes, users and requests are symmetric in the two safety runs of
`WarmPool`; liveness runs use no symmetry.  Deadlock is checked in every run but `Dashboard`, where the
user may quit.
In `ExecBridge` a capacity of one makes every buffer fill up, and two sizes are
one more than the queue holds (the code's holds four).  Its `MaxIn`, `MaxOut` and
`MaxSizes` bound what is typed, written and resized.  In `PoolTargets`, `MaxRequests`
bounds the requests between two passes; two lift an average above a ceiling of one,
and 40 steps per request resolve the cut-off of 1/20.  Both templates' ids are known,
so `Get`'s fallback is only in the proofs.  In `Dashboard`, `MaxBoxes` bounds the
boxes ever created, and `Slots` the commands in flight: two are enough for any answer
to overtake another, and two rows for a selection past the end.  With no slot free
the tick and the keys that start commands wait; commands end, so that is no
restriction in the long run.  In the other modules nothing bounds the length of
behaviours, and the state spaces are finite as they are.

Fairness.  `WarmPool`: the tickers fire, goroutines run on, pods start, terminate
and expire, each template has its turn (`SF` on its listing, since the reconciler
is busy with others in between), and calls stop failing and boxlyd stops crashing
some day (`Recover`); the code has no answer to calls that fail for ever.  Users
and clients have no obligation, and no handler is assumed to go on.
`PersistentBoxes`: the cluster's controllers go on; boxlyd may stop anywhere.
`SettingsStore` has no liveness property.  `PoolTargets`: the ticker fires every five
seconds and each call of a pass ends (`WF` on the reconciler); requests, claims,
admins and failures have no obligation.  `Dashboard`: calls end, by their timeout at
the latest, the poll by its deadline, the timer fires, and a user leaves a shell some
day (`WF`); goroutines that offer a message wait in line, and the loop serves them in
order whenever it is not suspended (`SF`, because shells suspend it in between).  `ExecBridge`: goroutines go on and the
client's terminal takes its output; the user has no obligation, and the command
only where `mode.reads` says that it reads its input and exits at its end, as a
shell does.

The template of `WarmPoolLive` has no setup script, which keeps the run small;
`ReconcilePrepare`, `PreparePatch` and their failures are in it all the same, as
the code goes through them for every unready box.  `PoolSettles` is checked without evictions, because with them it
fails: that is `WarmPoolEvicted`.

`SteadyDemandWarms` says of boxes, not of averages, what demand is worth: where k boxes
are asked for in every interval, k are warm again and again.  Its premise (`Steady`) has
to hold from some point on only: the template is enabled, its ceiling allows k, boxlyd
stays up, and its listings and creates succeed.  Other templates, the bounds and
the decay (up to 0.95) may change all the while, deletes may fail, and boxes be claimed
at any time but during the pass's own work on the template, where each new box could go at
once.  The run has k up to 2 and decays of 1/2 and 1/4.

Each property of a passing run has a mutant of a modelled definition, in the module
next to it, that breaks it: a conflict check that is dropped, a selector that is
too wide, an entry that is never given up, calls in the other order.

## 4. Proofs

All proofs hold for any constants that satisfy the assumptions named in the
modules: finitely many pods; the empty string is no user, template or box; targets
are natural numbers, and there is one for every template, because `Desired` always
returns; configs have integer bounds; the environment sets an image; a wire and the
queue of sizes hold one element at least.

- `WarmPool`.  `OneTaker` is not inductive: that a claim finds nobody else in
  possession takes the fact that what `claimWarm` listed was warm
  (`ListedClaimable`), that Update compares contents, and that a box somebody was
  told of is not warm (`TakenIsClaimed`).  `ReadyMeansPrepared` takes the goroutine
  between script and label into account (`Prepared`), and the reconciler's stale
  listing (`PrepareTemplate`: an id is not reused while somebody works on it).
  `DeletedForCause` takes that an authorization cannot go stale
  (`DeleteAuthorized`): a box's owner changes only from none to somebody, and only
  the admin passes the check of a box without owner.  Together they are `IInv`,
  which is proved inductive (`InvariantHolds`), one step per action; the steps
  that change who holds what have lemmas of their own.

  `WarmWithinTarget` is inductive with `IInv`, with one argument for each side of the
  race between the reconciler and everybody else.  Between two listings nobody but the
  reconciler puts a box into a pool (`PoolShrinks`), so that what it still owes
  (`Owed`) bounds the pool however old its listing is; a listing sets that number
  anew, to what is missing to a target of the moment or to none (`TargetNext`).  It takes an
  element of `Desired` that stays the same while boxes go.

  `BoxesAreLeased` maps each step to one step of `BoxLease` or to none
  (`BoxesAreLeasedHolds`).  Two facts had to be added to `IInv` for it: a box that
  does not exist has no labels left over (`AbsentIsBlank`), or a new one would appear
  with an owner; and a request that claims does it for a user, never for the admin
  scope's empty name, or a grant would have nobody it is for.
- `PersistentBoxes`.  `BInv` adds that at most one handler is between a box's two
  calls (`SoleIsAlone`), because only the one whose delete found the Deployment
  goes on to the volume; from it follow `DeploymentHasVolume` and
  `OneDeleteAcked`.
- `SettingsStore`.  `SInv` follows one PUT that runs alone from store to
  ConfigMap to registry (`LoneProgress`) and says that the copies agree up to the
  first store of a PUT (`SyncedBefore`).
- `PoolTargets`.  `PoolWithinDemand` rests on arithmetic lemmas (a weighted mean of
  numbers within a bound, rounded up, is within it: `FoldedBound`, `DesiredBound`)
  and on the target of the pass being within the bounds of some config and some
  registry (`GoalFits`, `ReadBounds`).  `CeilingKept` takes that, unless something
  changed since, what the pass read is what is in force (`ReadInForce`), that the
  template at hand ends at a target within its ceiling (`WorkInForce`), and that those
  done before stay there (`PassedKept`): claims only lower a pool.  Together they are
  `CInv`.
- `Dashboard`.  `DInv` is the three invariants, which are inductive together: the
  selection is in range because every message that replaces rows brings the cursor
  with it, and the build screen keeps its create because only the message that a
  create turns into ends one, and that message goes back to the list.

- `ExecBridge`.  A refinement of order and completeness needs to know what is in
  every buffer.  `EInv` says it with one predicate, `Numbered`: the frames of a kind
  in a queue are numbered from one number to another, in this order.  On the way in,
  the chunks read, those in the command's input, in the stream's goroutine, in the
  pump and on the wire follow each other without a gap up to what was typed
  (`InputInOrder`), as long as what feeds a place has not given up; the end of input
  travels behind the last chunk, and the pipe is closed early only when the session is
  already cut (`EndInOrder`).  On the way out, the wire of each stream starts after
  what was shown and reaches what was taken from the command, or stops short of it
  once the connection is gone (`OutputInOrder`); the close frame is the last one, and
  a normal one means that all was taken (`CloseComesLast`), which the client that
  reports success has then shown (`CleanEnd`, `SuccessIsComplete`).  The lemmas about
  `Numbered` under Append and Tail carry the proof of `ExecInvariant`, one step per
  action; `SessionIsFaithfulHolds` then reads off `EInv` that each step is one of
  `ExecSession`, or none.  The output shown is counted with a cardinality, which the
  library's lemmas are about.

Every invariant, action property and refinement the runs check is proved.  Only
model-checked is all liveness, which is out of the prover's reach: `ClaimedBoxEnds`,
`PoolSettles`, `KeepsRunning`, `AckedDeleteEnds`, `IdlePoolDrains`,
`SteadyDemandWarms`, `DashboardSettles`, `BuildEnds`, `CreatedBoxOpens`,
`CommandEndsSession`, `OutputArrives`, `InputArrives` and `SocketEndsStream`.

## 5. Not modelled

The pages and the read-only views; names, images, resources and security contexts of
pods (`hardenPod` and the converters are functions without state, of which `NewPod` has
the labels and marks); the Secret of
`ApplyPullSecret`; users and TTLs in the settings; token resolution; the wizard and
the subcommands of the client; `Upsert` and `Remove` of the registry, which nothing
calls; several boxlyd processes (the repository asks for a single replica).

Seen while modelling the exec bridge, where no comment says otherwise: the pump
can stay blocked in the pipe after the stream has ended; the goroutine that waits
in `sizeQueue.Next` stays for good, as nothing closes `sizeCh`; the newest size is
the one dropped from a full queue; a connection that breaks looks to the command
like the end of its input; a command that exits with an error ends the session
like a failure of the stream.
`SetDefaults` ignores an empty image, so clearing it takes effect at the next
start: `SettledInSync` says "unless empty" for that reason.

## 6. Plan

Done, the most important behaviour first: `WarmPool` with its abstract specification,
`PersistentBoxes`, `SettingsStore`, `ExecBridge` with its abstract specification,
`PoolTargets`, which composes demand, settings, registry and reconciler, and
`Dashboard`; for each an inductive invariant and its proof, and the proofs of both
refinements.

Left: the safety facts that the liveness properties rest on, as theorems; a proof that
what `WarmPool` does to the number of boxes of a pool is what `PoolTargets` allows,
where the two modules share the reconciler.
