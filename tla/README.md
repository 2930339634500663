# Vue 2.7: a verification project

TLA+ models of the runtime of Vue 2.7, its template compiler and its server
renderer, checked by TLC on small instances, with theorems about dependency
tracking, the update scheduler, `watch()` and effect scopes, the reconciliation
of children, async components and transitions proved by TLAPS for all instances. The
repository is an annotated reading copy of Vue 2.7; paths below are relative to its root (`src/core/...` is the runtime, `test/unit/...` its tests).

Contents: [1 Inventory](#1-inventory) ·
[2 Modules and code](#2-modules-and-code) ·
[3 Runs](#3-runs) ·
[4 Bounds](#4-bounds-and-restrictions) ·
[5 Fairness](#5-fairness) ·
[6 Proofs](#6-proofs) ·
[7 Disagreements](#7-where-the-code-and-its-texts-disagree) ·
[8 Not modelled](#8-what-is-not-modelled) ·
[9 Plan](#9-plan)

## 1 Inventory

JavaScript runs one job at a time, so nothing is preempted. What makes the
runtime hard is **reentrancy** and **deferral**: almost every step of the
engine calls user code (getters, hooks, callbacks, cleanups, emitted handlers)
that calls back into the same engine before it returns, and most effects are
not applied where they are caused but queued, and applied when the data they
were computed from may have changed. The models put an action boundary at every
call into user code and keep the call stack, or the part of it that matters, in
the state. Where a call into user code can only do one of a few things
(Instances, Options) or where the code is an algorithm (the compilers), it is
written as operators instead, with what the user does as a constant.

| Component | Code | State it keeps | Operations | Hard because |
|---|---|---|---|---|
| Scheduler | `src/core/observer/scheduler.ts` | `queue`, `has`, `circular`, `waiting`, `flushing`, `index`, `activatedChildren` | `queueWatcher`, `flushSchedulerQueue`, `queueActivatedComponent`, the hooks after the flush | watchers are spliced into the array the flush is walking; flags must stand for a flush that exists; exceptions skip the reset |
| nextTick | `src/core/util/next-tick.ts` | `callbacks`, `pending` | `nextTick`, `flushCallbacks` | callbacks register callbacks; the flush is one of them, so order between them is a promise to the user |
| Dependency tracking | `src/core/observer/dep.ts`, `watcher.ts`, `instance/state.ts`, `v3/reactivity/computed.ts` | subscriber lists with holes, `deps`/`newDeps`, `dirty`, values, the target stack | `depend`, `notify`, `addDep`, `cleanupDeps`, `evaluate`, `run`, `teardown`, `cleanupDeps` of the list | nested evaluations, dependencies that change with the data, caches, sync watchers inside a notification |
| watch, watchEffect | `src/v3/apiWatch.ts` | `oldValue`, `cleanup`, `_preWatchers`, handlers of `hook:mounted` | creation, run, `onCleanup`, stop, mount, destroy | three flush timings across the life of a component, cleanups that run user code, re-entered runs |
| Children reconciliation | `updateChildren` in `src/core/vdom/patch.ts`, `platforms/web/runtime/components/transition-group.ts` | four indices, the key map, the holes in the old list, the document | the branches of the loop, adding and removing the rest, two-pass patches | positions are found through nodes that may be moving, leaving, or gone |
| keep-alive and activation | `src/core/components/keep-alive.ts`, `vdom/create-component.ts`, `instance/lifecycle.ts` | `cache`, `keys`, `vnodeToCache`, `_inactive`, `_directInactive`, `$children` | render, `cacheVNode`, `pruneCacheEntry`, `(de)activateChildComponent`, `$destroy` | rendering, patching, pruning, activation and caching of one change happen at four moments of a flush |
| Effect scopes | `src/v3/reactivity/effectScope.ts` | tree of scopes, effects, cleanups, indices | construction, `run`, `stop`, `onScopeDispose` | functions called by a stop write, trigger and stop other scopes; lists are walked to a length read before |
| Observers, refs, reactive | `observer/index.ts`, `array.ts`, `traverse.ts`, `v3/reactivity/ref.ts`, `reactive.ts`, `readonly.ts` | `__ob__`, child observers, proxies | observe, `set`, `del`, array methods, traversal | the deps of an object and of its property are two; keys that come and go |
| Async components | `vdom/helpers/resolve-async-component.ts`, `v3/apiAsyncComponent.ts` | `owners`, `resolved`, `error`, `loading`, timers, `pendingRequest` | resolve, reject, delay, timeout, retry | timers race answers; several owners share a factory |
| Instances, patch, hydration | `instance/*`, `vdom/patch.ts`, `vdom/create-component.ts`, `vdom/modules/*` | instance fields, `$children`, `_vnode`, `$el`, `$refs`, queues of insert hooks | mount, hydrate, patch, replace a root, destroy | hooks of children call back into the parent's patch; a placeholder and a root share an element |
| Options, constructors | `util/options.ts`, `global-api/*`, `instance/init.ts` | `options`, `superOptions`, `extendOptions`, `sealedOptions` | `extend`, `mixin`, `resolveConstructorOptions` | options of a constructor change after others were derived from it |
| Transitions (enter and leave) | `platforms/web/runtime/modules/transition.ts`, `components/transition.ts`, `directives/show.ts` | `_enterCb`, `_leaveCb`, `_pending`, `_leaving`, classes | enter, leave, cancel, next frame, end events | toggled before the next frame or before the end |
| v-model | `platforms/web/*/directives/model.ts`, `runtime/modules/dom-props.ts` | `composing`, `_value`, `_vOptions`, `_vModifiers` | bind, input, composition, change, render | the user types between an assignment and its render |
| Template compiler | `src/compiler` | parser stack, AST, static trees, code | parse, optimize, generate, the render helpers | each optimization must leave what is shown as it was |
| Server renderer | `packages/server-renderer/src` | render stack, component cache, write buffers | `next`, `renderNode`, caching, stream | nested caching, pauses, several requests over one cache |
| Events | `instance/events.ts`, `vdom/helpers/update-listeners.ts` | `_events`, invokers | `$on`, `$once`, `$off`, `$emit` | handlers change the list being walked |
| SFC compiler, builds, DOM attribute modules | `packages/compiler-sfc`, `scripts`, `platforms/web/runtime/modules` | – | source to source; write what a vnode says | string work without interaction |

How they interact. A write to a property calls `Dep.notify`, which marks
computed properties dirty, runs sync watchers at once and hands the others to
`queueWatcher`; that asks `nextTick` for one flush. The flush runs watchers in
the order of their ids; a render watcher's run renders and patches its
component, which goes through `updateChildren` and the hooks of component
vnodes, creates and destroys instances (Instances), starts transitions
(Transition), updates form elements (VModel), and may call hooks (user code)
that write again. After the loop the flush activates kept components and calls
`updated`, in which `<keep-alive>` fills its cache. Each module below takes one
of these parts and leaves the choices of its neighbours open: Reactivity and
ApiWatch let the scheduler run any queued watcher next; Scheduler lets any
watcher be triggered at any call into user code; Patch lets any list of children
be rendered next; Instances lets any component change what it renders, and
flushes in the order of ids. What a component renders is the work of the
template compiler (Compiler); which options it has, that of Options. The server
renderer renders the same vnodes without any of this, to a string (SsrRender),
which a client later hydrates (Instances).

What makes the parts correct, and is stated as properties: no trigger is lost
and none is answered twice; flags mean what they say; a `nextTick` callback sees
the updates before it; subscriptions are the mirror image of dependencies;
caches are never stale; no callback of a stopped watcher; old values chain;
cleanups come before the next run and on stop; a patch shows what was rendered,
reuses what has a key, and removes the rest once; no kept instance is lost or
destroyed while it is shown; activation follows what is shown; a stopped scope
leaves nothing alive; an async component has one outcome, for everybody; hooks
of parents and children come in order, and document, instances, refs and
directives agree; a transition settles as wanted however often it was reversed;
a form element shows the data and never loses what is being typed; generated
code shows what the template means; a page rendered through the cache is the
page rendered without it. The hazards each
property is aimed at, line by line, are in `PROJECT.json`.

## 2 Modules and code

`PROJECT.json` maps every definition to its lines. `MC*.tla` instantiate a
module for TLC. Operators named after a mutant, above the definition they vary,
are broken versions of it: each property is violated when its mutant replaces
the definition, so that no property holds by the shape of the model.

| Module | State → code | Actions → code |
|---|---|---|
| `Scheduler` | `queue has circular waiting flushing index activated` are the variables of `scheduler.ts:9-17`; `callbacks pending` those of `next-tick.ts`, `ticks` the jobs in the microtask queue, `copies` the local copy in `flushCallbacks`, `hooks` the copies of the two queues taken at `scheduler.ts:115-117`; `pc` says whose code runs; `need owed runs dropped` are history | user code: `Trigger NextTick Teardown Destroy QueueActivated`; engine: `BeginTick`..`EndTick` (`flushCallbacks`), `BeginFlush`..`EndFlush` (`flushSchedulerQueue`: sort, `before()`, `run()`, guard, reset, hooks), `RunThrows` (an exception that `run()` lets through) |
| `SchedulerProofs` | – | theorems about `Scheduler` |
| `ReactiveData` | a heap: each object with its fields, its observer, and for each reactive key the generation of its `Dep` and the child whose observer it depends on | operators: `observe`, `defineReactive`, `dependArray`, `set`, `del`, the array mutators, `traverse`, refs, `toRef`, the proxy over the state of `setup`, `readonly` |
| `Reactivity` | what the data are is a parameter (`InitialData TouchedBy ValueIn AfterRead CanMutate MutatedBy DepsOf`; `MCReactivity` gives it the operators of `ReactiveData`). `subs` with `Hole`, `pending` are `Dep.subs` and `pendingCleanupDeps`; `deps newDeps value dirty active` the fields of `Watcher`; `stack` is the call stack and with it the target stack; a getter is the program `NextSource` | `ReadData ReadComputed Depend EndEvaluate EndConstruct EndRun EndCallback` (a getter, step by step; `Depend` is one `addDep`), `NotifyNext EndNotify` (one `update()` of `notify`), `RunQueued CleanupDeps` (scheduler), `Write` (one of `Mutations`), `Create Teardown Use` (user code) |
| `ReactivityProofs` | – | theorems about `Reactivity` |
| `EffectScope` | `scope`: for each scope whether it is active, its nested scopes, its parent and its index there | operators: `Constructed Removed Stopped`, and `Within`: which scopes are stopped with which |
| `ApiWatch` (extends `EffectScope`) | `old cleanup buffer once` are `oldValue`, `cleanup`, `_preWatchers` and the handlers of `hook:mounted` of `doWatch`; `subs deps queued` what it uses of dependency tracking and scheduler; `last owed early ownTrigger` are history | a run: `GetEffect GetSource Run* EndCleanup EndEffect EndCallback`; a stop: `StopEffect BeginDispose EndDispose BeginScopes StopScopes EndStop`; the component: `MakeScope EndSetup EndRender RunBuffered CallMounted EmitMounted RunOnce ...`; user code: `Write Create OnCleanup Stop StopScope Destroy` |
| `ApiWatchProofs` | – | theorems about `ApiWatch`: the call stack, the tree of scopes |
| `ApiWatchRunsProofs` | – | theorems about `ApiWatch`: runs of a watcher, its stop, what it has seen |
| `Patch` | `oldCh newCh`, the four indices, `keyToOldIdx`, `canMove` are the locals of `updateChildren`; `dom leaving` the document; `nextCh` the children `<transition-group>` patches after its removal pass | one action per branch of the loop, in its order (`SkipStart` … `NotFound`), `AddRest RemoveRest`; `BeginPatch BeginGroup BeginSecondPass EndPatch`; `LeaveEnds` (the transition of an element that left ends) |
| `PatchProofs` | – | theorems about `Patch` |
| `Sublists`, `SequenceLemmas` | – | what a list keeps of another, and the order in a list; lemmas about both that the proofs share |
| `KeepAlive` | `inst` is the tree of instances with the data of the `<keep-alive>` in each; `queue prunes activated updated` what the flush has to do | `Choose Include` (writes), `Render` (render and patch of a `<keep-alive>` and the vnode hooks), `Prune` (the watcher of `include`), `BeginFlush EndFlush` (activated and updated hooks), `DestroyRoot` |
| `Instances` | `app` is a heap: `vm` the instances (`_vnode`, `$el`, `$children`, `$refs`, `_provided`, flags), `vn` the vnodes, `dat` their data (merged hooks, insert queues), `dom` the elements, `log` the hooks called | operators named after the functions of `patch.ts`, `create-component.ts`, `lifecycle.ts`, `ref.ts`, `directives.ts`, each taking and returning the heap; actions `MountRoot Change FlushQueue DestroyVm` |
| `AsyncRequest` | abstract: the outcome of a request, and what each owner shows | `Settle SettleAndShow Appear Refresh Leave` |
| `DefineAsync` | the promises built by `load()` of `defineAsyncComponent`, one record for each call of the loader; `pendingRequest` | `LoaderAnswers UserRetry UserFail Follow Then` |
| `AsyncComponent` (extends `DefineAsync`) | `resolved error loading errorComp loadingComp owners` are fields of the factory; `once` says which of `resolve` and `reject` were called, `timers` which are pending | `ShowError ShowResolved Join Start` (the branches of `resolveAsyncComponent`), `Update Destroy` (owners), `LoadingTimer TimeoutTimer PromiseSettles CallbackSettles` |
| `AsyncProofs` | – | theorems about `DefineAsync` and `AsyncComponent` |
| `Options` | `ctors`: the constructors with `options`, `superOptions`, `extendOptions`, `sealedOptions`; `raws`: the users' objects, which the code changes too; `own` is history | `Extend Mixin MixinCtor Attach Instantiate` |
| `Transition` | `heap`: elements with classes, `_enterCb`, `_leaveCb`, `display`, whether in the document; callbacks with their stage; `_leaving` and the pending delays of the modes | `Toggle` (the parent shows another view), `Flush` (render and patch), `Frame` (the next frame), `End` (end event or the user's `done`) |
| `TransitionProofs` | – | theorems about `Transition` |
| `VModel` | `dom`: value, checked, selected options, focus, composition; `vnode`: what the last render made; `dirty`: a render is queued | the user: `Focus Type CompositionStart CompositionEnd Change Blur Tick Pick`; the program: `Assign ChangeOptions ForceUpdate`; `Render` |
| `TemplateParser` | `nodes stack root inVPre inPre`: the variables of `parse` and of the HTML parser | `ReadStart ReadEnd ReadChars ReadComment`; `ReadPlainText ReadUnclosed` (in a `<textarea>`); `Finish` |
| `TemplateCodegen` (extends it) | – | operators: `optimize`, `generate`, and what each kind of generated code evaluates to |
| `SsrCodegen`, `Compiler` | – | the optimizer and generator of the server's compiler; the meaning of a template (`Compiler`), against which both are compared |
| `SsrRender` | `req`: for each request the stack of `RenderContext`, the write buffers and cache buffers, what it waits for, what it gave; `cache` | `Step(r)`: a rendering runs until it must wait, and what it waited for comes; `Evict` |

A few abstractions deserve a word.

* **Watchers are their ids** (Scheduler): ids grow with creation, which is all
  that the order of the flush uses. A component is its render watcher.
* **`sort` and `splice`** are given by what they return: the one sorted
  sequence of the queue, and the one splice point from which only larger ids
  follow. The loop of `queueWatcher` walks down from the end; the point it stops
  at is characterised by the three conjuncts of `SplicePoint`.
* **A key that is deleted and set again** (ReactiveData) has a new `Dep`: the
  generation in its name tells them apart.
* **A getter** (Reactivity) is a function from what it has read to what it reads
  next, so its dependencies may depend on the data, and the value of a watcher
  is what its getter saw. This is the finest value a getter can have, hence a
  callback is called whenever any getter would call it.
* **`depend()` of a computed property** walks its deps from the last to the
  first; the order decides who is notified first, so the model keeps it: the
  deps that a read has still to subscribe to are the `todo` of its frame.
* **The data are a parameter** (Reactivity): which deps a read touches, which
  value it sees and what a mutation notifies are constants, so that the theorems
  hold for any data whatsoever, and the run gives them the heap of ReactiveData.
  What tracking relies on is a property of the data: `DepsOf` are the deps that
  speak for a source, a change of what has been read is notified by one of them, and
  who reads depends on all of them (`ChangesReachReaders`).
* **Elements** (Patch) are numbers: their place in the document when the patch
  began. One made during the patch has the negated index of its vnode, and at the
  end all are numbered anew, so that states that differ only in names are one
  state. What `sameVnode` compares besides the key is one `tag`.
* **`parentElm.removeChild`, `filter` and the like** are `Sublist(s, P)`: the list
  of the places `P` of `s`, in their order, given by the rank of each place.
* **KeepAlive** renders the `<keep-alive>` when its owner renders. That is how it
  happens in the code: it is forced to update because it has slot children, and
  it runs next, since its id follows the owner's.
* **Instances** is synchronous code that calls itself through component hooks,
  with no choice inside a step; it is a functional program over a heap, and what
  hooks of the application do to it is the constant `Reactions`. Calls that may
  come back to where they were made go through one operator, `Call`, which names
  the function and its arguments.
* **A template** is a sequence of tokens. The tag of a token has a set of marks,
  the attributes that the compiler tells apart. Code is a tree of calls, and the
  operators that evaluate it give the vnodes that the render helpers would make.
* **Html** (SsrRender) is a sequence of tokens too; the length of a buffer is
  their number, so that `MAX_STACK_DEPTH` and what a stream asks for are small.
* **Dep.subs** in ApiWatch has no holes: what holes do is the matter of
  Reactivity.

## 3 Runs

Every run passes. Distinct states are those TLC finds.

| Run | Instance | What it shows |
|---|---|---|
| `scheduler` | a parent and a child, a `watchEffect`, two callbacks, a run that may throw, 5 user operations; 104 000 states, under `FairSpec` | the flags tell the truth (`FlagsTellTruth`: `OneTick` and `OneFlush`), `has` is what lies ahead (`HasIsQueued`), no trigger is lost (`NoLostTrigger`), callbacks see earlier updates (`NextTickSeesUpdates`), oldest watcher first (`OldestFirst`); after an exception the scheduler is stopped for good (`StoppedForGood`); every trigger until then, and every callback in any case, is answered (`EveryCallAnswered`) |
| `reactivity` | a list that holds an object, two objects, a ref, a custom ref, a shallow state; two computed properties, one reading the other, a deep sync watcher and a queued one; 3 of 19 mutations; 632 000 states | subscriptions mirror dependencies at every moment (`SubscribedToDeps`); no clean computed property and no settled watcher has seen something that is no longer so (`NothingStale`), for every change of what has been read is notified by a dep that speaks for it, and who reads depends on all those deps (`ChangesReachReaders`); no callback after `unwatch` (`CallbackOnlyIfActive`) |
| `watch` | a pre watcher, an immediate sync one, two post effects in a component's scope and four scopes of its `setup()`, one inside another and one with a dispose function; two refs, 4 operations; 586 000 states | no change missed, buffered ones run before `mounted`, post effects at the mount (`SeesCurrentValue`); old values chain (`OldIsLast`); cleanup before rerun and on stop (`CleanedBeforeRerun`); nothing after stop (`NeverAfterStop`); a stopped scope leaves no watcher alive (`ScopeStopsAll`) |
| `patch` | all pairs of lists of up to 4 children over 3 keys, two tags for one key, unkeyed children, one element leaving; 558 000 states | the document shows the children in order (`ChildrenInOrder`), every element is reused where it must be or removed, once, and none is missing (`RemovedOrReused`), the removal pass moves nothing (`StayInPlace`) |
| `keep_alive` | a keep-alive with max 2 over three components, one of which has a keep-alive over two, 5 writes; 685 000 states | no instance lost, none destroyed on show, keys and cache agree (`NoneLost`); activation follows what is shown and hooks alternate (`ActiveIffShown`) |
| `async` | two owners, callback, promise and `defineAsyncComponent` factories with every combination of options, 3 requests; 228 000 states | `AsyncComponent` implements `AsyncRequest` (`SettlesOnce`): the outcome is decided once, all owners come to show it; an overtaken answer is never given (`LatestWins`); the loading component is for all (`LoadingForAll`); a timeout ends the wait (`TimeoutSettles`) |
| `instances` | a root, a component with a slot, a component within, 4, 4 and 3 views; hooks that change or destroy; mounted or hydrated from 6 server renderings; 5 steps; 35 000 states | document, `$el`, `$children`, props, slots, listeners and provided values are as rendered (`TreeIsCurrent`); hooks once, children before parents (`HooksInOrder`); refs and directives follow the elements (`RefsAndDirectives`) |
| `options` | 3 constructors, 5 raw objects with hooks, watch handlers, a method, data and mixins; 5 operations; 36 000 states | an instance calls every hook once, in order (`HooksOnceInOrder`); no handler and no data is lost, what a constructor defines itself wins (`NothingLost`) |
| `compiler` | every template of up to 5 tokens in each of twelve vocabularies of 6 to 9 tokens, in three states of the data; 220 000 states | generated code, rendered twice, shows what the template means and every element is placed once (`RendersTemplate`); what is called stable is, and components of two branches with slots of their own are told apart (`StableSlotsAreStable`); so do the server's strings (`SsrWritesTemplate`) |
| `ssr` | two requests for 7 pages, to a string or a stream, with a cache of each kind that may drop an entry; 82 000 states | the html is right, whoever waited for what (`RightHtml`); what is cached is the whole component (`CacheIsRight`); every wait has somebody to end it and every page is answered once (`NobodyIsStuck`) |
| `transition` | three views under one `<transition>`, by `v-if`, kept alive or `v-show`, in each mode, with and without classes and a user's `done`; 3 toggles; 2 580 000 states | at rest the document is as wanted, without a class or callback left, and out-in never shows two (`SettlesAsWanted`); enter and leave hooks pair (`HooksPaired`) |
| `v_model` | text fields with each modifier, boxes, radio groups, selects; 8 steps of user and program; 100 000 states | element and data agree when nothing is pending (`ViewShowsData`); no render touches what is being typed, or takes a selection that has an option; what has none is taken from an array when the options change other than at their end, and from a single select only if it was assigned since (`InputIsKept`) |

Deadlock is not checked: an application that has nothing to do may stop, and the
bounds on user operations make it stop.

## 4 Bounds and restrictions

Every bound is a constant with that comment. `MaxOps` and `MaxSteps` count
operations of user code; `MaxUpdateCount` is the code's constant
`MAX_UPDATE_COUNT`, 100 there and 1 in the run, so that the guard trips;
`MAX_STACK_DEPTH` is 800 in the code and 3 in the run, so that rendering is
deferred; `MaxRequests`, `MaxEvictions`, `MaxToggles`, `MaxCtors`, `MaxTokens`,
`MaxLen`, `MaxLeaving`, `MaxPatches` say what they count.

*Why they are enough.* Scheduler: the shortest interesting scenarios are three
operations (trigger, re-trigger during the flush, callback); with five all
actions fire from all phases, the guard trips, and watchers are queued below, at
and above the running id; the safety part is proved for all bounds. Reactivity:
two writes are enough to drop a dependency and take it up again; a third puts
something new where the old was, or changes it from outside. ApiWatch: creating
a watcher, registering a cleanup, writing, and stopping the watcher, its scope or
the component are four operations. Patch: four children on either side are needed for a hole in the
middle of the old list, with both end pairs different, and for `SkipStart` and
`SkipEnd` to meet; one patch is enough since `Init` is any state between two
patches. KeepAlive: five writes show, hide, show, exclude and show again on two
levels. AsyncComponent: a second owner that joins, and a second retry that
overtakes the first, are all that the code distinguishes. Instances: mounting,
two changes of which the second undoes the first, a flush and a destruction.
Options: a late mixin, an attached hook and another late mixin between two
extensions, and an instance. Compiler: a chain of three blocks, a loop in a slot
and a table of crossed tags have five tokens. SsrRender: two requests share a
component that is cached by the one while the other asks for it. Transition:
showing, hiding and showing again, before or after each frame.

*Restrictions.* Some instances restrict the program, because without the
restriction the code breaks the property (section 7). The restriction is named:

* `ReadsMidway = FALSE` (Reactivity): a callback of a sync watcher does not read
  computed properties, nor create watchers that do, while a notification is in
  progress.
* Getters only read (Reactivity). A getter that unwatches its own watcher still
  has its callback called: `run()` tests `active` before `get()` and not after
  it (`watcher.ts:211-237`); one that throws half-way leaves a partial list of
  deps (`watcher.ts:139`).
* `Reenters = FALSE` (ApiWatch): while a run of a sync watcher is under way, the
  code it calls, or that is called from there, does not write its source.
* `CreatedIn` (ApiWatch) leaves out watchers created in a hook of a component
  already mounted (`updated`, `activated`).
* `StopsMidway = FALSE` (ApiWatch): a watcher is not stopped by the cleanup that
  its own rerun calls, nor a post effect before the mount.
* Dispose functions (ApiWatch) do whatever other user code does, but stop neither
  their own scope nor, while the scope around walks its list, another one of that
  list.
* `Detached = {}` in the run of ApiWatch; a detached scope is then outside of
  everything that destroys the component.
* `Lists` (Patch) have no duplicate keys, which the development build reports.
* `Together = FALSE`, `Redirects = FALSE` (KeepAlive): no tick both chooses and
  excludes, and hooks called inside a patch do not choose again.
* KeepAlive gives every component its own tag. With one tag under two keys the
  comparison of tags at `keep-alive.ts:58` takes one for the other.
* `MCReactions` (Instances): hooks change what a component renders, and
  `mounted` may destroy; a `beforeDestroy` hook does not destroy. The components
  that fail to hydrate have no listeners that count.
* `MCWritten` (Options): what is mixed in late has no mixins of its own
  (`OptionsAssumption`).
* `MCConfigs` (Transition) leaves out in-out without classes and without `done`,
  (VModel) `trim` together with `number`.
* `Assign` (VModel) does not set back the value of a box in the tick in which it
  was ticked.
* `Arrays` (VModel) hold no two loosely equal values (`ArraysAssumption`).
* `SsrRegular` (SsrCodegen) leaves out, for the server, empty `<template>`s of which
  the optimizing compiler makes an empty string.
* `MCDefinition` (SsrRender) has no cached component at the root of a page, or in
  a place where its parent hands something down that the key does not say.
* The vocabularies (Compiler) leave out the combinations of section 7, and
  `StableSlotsAreStable` the blocks of a chain after the first one.
* `InputIsKept` (VModel) takes it as it is that the selection stays when options are
  gone from the end of the list only.

## 5 Fairness

`Scheduler!FairSpec` is `WF_vars(Engine)`: the host runs the microtasks it was
given (that is what a microtask queue promises), user code returns, and the
engine's own synchronous code continues. Nothing is assumed of user operations.
Weak fairness suffices: the steps stay enabled until taken, since user
operations during a flush are bounded. Without the bound the program may keep a
flush busy for ever; the guard against that counts only a watcher that is queued
again when its own run returns (`scheduler.ts:98-112`), so two watchers that
trigger each other are not stopped by it.

`AsyncComponent!Fairness`: timers that were set fire, reactions of a settled
promise are called, and queued owners render, which is what the scheduler
promises. That the loader answers, or that the user of `onError` decides, is not
assumed; `AsyncRequest` therefore promises that owners show what the outcome is,
and `TimeoutSettles` that there is one if a timeout and an error component were
given.

Transition, SsrRender and VModel have no fairness. What must come about there is
stated of the states in which nothing can happen by itself any more
(`SettlesAsWanted`, `ViewShowsData`), or as the absence of a wait that nobody
ends (`NobodyIsStuck`).

## 6 Proofs

`SchedulerProofs` proves, for every set of watchers, owners, callbacks, every
set of watchers whose run may throw, every `MaxUpdateCount` and `MaxOps` (so for
every program), under the one assumption `ConstantsAssumption`:

| Theorem | Statement | Extra assumption |
|---|---|---|
| `TypeCorrect` | `Spec => []TypeOK` | – |
| `HasIsQueuedCorrect` | `Spec => []HasIsQueued` | – |
| `FlagsTellTruthCorrect` | `Spec => []FlagsTellTruth` (`OneTick` and `OneFlush`) | – |
| `NoLostTriggerCorrect` | `Spec => []NoLostTrigger` | – |
| `NextTickSeesUpdatesCorrect` | `Spec => []NextTickSeesUpdates` | – |
| `StoppedForGoodCorrect` | `Spec => StoppedForGood` | – |
| `OldestFirstCorrect` | `Spec => []OldestFirst` | `Post = {}` |

`OneTick` and `HasIsQueued` hold after exceptions too; `OneFlush`,
`NoLostTrigger` and `NextTickSeesUpdates` say what holds until one leaves a run,
and `StoppedForGood` what holds from then on. `OldestFirst` needs its assumption:
a post watcher breaks the order (section 7).

The argument. None of the invariants is inductive alone; the proof builds a
tower, each level using those below:

1. `TypeOK`; the lemmas on `Spliced`, the sorted queue and the hook list say that
   these sequences are sequences of watchers.
2. `Flags`: the flush is in at most one of the places where it can be (next tick,
   this tick, running), and wherever it is, `waiting` is set. It holds with
   exceptions. `Alive` is the converse (a flag that is set has a flush behind
   it, or the scheduler is stopped). `Flags /\ Alive => OneFlush`. In a stopped
   state nothing is left that could start a flush, which is `StoppedForGood`.
3. `QueueInv` adds to `HasIsQueued` that `index` points into the queue while
   something runs, and is 0 between flushes. `SplicePoint` never lies at or
   before the running watcher, which keeps what was started apart from what lies
   ahead.
4. `NeedInv`: a watcher with an unanswered trigger is marked in `has`, and
   something marked means that a flush was asked for. With `OneFlush` and
   `HasIsQueued` this is `NoLostTrigger`.
5. `OwedInv`: a callback that is owed runs stands behind the flush, in whichever
   of the two arrays both are. When it becomes the head of `copies` the flush is
   nowhere, so nothing is owed. This is the reason for sending the flush through
   the same array as the callbacks.
6. `OrderInv`: behind the running watcher the queue stays sorted.

`AsyncProofs` proves, for every set of owners and every number of requests, from
`RequestsAssumption` and `OwnersAssumption` (`None` is neither a number nor a set
of owners):

| Theorem | Statement |
|---|---|
| `LatestWinsCorrect` | `Spec => []LatestWins` |
| `LoadingForAllCorrect` | `Spec => []LoadingForAll` |
| `ImplementsAsyncRequest` | `Spec => Abstract!Init /\ [][Abstract!Next]_(Abstract!vars)` |

The invariant `Inv` has two parts. `RequestsInv`, on the chain of promises: a
request that is done has the value of an answer (`IsAnswer`), one that was loaded
has its own value or that of an answer, whoever waits for another or adopts it
follows a request that exists, and nothing began after the latest. The value a
request adopts is thereby traced back to one that was the latest when it was
done; `LatestWins` alone is not inductive, since it says nothing of those that
are still on their way. `FactoryInv`: nothing has happened before the first
render (`Unstarted`); what has an outcome cannot get another, because whoever
could reject has no error component, or has been heard (`DecidedOnce`); an owner
that waits is queued, or is in `owners` and shows what all of them show
(`Noted`). `Noted` gives `LoadingForAll`; `DecidedOnce`, that `resolve` and
`reject` are steps of `AsyncRequest` or stutter; that a queued owner still
exists, that renders are.

`ReactivityProofs` proves, for every set of watchers, every getter, all data,
mutations and numbers of operations, under `ConstantsAssumption` (the kinds of
watchers are disjoint, and `Hole` is not a watcher):

| Theorem | Statement |
|---|---|
| `SubscribedToDepsCorrect` | `Spec => []SubscribedToDeps` |
| `CallbackOnlyIfActiveCorrect` | `Spec => CallbackOnlyIfActive` |
| `NothingStaleCorrect` | `Spec /\ ChangesReachReaders => []NothingStale`, if `ReadsMidway = FALSE` and no getter of a sync watcher reads a computed property |

`SubscribedToDeps` speaks of an idle engine as well as of one in the middle of a
getter, and is not inductive. Four parts are added. `ListsInv`: `deps` and
`newDeps` are sequences, and nobody is twice in a list of subscribers.
`SubscribersInv`: a watcher is in the list of a dep if and only if it is active
and the dep is in its `deps` or `newDeps`; a hole is left only in a list that is
`pending`. `LifeInv`: only what was created is active, and who is not being
evaluated has no `newDeps`. `StackInv`: a getter that runs belongs to an active
watcher, and above a getter there are only evaluations of computed properties
that it reads. The last makes the others inductive: user code runs only when no
getter is under way, so that who is torn down has no half-filled `newDeps`, and
the getter that returns is of a watcher still alive, whose dropped deps are those
to unsubscribe from. `Filtered`, which takes the holes out of a list, is given by
the rank of each place among those kept; that it loses nobody and repeats nobody
is a statement about the cardinality of these sets (`FiniteSetTheorems`).

`NothingStale` is the reason for all of this: what a watcher has seen is still so,
or somebody is going to tell it. Who changes data and who tracks them are different
parts of the code, and the theorem says what tracking needs of the data: its
premise, which the run `reactivity` checks of `ReactiveData`, is enough for any data,
getters, mutations and numbers of watchers. `Knows` says of a list of what was seen, and of a set of deps,
that each source was read in the order of the getter; that its value is still so, or
the computed property it comes from is clean and has that value; and that the deps
that speak for it are in the set, which for a computed property are its own. The
invariant `FreshInv` has two parts:

1. `SettledInv`: a watcher that is not dirty, queued, being evaluated or about to be
   notified (`Unclean`) is at the end of its getter and `Knows` what it saw, with
   its `deps`.
2. `FramesInv`: each evaluation under way `Knows` what it has seen, with its
   `newDeps` and those it is about to add (`FrameKnows`). An evaluation above it is
   of the computed property that it reads next (`Linked`). Two evaluations of one watcher
   can be on the stack only if it reads itself, and then the inner one has not got
   further than the outer (`Behind`); as the outer one waits where it reads itself,
   the inner one cannot finish, so that nobody ever uses what it would return.

A mutation is one step that changes the heap and puts the subscribers of the
notified deps on the stack (lemma `ReachesSubscribers`: exactly who depends on
them, by `SubscribedToDeps`); from then on they are `Unclean`, and the others lose
nothing, since their deps were not notified, thus their sources did not change.
The delicate point is that user code may read while a notification is half done.
`MidwayInv` says that what runs above a notification is a sync watcher, whose getter
reads no computed property and so meets no cache that is still to be marked dirty.
That is the condition of the theorem, and `dep.ts:80` is why it is needed (section
7). TLC found `FreshInv` to hold in all states of `reactivity` before it was proved.

`PatchProofs` proves, for every kind of vnode, lists of children of any length, any
number of patches and of elements that are leaving, under `ConstantsAssumption`
(`Undefined` is no element, vnode or map, and the lists have no duplicate keys):

| Theorem | Statement |
|---|---|
| `ChildrenInOrderCorrect` | `Spec => []ChildrenInOrder` |
| `RemovedOrReusedCorrect` | `Spec => []RemovedOrReused` |
| `StayInPlaceCorrect` | `Spec => StayInPlace` |

The three speak of the end of a patch, or of one step, and nothing of what makes
the loop of `updateChildren` work. That is the invariant `Inv`, whose parts hold
before and after every branch:

1. `IndicesInv`: the two pairs of indices close in on each other and pass each
   other by one at most. `OldInv`: an element belongs to one old vnode.
2. `ElementsInv`: what stands in the document without leaving is exactly the
   elements of the old vnodes not yet visited (`Remaining`) and of the new ones
   that have one (`Placed`), and no element is both.
3. `OrderInv`: new vnodes placed from the front, old ones that remain, new ones
   placed from the back, each part in order. Nothing is said of where elements
   that leave stand among them. This is why `nextSibling(oldEndVnode.elm)` does
   for an anchor although it may be such an element: between the last old vnode
   and its sibling there is nothing that counts. In the removal pass `OrderInv`
   says only that each of the two parts is in order, and `RemovalInv` that every
   new vnode still to be placed is an old one that remains.
4. `KeysInv`: the map of keys, once made, knows every old vnode that remains and
   has a key, and what it says of the key of a new vnode not yet placed is an old
   vnode that remains. Keys are unique, so that an entry goes stale only when the
   new vnode with its key has been placed, and nobody asks for it again; this is
   why the old map is good enough although entries were taken and both ends have
   moved.
5. `FateInv`: an old vnode that is no longer `Remaining` was removed once, or is
   the element of one new vnode, and not both; and `ReuseInv`: if a new vnode has
   its key and tag, it is that one.

At the end `Remaining` is empty and `Placed` is everything. Then `ElementsInv` and
`OrderInv` are `ChildrenInOrder`, `FateInv` and `ReuseInv` are `RemovedOrReused`,
whose claim that nothing is missing on the way is lemma `NothingIsMissing`. TLC
found `Inv` to hold with lists of up to four children before it was proved. What
`insertBefore` does to the order of a list is proved once, in `MovedBefore`,
`MovedAfter` and `MovedToEnd`, from the lemmas of `SequenceLemmas`.

`ApiWatchProofs` proves, for every tree of scopes, detached ones included, all
watchers, refs and timings, all user code (`StopsMidway` and `Reenters` either way)
and every `MaxOps`, under `ScopesAssumption` and `ConstantsAssumption`:

| Theorem | Statement |
|---|---|
| `ScopeStopsAllCorrect` | `Spec => []ScopeStopsAll` |

`BaseInv` is about the call stack: which frames there are, what each carries, that
only the lowest belongs to the mount or to a hook, and that a getter is on top. To
it `ScopesInv` adds what a stop relies on while the functions it calls stop and
destroy other things:

1. `TreeInv`: who is in a list has its parent and index right; who is nested and
   active is in the list of its parent; nothing is active inside of what has
   stopped. `MakingInv`: `setup()` makes each scope once.
2. `StopsInv`: a live watcher of a scope that is being stopped is still in the
   list that the stop walks; a walk over nested scopes goes to the end of the list
   as it is *now*, since nobody leaves that list meanwhile: who leaves it does so
   in a stop that is not called by its parent, and such a stop does not begin
   while the parent walks, and ends after the walk if it began before it.
3. `WalksInv`: a scope that a walk has passed has stopped, or a stop of it is
   above. At the end of the walk all children have stopped, and with `TreeInv` all
   within.

`Within`, the scopes that are stopped with a scope, is the least set that is
closed under `ParentOf`. Defined so it needs no recursion, and that it is
transitive and is `s` with what is within its children follows from sets that are
closed (`WithinClosed`, `WithinSmallest`).

`ApiWatchRunsProofs` proves, in the same generality but for the condition named:

| Theorem | Statement | Condition |
|---|---|---|
| `CleanedBeforeRerunCorrect` | `Spec => CleanedBeforeRerun` | `Reenters = FALSE` |
| `OldIsLastCorrect` | `Spec => OldIsLast` | `Reenters = FALSE` |
| `NeverAfterStopCorrect` | `Spec => NeverAfterStop` | `StopsMidway = FALSE` |
| `SeesCurrentValueCorrect` | `Spec => []SeesCurrentValue` | `Reenters = FALSE`, `Detached = {}`, `"hook" \notin CreatedIn` |

The first two rest on `RunsInv`. `AloneInv`: no watcher has two runs on the stack,
nor a sync watcher a run below a notification that is still to come to it; a watcher
that is not sync runs from an empty stack or from the lists of the mount, and for a
sync one this is what `Reenters` is for. `CleanInv`: the cleanup that is being called
for a rerun is not owed any more, which the run in whose callback a new one could
be registered cannot disturb, as it would be the second. `ChainInv`: `oldValue`
is the last value a callback got, or that callback is still running.

`NeverAfterStop` is not about runs that begin, which test `active`, but about those
that have begun. `StoppedInv` says that a getter about to be called is of a live
watcher, or of one whose component is destroyed, which the getter of an effect
tests; that a watcher whose cleanup is called for its rerun lives and no stop above
has it in its list or in a scope it will come to (`Spares`); and that effects that
wait for `hook:mounted` live, or the component is dying, and are spared by every
stop until then. Lemma `WithinMonotone` hands this on from a stop to those of its
nested scopes. Without the condition a stop from within the cleanup is enough to
violate the property, as the code does (section 7).

`SeesCurrentValue` says that a watcher that nothing is going to run has nothing to
learn. Its invariant says what a live watcher knows while anything is under way.
`Knows`: it is subscribed to its source, or its first run is still to come; and it
is marked to run before it compares again (queued, in the list of a notification
under way, buffered for the mount, waiting for `hook:mounted`, in a run that has not
read the source), or one of its runs holds the value the source has now and will
assign it to `oldValue`, or it has seen that value. A pre watcher triggered in
`setup()` is still in the buffer, or in what the mount has left of it, or in the run
that the mount gave it. This needs to know where the mount has got to
(`PhaseInv`: mounted if and only if neither `setup()`, the first render nor the run
of the buffer is on the stack; effects wait for `hook:mounted` only until that was
emitted) and what a destruction takes with it (`DeathInv`: while the component is
being destroyed its own scope is being stopped, and every watcher is within it).
There is a lemma for each way in which a step leaves a watcher alone (`KnowsStays`
and those after it) and one for each action that does not. TLC found the invariant
to hold in the run `watch` before it was proved.

Each condition keeps out what the code does not do right or the property does not
mean: with `Reenters` an outer callback assigns its old value to `oldValue` after an
inner run of the same watcher assigned the newer one (section 7); a post effect in a
detached scope outlives a component that is destroyed by its `mounted` hook, and
has then never run: `$destroy` removes its handler of `hook:mounted`, as TLC finds
with `Detached = {s2}`; a post effect created in a hook after the mount waits for a
`hook:mounted` that is not emitted again.

`TransitionProofs` proves, for every set of views, any number of toggles and every
order of frames, ends and renderings, from `ConfigsAssumption`:

| Theorem | Statement | Condition |
|---|---|---|
| `SettlesAsWantedCorrect` | `Spec => []SettlesAsWanted` | `Ends` |
| `HooksPairedCorrect` | `Spec => []HooksPaired` | `Ends` |

`Ends` says that in mode in-out a transition has classes, or a `done` of the user's,
to end it; without either the code leaves an old element waiting for ever
(section 7), which is also why `MCConfigs` leaves that case out.

What is right at rest follows from what is right at every moment, so the invariant
`Inv` says of each part of the heap what a transition under way has made of it:

1. `CallbacksInv`: `_enterCb` and `_leaveCb` of an element are the callbacks that
   were not called, and it never has both. `HooksInv`: the last hook of an element
   tells which of the two it has, which makes the hooks pair.
2. `LinksInv`: a leave that waits in a closure of mode in-out waits in that of an
   enter that is still to end (`Waits`), one closure for each; and what an enter
   will perform waits, or was cancelled (`Holds`). So no element is forgotten, and
   none leaves twice.
3. `ClassesInv`: an element in the document has at most the classes of the stage its
   transition is in. A callback that was called may still have its frame to come:
   only when its element was taken out of the document (`Unframed`), or when it was
   cancelled, and a cancelled one only removes a class.
4. `PlacesInv`, `KeysInv` and `PendingInv`: what is in the document is the current
   element or leaves, no view is in it twice, and `_pending` has what leaves, by its
   view; this is what the insert hook of `enter` needs to find it.
5. `OutInInv`: `_leaving` is set exactly while a leave is under way that will reset
   it; `ShownInv` and `WantInv` say how `display` and the current element follow
   what was rendered.

At rest no callback is left, since one that waits needs another that does not
(`StillCalled`), and the rest of `SettlesAsWanted` is read off. Within a task the
parts fail one at a time: a leave about to be performed no longer has its closure,
the old element is neither current nor leaving, the new one shares its view with one
that leaves, and `_leaving` is set before its leave is there. The parameters of
`Good` name these exceptions, and each operation has a lemma that says what it does
to them (`EnterResult`, `LeaveResult`, `CreateResult`, `RemoveResult`, `InsertGood`).
TLC found the invariant to hold in the run `transition` before it was proved.

Liveness (`EveryCallAnswered`, `TimeoutSettles`, and the half of `SettlesOnce`
that says that every owner comes to show the outcome) and everything about the
other modules is model-checked only. The prover reasons neither about `ENABLED`
and fairness nor by induction over data, so what recursive definitions compute
(the compilers, the patch of a tree, `Ancestors` in KeepAlive) and the community
folds stay with TLC. So does VModel, where nothing stands in the way of a proof.

## 7 Where the code and its texts disagree

Met while modelling. Those with a named restriction show up as a violation when
the restriction is lifted; those marked *read* were only read in the code.

Reactivity and watch:

* A watcher queued during the flush is placed by id, without regard for `post`
  (`scheduler.ts:183-187`), so that a post watcher may run before a render
  watcher queued after it; `apiWatch.spec.ts:646` has the reverse as its title.
  (`Post = {}` in the run of Scheduler.)
* Subscribers are called in the order they subscribed (`dep.ts:80`), so a sync
  watcher may run before a computed property it reads is marked dirty, gets the
  old cache, and is not run again; `computed.spec.ts:177` expects the new value.
  (`ReadsMidway`.)
* `oldValue` is assigned after the callback returns (`apiWatch.ts:302`): a
  callback that writes its own source gets `undefined` twice, against the comment
  at `apiWatch.ts:298` ("pass undefined as the old value when it's changed for the
  first time"), and a change back is missed. (`Reenters`.)
* The handler of `hook:mounted` calls `get()` of a watcher that may have been
  stopped (`apiWatch.ts:340-341`), against `apiWatch.spec.ts:230-242`.
  (`StopsMidway`.) A post effect created in a hook of a mounted component waits
  for a `hook:mounted` that never comes again. (`CreatedIn`.)
* `cleanup` is never reset (`apiWatch.ts:247`): a run that registers none leaves
  the previous one in place, and it is called again. A sync effect that writes
  what it reads recurses without end, since only `queueWatcher` looks at
  `noRecurse`.
* A dispose function that stops a sibling while the parent walks its list makes
  `scopes[i]` undefined at `effectScope.ts:89`: a `TypeError` that aborts
  `$destroy`. One that stops its own scope recurses: `active` is cleared at the
  end.
* The proxy of the setup state over a plain reactive array depends on the
  array's observer only, not on those of its items (`ref.ts:123-132`).
  `shallowReactive` arrays observe what is pushed to them. A readonly proxy has
  the keys of the moment it was made. `triggerRef` does nothing for a custom ref.

Patch, components:

* `pruneCacheEntry` compares tags where instances are meant (`keep-alive.ts:58`,
  `131-138`): an excluded entry is dropped without being destroyed while another
  instance of its tag is shown, against `component-keep-alive.spec.ts:425`, `450`
  ("two should be pruned"). (`Together`.) With `Redirects` a second render in one
  flush also overwrites `vnodeToCache`.
* The queue of instances to activate is not revised when a later patch of the
  flush hides one (`scheduler.ts:155-160`), against the comment at
  `create-component.ts:75-79`. (`Redirects`.)
* A hydration that fails leaves the instances it created: never destroyed, still
  in `$children`, and when they render again they disturb the element and refs of
  the placeholder they share. A wrapper whose inner component failed to hydrate
  keeps a stale `$el`.
* A directive on a component with an empty root is unbound without having been
  bound. A `beforeDestroy` hook that destroys its parent runs hooks twice.
* The loop over `insert.fns` in `patch` (`patch.ts:1050-1064`) begins at 1, to
  skip the component's own hook, and misses a second merged one that comes first
  (*read*). A `~once` listener is never updated to the new handler, `$once` fires
  twice when an earlier handler emits again, and `refInFor` that changes on a
  reused element is not noticed (*read*).
* Transition: mode in-out with `css: false` and no `done` of the user's calls
  `delayedLeave` before it is set; the old element never leaves. A `done` called
  before the second frame leaves the class `*-to` in place. Out-in with `v-show`
  and a changing key never calls `afterLeave`, so `_leaving` stays set (*read*);
  out-in from a view to none and to another does not wait.
* v-model: with `lazy`, any render overwrites what is being typed; with `trim`
  and `number`, the leading space of a text that is no number is eaten; a box
  whose value is set back in the tick of the click stays ticked
  (`dom-props.ts:65-71`). A value that is in an array twice is removed once when
  its box is unticked (`compiler/directives/model.ts:97-99`); the data still has it,
  and since `checked` does not change the box stays unticked (`ArraysAssumption`).
* Options of a select (`runtime/directives/model.ts:53-75`): new and old ones are
  compared place by place, over the new ones only, so a list that has only lost its
  end counts as unchanged, and what was selected there stays in the data although
  the comment at `:56-59` says that it is filtered out (`OnlyShortened` in `InputIsKept`). A
  single select keeps a value whose option went unless the value changed in the same
  render, so what is reset is a value just assigned. In a multiple select, a value
  that never had an option goes with the first change of the options.

Options: after a second late global mixin a constructor with options attached
late keeps the inherited method of the first; watch handlers are doubled when
options are resolved again; a late mixin that has mixins itself replaces those of
`extendOptions`; `extend(extendOptions, modified)` changes the user's object;
assets registered with `Sub.component` are lost when options are resolved again
(*read*).

Compilers:

* Components in `v-else-if` or `v-else` with different slots get no `$key`
  (`codegen/index.ts:437`, against the comment at `:433-436`): the blocks after the
  first have no `if`. They are reused for each other, or for one without slots in
  the first block, and keep the old slots. (`TakenFor` leaves them out.)
* `containsSlotChild` does not look into nested `scopedSlots`
  (`codegen/index.ts:481-489`). `<slot>` in `v-pre` is still a slot.
* A `v-pre` inside another static root is not a static root, against the comment
  at `codegen/index.ts:161-163`: a `<template>` in it is rendered as a fragment.
* A lone `v-for` with `v-if`, whose `v-else` is a template, a slot or a component,
  is not normalized (`codegen/index.ts:525-537`), and a nested array reaches the
  patch.
* `v-once`, `v-if` and `v-for` on one element: the condition is evaluated outside
  of the loop. `v-once` in a loop in a scoped slot is not seen by the optimizer
  (*read*).
* Server: `v-once` inside `v-for` in a tree that is not optimized loses the loop
  variable; `v-pre` does not reach through optimized elements; a custom directive
  together with `v-text` or `v-html` is dropped.
* Server, empty `<template>`s: in a loop or chain the generated code has `()`
  (`optimizing-compiler/codegen.ts:118-120`), or nothing at all, where an expression
  must be, and the render function is a syntax error. As the only child of an element
  they become `_ssrNode()` (`codegen.ts:101-105`), whose `open` is undefined, and
  the page has the text "undefined" (`render.ts:287-291`). (`SsrRegular`.)

Server renderer:

* `RenderStream.end` ignores its error argument (`render-stream.ts:49-54`).
* A `serverPrefetch` that throws at once rejects and resolves (`render.ts:72-76`).
* A cached component that is hit inside another one that is being cached does not
  add its components to the outer entry, against the comment at
  `render.ts:102-103`.
* With a cache that has `has` and answers later, an entry dropped between `has`
  and `get` is a `TypeError` in a bare callback (`render.ts:131`). So is a
  component from an async factory whose render function throws.
* Cached html depends on things that are not in the key: the mark of a root, the
  class, scope id and directives of the parent, slots. Directives of the parent
  replace those of the root.

## 8 What is not modelled

The components with status `not_modelled` in `PROJECT.json`. Within the modelled
parts:

* Scheduler: the choice of microtask or timer in `next-tick.ts`, the
  `document.createEvent` timestamps of event handlers, `config.async = false`
  and server rendering (both run the flush at once), devtools events.
* Reactivity: getters that throw or write, properties that have a getter already,
  frozen objects, `shallowReadonly`, the development hooks `onTrack` and
  `onTrigger`.
* ApiWatch: several sources, errors in callbacks, watchers created in a scope that
  is no longer active.
* Patch: the moves of `<transition-group>`, static nodes.
* KeepAlive: components that destroy themselves, several children, `exclude`
  (the complement of `include` as far as the cache is concerned), `max = "0"`.
* Instances: `data`, `computed` and `methods` (Reactivity has what they do),
  errors in render functions, functional components, inline templates, async
  placeholders, scope ids, casts and validation of props, `provide()` called
  after `setup()` (which writes into the object of an ancestor).
* AsyncComponent: a call without a rendering instance, which only asks.
* Options: assets, and the many forms in which options may be written.
* Compiler: expressions, filters, handlers with modifiers, the text of attributes,
  error messages; v-model's code is in VModel. No two codes of slots have the same
  hash (`codegen/index.ts:472-479`).
* SsrRender: templates around a page, preload links, bundles.
* Transition: how the end of a CSS transition is told from its styles; explicit
  durations.
* VModel: `v-model` on components, dynamic input types, `range`, workarounds for
  Internet Explorer.
* The single-file component compiler, the modules that write attributes, classes,
  styles and DOM events, builds and tools: text to text, or one write, without a
  state that two parties share.

## 9 Plan

1. **Proofs about VModel and KeepAlive.** `ViewShowsData`, and the part of
   `NoneLost` on keys and cache.
2. **An abstract queue of jobs** which Scheduler implements: each request made
   before a callback is served before it.
3. **Events**: `$emit` re-entered, `$once`, the invokers of `update-listeners`.
4. **Getters that throw or tear down watchers**, in Reactivity.
