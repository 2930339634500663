-------------------------------- MODULE Options --------------------------------
(***************************************************************************)
(* mergeOptions and its strategies (src/core/util/options.ts), the         *)
(* constructors made by Vue.extend (src/core/global-api/extend.ts), global *)
(* mixins, and resolveConstructorOptions (src/core/instance/init.ts),      *)
(* which brings the options of a constructor up to date when those of a    *)
(* constructor above it were replaced.                                     *)
(*                                                                         *)
(* Options have the functions of one hook, the handlers of one watched key,*)
(* one method and data, a set of keys with values.  A field is a value     *)
(* with the moment at which its object was made, so that two fields are    *)
(* equal when they are the same object.  Raw options are those that the    *)
(* user writes.                                                            *)
(***************************************************************************)
EXTENDS Integers, Sequences, FiniteSets, SequencesExt

CONSTANTS
  Raws,         \* names of raw options objects
  Written,      \* what each raw object says: hook, watch, method, data, mixins
  Extendable,   \* the raw objects given to extend
  Mixable,      \* the raw objects given to mixin
  Attached,     \* a hook that is attached to the options of a constructor
  MaxCtors, MaxOps, \* bounds of the model
  None

ASSUME OptionsAssumption ==
  /\ Extendable \subseteq Raws /\ Mixable \subseteq Raws
  /\ \A r \in Raws : ToSet(Written[r].mixins) \subseteq Raws
  /\ \A r \in Mixable : Written[r].mixins = <<>>

VARIABLES
  ctors,  \* the constructors in the order they were made; the first is Vue
  raws,   \* the raw objects as they are now
  clock,  \* when an object was made
  own,    \* history: what was given to each constructor itself, in order
  ops

vars == <<ctors, raws, clock, own, ops>>

Fields == {"hook", "watch", "method", "data", "mixins"}

Field(v, at) == [v |-> v, at |-> at]

-----------------------------------------------------------------------------
(***************************************************************************)
(* Strategies.                                                             *)
(***************************************************************************)
dedupeHooks(hooks) ==
  FoldLeft(LAMBDA res, f : IF Contains(res, f) THEN res ELSE Append(res, f), <<>>, hooks)

\* mutant: hooks are not deduplicated
mergeHooksTwice(parent, child, at) ==
  IF parent.v \o child.v = <<>> THEN parent ELSE Field(parent.v \o child.v, at)

mergeLifecycleHook(parent, child, at) ==
  IF parent.v \o child.v = <<>> THEN parent ELSE Field(dedupeHooks(parent.v \o child.v), at)

mergeWatch(parent, child, at) ==
  IF child.v # <<>> /\ parent.v = <<>> THEN child
  ELSE IF child.v \o parent.v = <<>> THEN parent ELSE Field(parent.v \o child.v, at)

\* methods, and props, inject and computed
mergeHash(parent, child, at) ==
  IF parent.v = None THEN child
  ELSE Field(IF child.v = None THEN parent.v ELSE child.v, at)

\* A key that the child has already is kept; that values which are both objects
\* are merged in turn is left out.
mergeData(to, from) == to \union { p \in from : ~\E q \in to : q[1] = p[1] }

mergeDataOrFn(parent, child, at) ==
  IF child.v = {} THEN parent ELSE IF parent.v = {} THEN child
  ELSE Field(mergeData(child.v, parent.v), at)

defaultStrat(parent, child) == IF child.v \in {None, <<>>} THEN parent ELSE child

\* Merged options have _base, and their mixins are not applied again.
RECURSIVE mergeOptions(_, _, _, _)
mergeOptions(R, parent, child, at) ==
  LET up == IF child.base THEN parent
            ELSE FoldLeft(LAMBDA o, r : mergeOptions(R, o, R[r], at), parent, child.mixins.v)
  IN  [ hook   |-> mergeLifecycleHook(up.hook, child.hook, at),
        watch  |-> mergeWatch(up.watch, child.watch, at),
        method |-> mergeHash(up.method, child.method, at),
        data   |-> mergeDataOrFn(up.data, child.data, at),
        mixins |-> defaultStrat(up.mixins, child.mixins),
        base   |-> TRUE,
        id     |-> at ]

-----------------------------------------------------------------------------
(***************************************************************************)
(* Constructors.                                                           *)
(***************************************************************************)
World == [ctors |-> ctors, raws |-> raws, clock |-> clock]
Become(W) == ctors' = W.ctors /\ raws' = W.raws /\ clock' = W.clock

\* mutant: what was attached late is forgotten
modifiedNone(C) == {}

\* resolveModifiedOptions
modifiedFields(C) == { f \in Fields : C.options[f] # C.sealed[f] }

RECURSIVE resolveConstructorOptions(_, _)
resolveConstructorOptions(W, c) ==
  LET C == W.ctors[c]
  IN  IF C.super = None THEN W
      ELSE LET V   == resolveConstructorOptions(W, C.super)
               new == V.ctors[C.super].options
               raw == V.raws[C.extendOptions]
               X   == [raw EXCEPT !.hook   = IF "hook" \in modifiedFields(C) THEN C.options.hook ELSE @,
                                  !.watch  = IF "watch" \in modifiedFields(C) THEN C.options.watch ELSE @,
                                  !.method = IF "method" \in modifiedFields(C) THEN C.options.method ELSE @,
                                  !.data   = IF "data" \in modifiedFields(C) THEN C.options.data ELSE @,
                                  !.mixins = IF "mixins" \in modifiedFields(C) THEN C.options.mixins ELSE @]
               R   == [V.raws EXCEPT ![C.extendOptions] = X]
           IN  IF new.id = C.superOptions THEN V
               ELSE [clock |-> V.clock + 1, raws |-> R,
                     ctors |-> [V.ctors EXCEPT ![c].superOptions = new.id,
                                               ![c].options = mergeOptions(R, new, X, V.clock + 1)]]

Resolved(c) == resolveConstructorOptions(World, c).ctors[c].options

Nothing == [hook |-> Field(<<>>, 0), watch |-> Field(<<>>, 0), method |-> Field(None, 0), data |-> Field({}, 0),
            mixins |-> Field(<<>>, 0), base |-> TRUE, id |-> 0]

\* history: what o adds to what a constructor was given
Given(G, o) == [hook |-> dedupeHooks(G.hook \o o.hook.v), watch |-> G.watch \o o.watch.v,
                method |-> IF o.method.v = None THEN G.method ELSE o.method.v,
                data |-> mergeData(o.data.v, G.data)]
GivenNothing == [hook |-> <<>>, watch |-> <<>>, method |-> None, data |-> {}]
WithMixins(r) == mergeOptions(raws, Nothing, raws[r], clock)

Init ==
  /\ ctors = << [options |-> Nothing, sealed |-> Nothing, super |-> None,
                 superOptions |-> 0, extendOptions |-> None] >>
  /\ raws = [r \in Raws |->
       [hook |-> Field(Written[r].hook, 0), watch |-> Field(Written[r].watch, 0),
        method |-> Field(Written[r].method, 0), data |-> Field(Written[r].data, 0),
        mixins |-> Field(Written[r].mixins, 0), base |-> FALSE, id |-> 0]]
  /\ clock = 0 /\ ops = 0 /\ own = <<GivenNothing>>

Op == ops < MaxOps /\ ops' = ops + 1

\* Vue.extend; a second call with the same object gives the same constructor.
Extend(s, r) ==
  /\ Op /\ Len(ctors) < MaxCtors
  /\ ~\E c \in DOMAIN ctors : ctors[c].extendOptions = r
  /\ LET o == mergeOptions(raws, ctors[s].options, raws[r], clock + 1)
     IN  ctors' = Append(ctors, [options |-> o, sealed |-> o, super |-> s,
                                 superOptions |-> ctors[s].options.id, extendOptions |-> r])
  /\ clock' = clock + 1
  /\ own' = Append(own, Given(GivenNothing, WithMixins(r)))
  /\ UNCHANGED raws

ReplaceOptions(c, o) ==
  /\ ctors' = [ctors EXCEPT ![c].options = o]
  /\ clock' = clock + 1
  /\ UNCHANGED raws

\* Ctor.mixin(raw)
Mixin(c, r) ==
  /\ Op
  /\ ReplaceOptions(c, mergeOptions(raws, ctors[c].options, raws[r], clock + 1))
  /\ own' = [own EXCEPT ![c] = Given(@, WithMixins(r))]

\* Ctor.mixin(OtherCtor): its options as they are.  Mixins with mixins of their
\* own are only given to extend, see the README.
MixinCtor(c, d) ==
  /\ Op /\ c # d /\ ctors[d].options.mixins.v = <<>>
  /\ ReplaceOptions(c, mergeOptions(raws, ctors[c].options, ctors[d].options, clock + 1))
  /\ own' = [own EXCEPT ![c] = Given(@, ctors[d].options)]

\* Ctor.options.created = Ctor.options.created.concat(fn), as tools do; those
\* that already extend Ctor do not see it before Ctor gets new options.
Attach(c) ==
  /\ Op /\ c # 1 /\ ~Contains(ctors[c].options.hook.v, Attached)
  /\ \A d \in DOMAIN ctors : ctors[d].super # c
  /\ ctors' = [ctors EXCEPT ![c].options.hook = Field(Append(@.v, Attached), clock + 1)]
  /\ clock' = clock + 1
  /\ own' = [own EXCEPT ![c].hook = dedupeHooks(Append(@, Attached))]
  /\ UNCHANGED raws

\* new Ctor(), or createComponent
Instantiate(c) ==
  /\ Op /\ Become(resolveConstructorOptions(World, c)) /\ UNCHANGED own

Next ==
  \/ \E s \in DOMAIN ctors, r \in Extendable : Extend(s, r)
  \/ \E c \in DOMAIN ctors, r \in Mixable : Mixin(c, r)
  \/ \E c, d \in DOMAIN ctors : MixinCtor(c, d)
  \/ \E c \in DOMAIN ctors : Attach(c) \/ Instantiate(c)

Spec == Init /\ [][Next]_vars

-----------------------------------------------------------------------------
(***************************************************************************)
(* Properties.                                                             *)
(***************************************************************************)
RECURSIVE Hooks(_)
Hooks(c) ==
  IF ctors[c].super = None THEN own[c].hook
  ELSE dedupeHooks(Hooks(ctors[c].super) \o own[c].hook)

RECURSIVE Handlers(_)
Handlers(c) ==
  ToSet(own[c].watch) \union (IF ctors[c].super = None THEN {} ELSE Handlers(ctors[c].super))

\* Whenever constructors are extended, mixed into, given hooks by tools and
\* instantiated, an instance calls every hook of its constructor and of those
\* above it, also the ones given to them later, once and those above first
\* (mergeLifecycleHook, resolveConstructorOptions, resolveModifiedOptions).
HooksOnceInOrder == \A c \in DOMAIN ctors : Resolved(c).hook.v = Hooks(c)

RECURSIVE Keys(_)
Keys(c) ==
  { p[1] : p \in own[c].data } \union (IF ctors[c].super = None THEN {} ELSE Keys(ctors[c].super))

\* However late constructors are extended, mixed into and changed, no handler of
\* a watched key and no key of data is lost on the way, and a method or data that
\* a constructor itself is given is not overridden by those above it
\* (strats.watch, mergeData, resolveConstructorOptions).
NothingLost ==
  \A c \in DOMAIN ctors :
    /\ ToSet(Resolved(c).watch.v) = Handlers(c)
    /\ { p[1] : p \in Resolved(c).data.v } = Keys(c)
    /\ own[c].method # None => Resolved(c).method.v = own[c].method
    /\ own[c].data \subseteq Resolved(c).data.v
===============================================================================
