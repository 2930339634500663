------------------------------- MODULE SsrRender -------------------------------
(***************************************************************************)
(* The server renderer (packages/server-renderer/src): renderNode and its  *)
(* helpers, the stack of RenderContext.next, the component cache, the      *)
(* write function, renderToString and RenderStream.                        *)
(*                                                                         *)
(* A request renders a page.  Its rendering runs until it has to wait: for *)
(* a serverPrefetch, for the factory of an async component, for a cache    *)
(* that answers by a callback, for the next tick when the stack is deep,   *)
(* or for the consumer of the stream.  Requests interleave at these points *)
(* and share the cache.  Html is a sequence of tokens, and the length of a *)
(* buffer is their number.  An open tag tells the component instance that  *)
(* rendered it, whether v-show hides it and whether it is marked as the    *)
(* root of a page.                                                         *)
(*                                                                         *)
(* External: the cache, which may drop an entry; process.nextTick; and     *)
(* Readable, which calls _read again only after a push.                    *)
(***************************************************************************)
EXTENDS Integers, Sequences, FiniteSets, SequencesExt, TLC

CONSTANTS
  Components,  \* names of components
  Definition,  \* of each: cached, registers, prefetch, throws, root
  Pages,       \* the components that requests render
  Requests,
  CacheKinds,  \* [has, later]: implements has; answers by a callback
  Sizes,       \* what _read may ask for
  MAX_STACK_DEPTH,
  MaxEvictions, \* bound of the model
  None

VARIABLES
  req,       \* the state of each request
  cache,     \* [key -> [html, components]]
  cacheKind,
  crashed,   \* an exception that nobody catches
  evictions

vars == <<req, cache, cacheKind, crashed, evictions>>

Request(page, mode) ==
  [page |-> page, mode |-> mode,
   wait |-> [w |-> "start"],    \* what the rendering waits for
   stack |-> <<>>,              \* renderStates
   active |-> <<>>,             \* activeInstance, under the instances around it
   caching |-> FALSE, cacheBuffer |-> <<>>, componentBuffer |-> <<>>,
   out |-> <<>>,                \* result; the buffer of a stream
   registered |-> {},           \* the components userContext knows of
   answers |-> <<>>,            \* calls of cb; the end or the errors of the stream
   want |-> 0, next |-> FALSE, reading |-> FALSE, done |-> FALSE, eof |-> FALSE,
   pushed |-> <<>>]

-----------------------------------------------------------------------------
(***************************************************************************)
(* A task is what runs without interruption: the request, the cache, the   *)
(* depth of the stack, and who catches what is thrown.                     *)
(***************************************************************************)
Task(r, catch) ==
  [q |-> [req[r] EXCEPT !.wait = None], cache |-> cache, depth |-> 0,
   catch |-> catch, crashed |-> crashed]

WaitFor(s, what) == [s EXCEPT !.q.wait = what]

\* Readable.push, external
Push(q, text) ==
  IF q.eof THEN [q EXCEPT !.answers = Append(@, <<"error">>)]
  ELSE [q EXCEPT !.pushed = @ \o text, !.reading = FALSE]

PushBySize(q, n) ==
  Push([q EXCEPT !.out = SubSeq(@, n + 1, Len(@))],
       SubSeq(q.out, 1, IF n < Len(q.out) THEN n ELSE Len(q.out)))

\* cb(err), or the error event of the stream
Report(s) == [s EXCEPT !.q.answers = Append(@, <<"error">>)]

\* context.done: a stream ends whether or not there was an error
Done(s, failed) ==
  IF s.q.mode = "stream" THEN [s EXCEPT !.q = Push([@ EXCEPT !.done = TRUE], @.out)]
  ELSE IF failed THEN Report(s)
  ELSE [s EXCEPT !.q.answers = Append(@, <<"html", s.q.out>>)]

Throw(s) ==
  CASE s.catch = "report" -> Report(s)
    [] s.catch = "done" -> Done(s, TRUE)
    [] s.catch = "nobody" -> [s EXCEPT !.crashed = TRUE]

PushState(s, state) == [s EXCEPT !.q.stack = Append(@, state)]

\* registerComponentForCache
RegisterForCache(s, c) ==
  IF s.q.caching /\ Definition[c].registers
  THEN [s EXCEPT !.q.componentBuffer[Len(s.q.componentBuffer)] = @ \union {c}] ELSE s

Registers(c) == IF Definition[c].registers THEN {c} ELSE {}

\* The state 'ComponentWithCache' of next: the entry is complete.
\* mutant: the html of a nested component is not merged into the outer one
LeaveCacheUnmerged(s, top) ==
  LET i == top.bufferIndex IN
  [s EXCEPT
     !.cache = (top.key :> [html |-> s.q.cacheBuffer[i],
                            components |-> s.q.componentBuffer[i]]) @@ @,
     !.q.caching = (i # 1),
     !.q.cacheBuffer = SubSeq(@, 1, i - 1),
     !.q.componentBuffer = SubSeq(@, 1, i - 1)]

LeaveCache(s, top) ==
  LET i == top.bufferIndex
      html == s.q.cacheBuffer[i]
      components == s.q.componentBuffer[i]
      Outer(b) == SubSeq(b, 1, i - 1)
  IN [s EXCEPT
        !.cache = (top.key :> [html |-> html, components |-> components]) @@ @,
        !.q.caching = (i # 1),
        !.q.cacheBuffer =
           IF i = 1 THEN <<>> ELSE [Outer(@) EXCEPT ![i - 1] = @ \o html],
        !.q.componentBuffer =
           IF i = 1 THEN <<>> ELSE [Outer(@) EXCEPT ![i - 1] = @ \union components]]

\* renderStartingTag; show holds the value of the outermost v-show
StartingTag(n, active, isRoot) ==
  <<"open", n.id, Last(active), n.show = <<FALSE>>, isRoot>>

\* getVShowDirectiveInfo: a v-show further out decides
Inherit(n, show) == IF show = <<>> THEN n ELSE [n EXCEPT !.show = show]

RECURSIVE Next_(_), Write(_, _), RenderNode(_, _, _), Resolve(_, _), GetAnswers(_, _),
          HasAnswers(_, _)

\* cachedWrite, over the write of renderToString or of RenderStream
Write(s, text) ==
  LET q1 == [s.q EXCEPT
               !.cacheBuffer = IF s.q.caching THEN [@ EXCEPT ![Len(@)] = @ \o text] ELSE @,
               !.out = @ \o text]
  IN IF q1.mode = "stream" /\ Len(q1.out) >= q1.want
     THEN [s EXCEPT !.q = PushBySize([q1 EXCEPT !.next = TRUE], q1.want)]
     ELSE IF s.depth >= MAX_STACK_DEPTH THEN WaitFor([s EXCEPT !.q = q1], [w |-> "defer"])
     ELSE Next_([s EXCEPT !.q = q1, !.depth = @ + 1])

\* RenderContext.next
Next_(s) ==
  LET top == Last(s.q.stack)
      popped == [s EXCEPT !.q.stack = Front(@)]
  IN IF s.q.stack = <<>> THEN Done(s, FALSE)
     ELSE CASE top.type \in {"Element", "Fragment"} /\ top.rendered < Len(top.children) ->
                 RenderNode([s EXCEPT !.q.stack[Len(s.q.stack)].rendered = @ + 1],
                            top.children[top.rendered + 1], FALSE)
            [] top.type = "Element" /\ top.rendered = Len(top.children) ->
                 Write(popped, <<top.endTag>>)
            [] top.type = "Fragment" /\ top.rendered = Len(top.children) -> Next_(popped)
            [] top.type = "Component" -> Next_([popped EXCEPT !.q.active = top.prevActive])
            [] top.type = "ComponentWithCache" -> Next_(LeaveCache(popped, top))

\* renderElement and renderStringNode: the start tag, then the children
RenderElement(s, n, start) ==
  LET endTag == <<"close", n.id>> IN
  IF n.children = <<>> THEN Write(s, <<start, endTag>>)
  ELSE Write(PushState(s, [type |-> "Element", children |-> n.children,
                           rendered |-> 0, endTag |-> endTag]), <<start>>)

\* waitForServerPrefetch: a handler that throws rejects, and then resolves
WaitForPrefetch(s, c, resolve) ==
  CASE Definition[c].prefetch = "none" -> Resolve(s, resolve)
    [] Definition[c].prefetch = "throws" -> Resolve(Done(s, TRUE), resolve)
    [] Definition[c].prefetch \in {"waits", "rejects"} -> WaitFor(s, resolve)

\* The resolve of renderComponentInner and of render; n is None for the page
Resolve(s, k) ==
  LET n == k.node
      def == Definition[Last(s.q.active).c]
      root == IF n = None THEN def.root ELSE Inherit(def.root, n.show)
      entered == IF n = None THEN s
                 ELSE PushState(s, [type |-> "Component", prevActive |-> k.prevActive])
  IN IF def.throws THEN Throw(s) ELSE RenderNode(entered, root, k.isRoot)

\* renderComponentInner
\* mutant: the children of the page are rendered under the page
RenderComponentInnerFlat(s, n, isRoot) ==
  LET created == [s EXCEPT
        !.q.active = <<Head(@), [c |-> n.comp, prop |-> n.prop]>>,
        !.q.registered = @ \union Registers(n.comp)]
  IN WaitForPrefetch(created, n.comp,
       [w |-> "prefetch", node |-> n, isRoot |-> isRoot, prevActive |-> <<Head(s.q.active)>>])

RenderComponentInner(s, n, isRoot) ==
  LET created == [s EXCEPT
        !.q.active = Append(@, [c |-> n.comp, prop |-> n.prop]),
        !.q.registered = @ \union Registers(n.comp)]
  IN WaitForPrefetch(created, n.comp,
       [w |-> "prefetch", node |-> n, isRoot |-> isRoot, prevActive |-> s.q.active])

RenderComponentWithCache(s, k) ==
  LET q1 == [s.q EXCEPT !.caching = TRUE,
                        !.cacheBuffer = Append(@, <<>>),
                        !.componentBuffer = Append(@, {})]
      state == [type |-> "ComponentWithCache", key |-> k.key, bufferIndex |-> Len(q1.cacheBuffer)]
  IN RenderComponentInner(PushState([s EXCEPT !.q = q1], state), k.node, k.isRoot)

\* The callbacks of has and get.  Without has, get tells a miss.
HasAnswers(s, k) ==
  IF k.key \notin DOMAIN s.cache THEN RenderComponentWithCache(s, k)
  ELSE IF cacheKind.later THEN WaitFor(s, [k EXCEPT !.w = "get"]) ELSE GetAnswers(s, k)

GetAnswers(s, k) ==
  LET res == s.cache[k.key]
      hit == [s EXCEPT !.q.registered = @ \union Registers(k.node.comp) \union res.components]
  IN CASE k.key \in DOMAIN s.cache -> Write(hit, res.html)
       [] k.key \notin DOMAIN s.cache /\ cacheKind.has -> Throw(s)
       [] k.key \notin DOMAIN s.cache /\ ~cacheKind.has -> RenderComponentWithCache(s, k)

\* A component whose serverCacheKey is false has None for its prop.
RenderComponent(s0, n, isRoot) ==
  LET s == RegisterForCache(s0, n.comp)
      k == [w |-> IF cacheKind.has THEN "has" ELSE "get",
            node |-> n, isRoot |-> isRoot, key |-> <<n.comp, n.prop>>]
  IN IF ~Definition[n.comp].cached \/ cacheKind = None \/ n.prop = None
     THEN RenderComponentInner(s, n, isRoot)
     ELSE IF cacheKind.later THEN WaitFor(s, k)
     ELSE IF cacheKind.has THEN HasAnswers(s, k) ELSE GetAnswers(s, k)

\* The resolve of renderAsyncComponent: the data of the placeholder goes to a
\* component; a functional one may return a node, several, or nothing.
AsyncResolve(s, n, isRoot) ==
  CASE Len(n.result) = 0 -> Write(s, <<<<"comment">>>>)
    [] Len(n.result) = 1 ->
         LET node == n.result[1] IN
         RenderNode(s, IF node.kind = "component" THEN [node EXCEPT !.show = n.show] ELSE node, isRoot)
    [] Len(n.result) > 1 ->
         Next_(PushState(s, [type |-> "Fragment", children |-> n.result, rendered |-> 0]))

\* factory.resolved; a factory that answers at once, inside its try; or later
RenderAsyncComponent(s, n, isRoot) ==
  CASE n.answers = "resolved" -> AsyncResolve(s, n, isRoot)
    [] n.answers = "now" /\ ~n.fails -> AsyncResolve([s EXCEPT !.catch = "done"], n, isRoot)
    [] n.answers = "now" /\ n.fails -> Done(s, TRUE)
    [] n.answers \in {"promise", "callback"} ->
         WaitFor(s, [w |-> "factory", node |-> n, isRoot |-> isRoot])

RenderNode(s, n, isRoot) ==
  CASE n.kind = "string" -> RenderElement(s, n, <<"open", n.id>>)
    [] n.kind = "component" -> RenderComponent(s, n, isRoot)
    [] n.kind = "element" -> RenderElement(s, n, StartingTag(n, s.q.active, isRoot))
    [] n.kind = "async" -> RenderAsyncComponent(s, n, isRoot)
    [] n.kind = "text" -> Write(s, <<<<"text", n.id>>>>)

\* createRenderFunction: the page is the first active instance
Render(s) ==
  LET page == s.q.page
      begun == [s EXCEPT !.q.active = <<[c |-> page, prop |-> None]>>,
                         !.q.registered = Registers(page)]
  IN WaitForPrefetch(begun, page,
       [w |-> "prefetch", node |-> None, isRoot |-> TRUE, prevActive |-> <<>>])

-----------------------------------------------------------------------------
Finish(r, s) ==
  /\ req' = [req EXCEPT ![r] = s.q]
  /\ cache' = s.cache
  /\ crashed' = s.crashed
  /\ UNCHANGED <<cacheKind, evictions>>

Waits(r, w) == ~crashed /\ req[r].wait # None /\ req[r].wait.w = w

\* renderToString
Start(r) ==
  /\ Waits(r, "start") /\ req[r].mode = "string"
  /\ Finish(r, Render(Task(r, "report")))

\* The promises of serverPrefetch settle: then(resolve).catch(reject).
PrefetchSettles(r) ==
  /\ Waits(r, "prefetch")
  /\ LET s == Task(r, "done") IN
     Finish(r, IF Definition[Last(req[r].active).c].prefetch = "rejects"
               THEN Done(s, TRUE) ELSE Resolve(s, req[r].wait))

FactorySettles(r) ==
  /\ Waits(r, "factory")
  /\ LET k == req[r].wait
         s == Task(r, IF k.node.answers = "promise" THEN "done" ELSE "nobody")
     IN Finish(r, IF k.node.fails THEN Done(s, TRUE) ELSE AsyncResolve(s, k.node, k.isRoot))

CacheAnswers(r) ==
  \/ Waits(r, "has") /\ Finish(r, HasAnswers(Task(r, "nobody"), req[r].wait))
  \/ Waits(r, "get") /\ Finish(r, GetAnswers(Task(r, "nobody"), req[r].wait))

\* The defer of write.ts runs on the next tick.
Deferred(r) ==
  /\ Waits(r, "defer")
  /\ Finish(r, Next_(Task(r, "report")))

\* The rendering of a stream begins, or goes on at next.
Continue(s) == IF s.q.next THEN Next_(s) ELSE Render(s)

\* RenderStream._read
\* mutant: the end is not told
ReadNoEnd(r, n) ==
  LET q == [req[r] EXCEPT !.want = n, !.reading = TRUE,
                          !.wait = IF @ = [w |-> "start"] THEN None ELSE @]
      s == [Task(r, "report") EXCEPT !.q = q]
  IN /\ ~crashed
     /\ q.mode = "stream" /\ ~req[r].reading /\ ~q.eof
     /\ Finish(r, IF Len(q.out) >= n THEN [s EXCEPT !.q = PushBySize(q, n)]
                  ELSE IF q.done THEN s ELSE Continue(s))

Read(r, n) ==
  LET q == [req[r] EXCEPT !.want = n, !.reading = TRUE,
                          !.wait = IF @ = [w |-> "start"] THEN None ELSE @]
      s == [Task(r, "report") EXCEPT !.q = q]
      end == [q EXCEPT !.eof = TRUE, !.answers = Append(@, <<"html", q.pushed>>)]
  IN /\ ~crashed
     /\ q.mode = "stream" /\ ~req[r].reading /\ ~q.eof
     /\ Finish(r, IF q.done THEN [s EXCEPT !.q = end]
                  ELSE IF Len(q.out) >= n THEN [s EXCEPT !.q = PushBySize(q, n)]
                  ELSE Continue(s))

\* The cache drops an entry, external.
Evict(k) ==
  /\ ~crashed /\ k \in DOMAIN cache /\ evictions < MaxEvictions
  /\ cache' = [x \in DOMAIN cache \ {k} |-> cache[x]]
  /\ evictions' = evictions + 1
  /\ UNCHANGED <<req, cacheKind, crashed>>

Init ==
  /\ \E page \in [Requests -> Pages], mode \in [Requests -> {"string", "stream"}] :
       req = [r \in Requests |-> Request(page[r], mode[r])]
  /\ cache = <<>>
  /\ cacheKind \in CacheKinds
  /\ crashed = FALSE
  /\ evictions = 0

Step(r) ==
  \/ Start(r)
  \/ PrefetchSettles(r)
  \/ FactorySettles(r)
  \/ CacheAnswers(r)
  \/ Deferred(r)
  \/ \E n \in Sizes : Read(r, n)

Next ==
  \/ \E r \in Requests : Step(r)
  \/ \E k \in DOMAIN cache : Evict(k)

Spec == Init /\ [][Next]_vars

-----------------------------------------------------------------------------
(***************************************************************************)
(* What a page looks like, without stack, cache and waiting.               *)
(***************************************************************************)
RECURSIVE Html(_, _, _), Parts(_)

AllHtml(nodes, by) == FoldLeft(LAMBDA h, n : h \o Html(n, by, FALSE), <<>>, nodes)

Html(n, by, isRoot) ==
  CASE n.kind = "text" -> <<<<"text", n.id>>>>
    [] n.kind = "string" -> <<<<"open", n.id>>>> \o AllHtml(n.children, by) \o <<<<"close", n.id>>>>
    [] n.kind = "element" ->
         <<StartingTag(n, <<by>>, isRoot)>> \o AllHtml(n.children, by) \o <<<<"close", n.id>>>>
    [] n.kind = "component" ->
         Html(Inherit(Definition[n.comp].root, n.show), [c |-> n.comp, prop |-> n.prop], isRoot)
    [] n.kind = "async" /\ Len(n.result) = 0 -> <<<<"comment">>>>
    [] n.kind = "async" /\ Len(n.result) = 1 ->
         LET node == n.result[1] IN
         Html(IF node.kind = "component" THEN [node EXCEPT !.show = n.show] ELSE node, by, isRoot)
    [] n.kind = "async" /\ Len(n.result) > 1 -> AllHtml(n.result, by)

PageHtml(page) == Html(Definition[page].root, [c |-> page, prop |-> None], TRUE)

\* A node with the nodes inside it, those of its components included
Parts(n) ==
  {n} \union
  UNION {Parts(x) : x \in CASE n.kind \in {"element", "string"} -> ToSet(n.children)
                            [] n.kind = "component" -> {Definition[n.comp].root}
                            [] n.kind = "async" -> ToSet(n.result)
                            [] n.kind = "text" -> {}}

Used(page) ==
  {page} \union {n.comp : n \in {p \in Parts(Definition[page].root) : p.kind = "component"}}

Fails(page) ==
  \/ \E c \in Used(page) : Definition[c].throws \/ Definition[c].prefetch \in {"rejects", "throws"}
  \/ \E p \in Parts(Definition[page].root) : p.kind = "async" /\ p.fails

\* The components of a page that are not inside two cached ones
RECURSIVE Outside(_, _)
Outside(n, depth) ==
  CASE n.kind \in {"element", "string"} -> UNION {Outside(x, depth) : x \in ToSet(n.children)}
    [] n.kind = "async" -> UNION {Outside(x, depth) : x \in ToSet(n.result)}
    [] n.kind = "text" -> {}
    [] n.kind = "component" ->
         LET d == depth + (IF Definition[n.comp].cached /\ n.prop # None THEN 1 ELSE 0) IN
         {n.comp} \union (IF d >= 2 THEN {} ELSE Outside(Definition[n.comp].root, d))

Htmls(r) == {a \in ToSet(req[r].answers) : a[1] = "html"}

-----------------------------------------------------------------------------
(***************************************************************************)
(* Properties.                                                             *)
(***************************************************************************)
\* Whatever was awaited, deferred, pushed in pieces or taken from a cache that
\* another request fills or drops entries of, a page that is answered has the
\* html of its components in order, each tag rendered by its own component; and
\* all that the page uses, but for components inside two cached ones, registered
\* (context.next, renderComponent, RenderStream).  A stream whose page fails may
\* end early, since RenderStream.end ignores the error it is given.
RightHtml ==
  \A r \in Requests :
    LET page == req[r].page IN
    (req[r].mode = "string" \/ ~Fails(page)) =>
      \A a \in Htmls(r) :
        /\ a[2] = PageHtml(page)
        /\ \A c \in Outside(Definition[page].root, 0) : Registers(c) \subseteq req[r].registered

\* An entry of the cache is the whole html of its component, never that of a
\* rendering that failed, waited or was merged half-way (renderComponentWithCache,
\* the state ComponentWithCache of next).
CacheIsRight ==
  \A k \in DOMAIN cache :
    cache[k].html = Html(Definition[k[1]].root, [c |-> k[1], prop |-> k[2]], FALSE)

\* A request is answered once, and then nothing of it goes on: no callback is
\* called for a request that failed, no chunk follows the end of a stream.
\* (waitForServerPrefetch breaks this for a handler that throws: it rejects and
\* resolves.)
AnsweredOnce(r) ==
  (\A c \in Used(req[r].page) : Definition[c].prefetch # "throws") =>
    /\ Len(req[r].answers) <= 1
    /\ req[r].answers # <<>> => req[r].wait = None

\* The process dies only of a cache that answers later and dropped the entry it
\* said it has, or of a render function that throws in a bare callback.
MayCrash ==
  \/ cacheKind # None /\ cacheKind.later
  \/ \E r \in Requests : \E p \in Parts(Definition[req[r].page].root) :
       p.kind = "async" /\ p.answers = "callback"

\* Every request is answered once (AnsweredOnce), and one that is not answered
\* yet waits for something that comes: a promise, a callback, the next tick, or a
\* consumer that Readable asks for more.  No rendering is left with a next that
\* nobody calls (RenderStream._read and its write, defer, has, get, resolve and
\* reject), and no error escapes but from a bare callback (MayCrash).
NobodyIsStuck ==
  /\ crashed => MayCrash
  /\ \A r \in Requests :
       /\ AnsweredOnce(r)
       /\ req[r].answers = <<>> /\ ~crashed =>
            req[r].wait # None \/ (req[r].mode = "stream" /\ ~req[r].reading)
=============================================================================
