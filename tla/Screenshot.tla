------------------------------ MODULE Screenshot ------------------------------
(***************************************************************************)
(* One page of the browser and the screenshots taken of it: a click on the *)
(* map page's button (index.js) runs html2canvas, a chain of promises over *)
(* a hidden clone of the document (html2canvas.js).  JavaScript runs one   *)
(* callback to its end: a chain of promise callbacks that waits for no     *)
(* event is one action, and while `turn' names a screenshot its loop over  *)
(* the images of the page is the only thing that runs.  Events (a frame or *)
(* an image that loads, fails or times out) come in any order.             *)
(*                                                                         *)
(* A screenshot is one of Shots; those in Frames are the nested ones, made *)
(* for an iframe inside the document of Owner[f].                          *)
(***************************************************************************)
EXTENDS Naturals, Sequences, FiniteSets

CONSTANTS Shots, Frames, Owner,
          Srcs,            \* the images of the page
          Images,          \* [Shots -> Seq(Srcs)]: in document order, with repeats
          Kind,            \* [Srcs -> ImageKinds]
          Reach,           \* [Frames -> {"same", "proxied", "empty"}]
          Silent,          \* images whose server never answers
          Options,         \* [Shots -> set of option records]
          SVGDraws, Base64Taints, ForeignDraws,   \* what the browser does
          NoShot

ImageKinds == {"same", "cors", "nocors", "base64", "svg", "blob", "canvas"}
OptionRecords ==
  [useCORS : BOOLEAN, allowTaint : BOOLEAN, proxy : BOOLEAN, imageTimeout : BOOLEAN,
   foreign : BOOLEAN, removeContainer : BOOLEAN,
   owned : BOOLEAN,      \* the element is in a document
   body : BOOLEAN,       \* that document has a body
   html : BOOLEAN,       \* the element is an HTML element
   drawable : BOOLEAN,   \* drawing its clone throws nothing
   onclone : {"none", "ok", "throws"}]

ASSUME FramesAssumption == /\ Frames \subseteq Shots
                           /\ Owner \in [Frames -> Shots]
                           /\ NoShot \notin Shots
ASSUME PageAssumption == /\ Images \in [Shots -> Seq(Srcs)]
                         /\ Kind \in [Srcs -> ImageKinds]
                         /\ Reach \in [Frames -> {"same", "proxied", "empty"}]
                         /\ Options \in [Shots -> SUBSET OptionRecords]
                         /\ Srcs \cap Frames = {}

Keys == Srcs \cup Frames

VARIABLES
  options,     \* [Shots -> OptionRecords]
  pc,          \* where each screenshot's promise chain is
  todo,        \* images its synchronous loop has still to visit
  turn,        \* the screenshot whose loop runs, or NoShot
  cache,       \* ResourceLoader.cache: [Shots -> [Keys -> entry]]
  anonymous,   \* image elements asked for with crossOrigin = 'anonymous'
  store,       \* keys ready() has collected
  containers,  \* hidden iframes attached to the document
  features,    \* the cached answers of FEATURES
  requests,    \* how often each source has been asked for
  tainted      \* screenshots whose canvas cannot be exported

vars == <<options, pc, todo, turn, cache, anonymous, store, containers,
          features, requests, tainted>>

Entries == {"none", "testing", "proxying", "fetching", "loading",   \* pending
            "hosting", "open", "nested", "drawing", "ok", "bad"}
Stages == {"idle", "feature", "iframe", "cloned", "parse", "inline", "fonts",
           "wait", "svg", "done", "failed", "saved"}

Pending(s, k) == cache[s][k] \notin {"none", "ok", "bad"}
SetEntry(s, k, e) == cache' = [cache EXCEPT ![s][k] = e]
Goto(s, stage) == pc' = [pc EXCEPT ![s] = stage]
Quiet == turn = NoShot
FramesOf(s) == {f \in Frames : Owner[f] = s}

Init ==
  /\ options \in [Shots -> UNION {Options[s] : s \in Shots}]
  /\ \A s \in Shots : options[s] \in Options[s]
  /\ pc = [s \in Shots |-> "idle"]
  /\ todo = [s \in Shots |-> <<>>]
  /\ turn = NoShot
  /\ cache = [s \in Shots |-> [k \in Keys |-> "none"]]
  /\ anonymous = {}
  /\ store = [s \in Shots |-> {}]
  /\ containers = {}
  /\ features = [base64 |-> "unknown", foreign |-> "unknown"]
  /\ requests = [s \in Shots |-> [k \in Srcs |-> 0]]
  /\ tainted = {}

-----------------------------------------------------------------------------
(* FEATURES: a getter that defines its own answer, a promise, on first use. *)

\* The state of a feature after one more use of its getter.
UseFeature(name, used) ==
  LET first == used /\ features[name] = "unknown" IN
  /\ features' = IF first THEN [features EXCEPT ![name] = "testing"] ELSE features

\* The data image of the test loads, and drawing it taints or not; or it fails.
\* Every image that waited for the answer is then asked for.
Base64Tested(answer) ==
  LET waiting == {p \in Shots \X Keys : cache[p[1]][p[2]] = "testing"} IN
  /\ Quiet /\ features.base64 = "testing"
  /\ answer \in {~Base64Taints, FALSE}
  /\ features' = [features EXCEPT !.base64 = IF answer THEN "yes" ELSE "no"]
  /\ cache' = [s \in Shots |-> [k \in Keys |->
                 IF <<s, k>> \in waiting THEN "loading" ELSE cache[s][k]]]
  /\ anonymous' = IF answer THEN anonymous ELSE anonymous \cup waiting
  /\ requests' = [s \in Shots |-> [k \in Srcs |->
                    requests[s][k] + IF <<s, k>> \in waiting THEN 1 ELSE 0]]
  /\ UNCHANGED <<options, pc, todo, turn, store, containers, tainted>>

ForeignTested ==
  /\ Quiet /\ features.foreign = "testing"
  /\ features' = [features EXCEPT !.foreign = IF ForeignDraws THEN "yes" ELSE "no"]
  /\ UNCHANGED <<options, pc, todo, turn, cache, anonymous, store, containers, requests, tainted>>

-----------------------------------------------------------------------------
(* ResourceLoader: what one source becomes in the cache.                   *)

SameOrigin(k) == Kind[k] \in {"same", "svg"}

\* A bug: useCORS is forgotten.
DataAnonymous(k, cors) == Kind[k] = "base64" /\ features.base64 = "no"
\* Whether addImage sets crossOrigin.
Anonymous(k, cors) == cors \/ (Kind[k] = "base64" /\ features.base64 = "no")

\* addImage of a base64 image waits for the feature; others are asked for.
AddImage(s, k, cors) ==
  LET data == Kind[k] = "base64"
      waits == data /\ features.base64 \notin {"yes", "no"} IN
  /\ UseFeature("base64", data)
  /\ SetEntry(s, k, IF waits THEN "testing" ELSE "loading")
  /\ anonymous' = IF Anonymous(k, cors) THEN anonymous \cup {<<s, k>>} ELSE anonymous
  /\ requests' = IF waits THEN requests ELSE [requests EXCEPT ![s][k] = @ + 1]

\* A request made at once, with no crossOrigin attribute.
Ask(s, k, entry) ==
  /\ SetEntry(s, k, entry)
  /\ requests' = [requests EXCEPT ![s][k] = @ + 1]
  /\ UNCHANGED <<anonymous, features>>

Skip == UNCHANGED <<cache, requests, anonymous, features>>

\* A bug: only what has arrived counts as cached.
HasArrived(s, k) == cache[s][k] \in {"ok", "bad"}
HasResource(s, k) == cache[s][k] # "none"

\* What a proxy answers is loaded outside addImage: no feature test, no crossOrigin.
LoadImage(s, k) ==
  IF HasResource(s, k) THEN Skip
  ELSE IF Kind[k] = "blob" THEN Ask(s, k, "loading")
  ELSE IF Kind[k] = "svg" /\ ~SVGDraws THEN Skip
  ELSE IF options[s].allowTaint \/ Kind[k] = "base64" \/ SameOrigin(k)
    THEN AddImage(s, k, FALSE)
  ELSE IF options[s].proxy THEN Ask(s, k, "proxying")
  ELSE IF options[s].useCORS THEN AddImage(s, k, TRUE)
  ELSE Skip

\* A canvas of the page: its clone is stored as it is.
LoadCanvas(s, k) == /\ SetEntry(s, k, "ok")
                    /\ UNCHANGED <<requests, anonymous, features>>

\* Of the foreign-object path, where a canvas has become an image of its own
\* data: data images are loaded outside the cache.
InlineImage(s, k) ==
  IF Kind[k] = "base64" \/ HasResource(s, k) THEN Skip
  ELSE IF ~SameOrigin(k) /\ options[s].proxy THEN Ask(s, k, "proxying")
  ELSE Ask(s, k, "fetching")

-----------------------------------------------------------------------------
(* The promise chain of a screenshot.                                      *)

Click(s) ==
  /\ Quiet /\ s \notin Frames /\ pc[s] = "idle"
  /\ Goto(s, IF options[s].owned THEN "feature" ELSE "failed")
  /\ UseFeature("foreign", options[s].owned /\ options[s].foreign)
  /\ UNCHANGED <<options, todo, turn, cache, anonymous, store, containers,
                 requests, tainted>>

\* The cloner starts one nested screenshot for every iframe of its document.
FrameEntry(s, f) ==
  CASE Reach[f] = "same" -> "open"
    [] options[s].proxy -> "proxying"
    [] OTHER -> "bad"
CloneFrames(s) == [k \in Keys |-> IF k \in FramesOf(s) THEN FrameEntry(s, k) ELSE cache[s][k]]

CloneWindow(s) ==
  /\ Quiet /\ pc[s] = "feature"
  /\ ~options[s].foreign \/ features.foreign = "no"
  /\ cache' = [cache EXCEPT ![s] = CloneFrames(s)]
  /\ IF options[s].body
       THEN Goto(s, "iframe") /\ containers' = containers \cup {<<s, "clone">>}
       ELSE Goto(s, "failed") /\ UNCHANGED containers
  /\ UNCHANGED <<options, todo, turn, anonymous, store, features,
                 requests, tainted>>

\* Every load event starts a poll of its own; the first that finds the clone
\* complete resolves the promise.
IframeLoads(s) ==
  /\ Quiet /\ pc[s] = "iframe"
  /\ Goto(s, IF options[s].html THEN "cloned" ELSE "failed")
  /\ UNCHANGED <<options, todo, turn, cache, anonymous, store, containers,
                 features, requests, tainted>>

OncloneThrows(s) ==
  /\ Quiet /\ pc[s] = "cloned" /\ options[s].onclone = "throws"
  /\ Goto(s, "failed")
  /\ UNCHANGED <<options, todo, turn, cache, anonymous, store, containers,
                 features, requests, tainted>>

\* NodeParser begins: from here to ready() no other callback runs.
StartParser(s) ==
  /\ Quiet /\ pc[s] = "cloned" /\ options[s].onclone # "throws"
  /\ Goto(s, "parse")
  /\ todo' = [todo EXCEPT ![s] = Images[s]]
  /\ turn' = s
  /\ UNCHANGED <<options, cache, anonymous, store, containers, features,
                 requests, tainted>>

ParseImage(s) ==
  /\ turn = s /\ pc[s] = "parse" /\ todo[s] # <<>>
  /\ LET k == Head(todo[s]) IN
       IF Kind[k] = "canvas" THEN LoadCanvas(s, k) ELSE LoadImage(s, k)
  /\ todo' = [todo EXCEPT ![s] = Tail(@)]
  /\ UNCHANGED <<options, pc, turn, store, containers, tainted>>

\* ready() collects the keys of the cache as it is now.
CollectKeys(s) == store' = [store EXCEPT ![s] = {k \in Keys : cache[s][k] # "none"}]

Parsed(s) ==
  /\ turn = s /\ pc[s] = "parse" /\ todo[s] = <<>>
  /\ CollectKeys(s)
  /\ Goto(s, "wait")
  /\ turn' = NoShot
  /\ UNCHANGED <<options, todo, cache, anonymous, containers, features,
                 requests, tainted>>

\* A bug: the first answer is enough.
ReadyRace(s) == store[s] = {} \/ \E k \in store[s] : ~Pending(s, k)
\* A rejected entry is logged and stands for no image.
Ready(s) == \A k \in store[s] : ~Pending(s, k)

\* The proxy answers with a data URL, and the image is loaded from that with no
\* crossOrigin attribute (_loadImage).
FromProxy(s, k) ==
  Kind[k] \in {"cors", "nocors"} /\ options[s].proxy /\ ~options[s].allowTaint

\* Of what was not asked for anonymously, an image of another origin taints, and
\* in some browsers a data image.
TaintsCanvas(s, k) ==
  /\ k \in Srcs /\ <<s, k>> \notin anonymous
  /\ IF Kind[k] = "base64" \/ FromProxy(s, k) THEN Base64Taints
     ELSE Kind[k] \in {"cors", "nocors"}

\* A bug: a rejected image is not caught.
RenderRejects(s) ==
  /\ Quiet /\ pc[s] = "wait" /\ ~(options[s].foreign /\ features.foreign = "yes")
  /\ Ready(s) /\ \E k \in store[s] : cache[s][k] = "bad"
  /\ Goto(s, "failed")
  /\ UNCHANGED <<options, todo, turn, cache, anonymous, store, containers,
                 features, requests, tainted>>
\* What throws while drawing leaves the clone attached.
RenderThrows(s) ==
  /\ Quiet /\ pc[s] = "wait" /\ ~(options[s].foreign /\ features.foreign = "yes")
  /\ Ready(s) /\ ~options[s].drawable
  /\ Goto(s, "failed")
  /\ UNCHANGED <<options, todo, turn, cache, anonymous, store, containers,
                 features, requests, tainted>>

Detach(s) == IF options[s].removeContainer THEN containers \ {<<s, "clone">>}
             ELSE containers

Render(s) ==
  /\ Quiet /\ pc[s] = "wait" /\ ~(options[s].foreign /\ features.foreign = "yes")
  /\ Ready(s) /\ options[s].drawable
  /\ Goto(s, "done")
  /\ tainted' = IF \E k \in store[s] : cache[s][k] = "ok" /\ TaintsCanvas(s, k)
                  THEN tainted \cup {s} ELSE tainted
  /\ containers' = Detach(s)
  /\ UNCHANGED <<options, todo, turn, cache, anonymous, store, features,
                 requests>>

-----------------------------------------------------------------------------
(* The foreign-object path: no iframe, resources inlined into the clone.   *)

InlineClone(s) ==
  /\ Quiet /\ pc[s] = "feature" /\ options[s].foreign /\ features.foreign = "yes"
  /\ cache' = [cache EXCEPT ![s] = CloneFrames(s)]
  /\ Goto(s, "inline")
  /\ todo' = [todo EXCEPT ![s] = Images[s]]
  /\ turn' = s
  /\ UNCHANGED <<options, anonymous, store, containers, features,
                 requests, tainted>>

InlineNext(s) ==
  /\ turn = s /\ pc[s] = "inline" /\ todo[s] # <<>>
  /\ LET k == Head(todo[s]) IN
       IF Kind[k] = "canvas" THEN Skip ELSE InlineImage(s, k)
  /\ todo' = [todo EXCEPT ![s] = Tail(@)]
  /\ UNCHANGED <<options, pc, turn, store, containers, tainted>>

\* A bug: the loop never gives up its turn.
InlinedRunning(s) ==
  /\ turn = s /\ pc[s] = "inline" /\ todo[s] = <<>>
  /\ Goto(s, "fonts")
  /\ UNCHANGED <<options, todo, turn, cache, anonymous, store, containers, features, requests, tainted>>
Inlined(s) ==
  /\ turn = s /\ pc[s] = "inline" /\ todo[s] = <<>>
  /\ Goto(s, "fonts")
  /\ turn' = NoShot
  /\ UNCHANGED <<options, todo, cache, anonymous, store, containers, features, requests, tainted>>

\* A style sheet that does not load has no fonts; a font file that does not
\* load rejects the chain.
FontsLoad(s) ==
  /\ Quiet /\ pc[s] = "fonts"
  /\ CollectKeys(s)
  /\ Goto(s, "wait")
  /\ UNCHANGED <<options, todo, turn, cache, anonymous, containers, features, requests, tainted>>
FontFails(s) ==
  /\ Quiet /\ pc[s] = "fonts"
  /\ Goto(s, "failed")
  /\ UNCHANGED <<options, todo, turn, cache, anonymous, store, containers,
                 features, requests, tainted>>

Serialize(s) ==
  /\ Quiet /\ pc[s] = "wait" /\ options[s].foreign /\ features.foreign = "yes"
  /\ Ready(s)
  /\ Goto(s, "svg")
  /\ UNCHANGED <<options, todo, turn, cache, anonymous, store, containers,
                 features, requests, tainted>>

SvgAnswers(s, result) ==
  /\ Quiet /\ pc[s] = "svg" /\ result \in {"done", "failed"}
  /\ Goto(s, result)
  /\ UNCHANGED <<options, todo, turn, cache, anonymous, store, containers,
                 features, requests, tainted>>

-----------------------------------------------------------------------------
(* Events of resources.  A promise that is settled ignores what comes after *)
(* it, so only pending entries move.                                       *)

\* The answer to a request: the next entry of its promise chain.
Answer(s, k) ==
  CASE cache[s][k] = "fetching" -> IF Kind[k] = "nocors" THEN {"bad"} ELSE {"loading", "bad"}
    [] cache[s][k] = "proxying" /\ k \in Srcs -> {"loading", "bad"}
    [] cache[s][k] = "proxying" /\ k \in Frames -> {"hosting", "bad"}
    [] cache[s][k] = "loading" ->
         IF Kind[k] = "nocors" /\ <<s, k>> \in anonymous THEN {"bad"} ELSE {"ok", "bad"}
    [] cache[s][k] = "drawing" -> {"ok", "bad"}
    [] OTHER -> {}

Answered(s, k) ==
  /\ Quiet /\ k \notin Silent
  /\ \E e \in Answer(s, k) :
       /\ SetEntry(s, k, e)
       /\ containers' = IF e = "hosting" THEN containers \cup {<<k, "host">>} ELSE containers
  /\ UNCHANGED <<options, pc, todo, turn, anonymous, store, features,
                 requests, tainted>>

\* A bug: only the proxy has a timer.
TimesOutProxy(s, k) ==
  /\ Quiet /\ options[s].imageTimeout /\ cache[s][k] = "proxying"
  /\ SetEntry(s, k, "bad")
  /\ UNCHANGED <<options, pc, todo, turn, anonymous, store, containers, features, requests, tainted>>
\* The timers of _loadImage, addImage, xhrImage and Proxy; the image that an
\* iframe becomes has none.
TimesOut(s, k) ==
  /\ Quiet /\ options[s].imageTimeout
  /\ cache[s][k] \in {"proxying", "fetching", "loading"}
  /\ SetEntry(s, k, "bad")
  /\ UNCHANGED <<options, pc, todo, turn, anonymous, store, containers, features, requests, tainted>>

\* A proxied document is written into an iframe of its own; the poll resolves
\* only once its body has a child.
HostLoads(f) ==
  /\ Quiet /\ cache[Owner[f]][f] = "hosting" /\ Reach[f] # "empty"
  /\ SetEntry(Owner[f], f, "open")
  /\ UNCHANGED <<options, pc, todo, turn, anonymous, store, containers, features, requests, tainted>>

\* The renderer called for the document of an iframe, with its owner's options.
StartFrame(f) ==
  LET o == Owner[f] IN
  /\ Quiet /\ cache[o][f] = "open"
  /\ SetEntry(o, f, "nested")
  /\ options' = [options EXCEPT ![f] = 
       [options[o] EXCEPT !.onclone = "none", !.owned = TRUE, !.body = TRUE,
                          !.html = TRUE, !.drawable = options[f].drawable]]
  /\ Goto(f, "feature")
  /\ UseFeature("foreign", options[o].foreign)
  /\ UNCHANGED <<todo, turn, anonymous, store, containers, requests, tainted>>

\* toDataURL of a tainted canvas throws, which rejects.
FrameEnds(f) ==
  /\ Quiet /\ cache[Owner[f]][f] = "nested" /\ pc[f] \in {"done", "failed"}
  /\ SetEntry(Owner[f], f, IF pc[f] = "done" /\ f \notin tainted THEN "drawing" ELSE "bad")
  /\ UNCHANGED <<options, pc, todo, turn, anonymous, store, containers, features, requests, tainted>>

\* The page exports the canvas and downloads it; a tainted one throws.
Save(s) ==
  /\ Quiet /\ s \notin Frames /\ pc[s] = "done"
  /\ Goto(s, IF s \in tainted THEN "failed" ELSE "saved")
  /\ UNCHANGED <<options, todo, turn, cache, anonymous, store, containers,
                 features, requests, tainted>>

-----------------------------------------------------------------------------
Chain(s) == \/ Click(s) \/ CloneWindow(s) \/ IframeLoads(s) \/ OncloneThrows(s)
            \/ StartParser(s) \/ ParseImage(s) \/ Parsed(s) \/ RenderThrows(s) \/ Render(s)
            \/ InlineClone(s) \/ InlineNext(s) \/ Inlined(s) \/ FontsLoad(s)
            \/ FontFails(s) \/ Serialize(s) \/ Save(s)
            \/ \E r \in {"done", "failed"} : SvgAnswers(s, r)
Frame(f) == HostLoads(f) \/ StartFrame(f) \/ FrameEnds(f)
Tests == (\E a \in BOOLEAN : Base64Tested(a)) \/ ForeignTested

Next == \/ Tests
        \/ \E s \in Shots : Chain(s) \/ \E k \in Keys : Answered(s, k) \/ TimesOut(s, k)
        \/ \E f \in Frames : Frame(f)

Spec == Init /\ [][Next]_vars

\* The browser goes on while an event it owes, a timer or a callback is left.  A
\* promise settles once and a screenshot passes each stage once, so nothing can
\* go on for ever and starve the rest: one condition for all is enough.
Fairness == WF_vars(Next)
FairSpec == Spec /\ Fairness
-----------------------------------------------------------------------------
(* Properties.                                                              *)

Ended == {"done", "saved", "failed"}

\* The types of the variables; a loop over images runs for one screenshot at a
\* time, and its promise chain is at that loop.
TypeOK ==
  /\ options \in [Shots -> OptionRecords]
  /\ pc \in [Shots -> Stages]
  /\ todo \in [Shots -> Seq(Srcs)]
  /\ turn \in Shots \cup {NoShot}
  /\ \A s \in Shots : turn = s <=> pc[s] \in {"parse", "inline"}
  /\ cache \in [Shots -> [Keys -> Entries]]
  /\ anonymous \subseteq Shots \X Keys
  /\ store \in [Shots -> SUBSET Keys]
  /\ containers \subseteq Shots \X {"clone", "host"}
  /\ features \in [{"base64", "foreign"} -> {"unknown", "testing", "yes", "no"}]
  /\ requests \in [Shots -> [Srcs -> Nat]]
  /\ tainted \subseteq Shots

\* Of what is drawn, an image that the proxy answered for.
DrewProxied(s) ==
  \E k \in store[s] \cap Srcs : cache[s][k] = "ok" /\ FromProxy(s, k)

\* A screenshot that may not taint its canvas does so for one reason only,
\* whatever the images, the answers of the feature tests and their order: it drew
\* an image that came through the proxy, in a browser whose data images taint.
NeverTainted ==
  \A s \in Shots : ~options[s].allowTaint /\ s \in tainted => Base64Taints /\ DrewProxied(s)

\* No picture is taken while something it asked for may still come: when a
\* screenshot is done nothing in its cache is pending.
DoneIsSettled ==
  \A s \in Shots : pc[s] \in {"done", "saved"} => \A k \in Keys : ~Pending(s, k)

\* A source that occurs several times in a document is asked for once, also
\* when the first occurrence still waits for a feature test.
AskedOnce == \A s \in Shots, k \in Srcs : requests[s][k] <= 1

\* Images that fail or time out never fail the screenshot they are in: it fails
\* for its element, its document, its callback, its drawing, its export or, on
\* the foreign-object path, a font or the serialized clone.
FailureHasCause ==
  \A s \in Shots : pc[s] = "failed" =>
    \/ ~options[s].owned \/ ~options[s].body \/ ~options[s].html
    \/ ~options[s].drawable \/ options[s].onclone = "throws"
    \/ s \in tainted \/ options[s].foreign

\* What no timer ends: a silent server when there is no imageTimeout, and a
\* proxied document without a body that the poll waits for.
Hangs(s, k) == \/ /\ cache[s][k] \in {"proxying", "fetching", "loading"}
                  /\ k \in Silent /\ ~options[s].imageTimeout
               \/ k \in Frames /\ cache[s][k] = "hosting" /\ Reach[k] = "empty"

\* Every click ends in a download or a rejection, unless something hangs that
\* nothing times out.
ClicksEnd ==
  \A s \in Shots \ Frames :
    pc[s] = "feature" ~> \/ pc[s] \in {"saved", "failed"}
                         \/ \E t \in Shots, k \in Keys : Hangs(t, k)
=============================================================================
