--------------------------- MODULE ScreenshotProofs ---------------------------
(***************************************************************************)
(* Proofs about Screenshot for every page: any number of clicks, images    *)
(* and nested iframes, any options, and a browser with any answers.        *)
(*                                                                         *)
(* The safety properties speak of the end of a screenshot; ShotInv says    *)
(* what its promise chain may rely on at each stage before.                *)
(***************************************************************************)
EXTENDS Screenshot, TLAPS

\* From ready() on, what is awaited is what the cache holds.
Collected ==
  \A s \in Shots :
    /\ pc[s] \in {"wait", "svg", "done", "saved"} => store[s] = {k \in Keys : cache[s][k] # "none"}
    /\ pc[s] \in {"svg", "done", "saved"} => \A k \in Keys : ~Pending(s, k)

\* A screenshot starts with an empty cache, and a nested one once, after its
\* owner has found the iframe open.
Fresh == \A s \in Shots : pc[s] \in {"idle", "feature"} => \A k \in Keys : cache[s][k] = "none"
StartedOnce ==
  \A f \in Frames : pc[f] # "idle" => cache[Owner[f]][f] \in {"nested", "drawing", "ok", "bad"}

\* The foreign-object path is taken when it was asked for and the browser can.
ForeignPath ==
  \A s \in Shots :
    /\ pc[s] \in {"inline", "fonts", "svg"} => options[s].foreign
    /\ pc[s] = "inline" => features.foreign = "yes"

\* What was asked for cannot taint the canvas that it is drawn on.
DataClean ==
  /\ features.base64 = "yes" => ~Base64Taints
  /\ \A s \in Shots, k \in Srcs :
       Kind[k] = "base64" /\ cache[s][k] \notin {"none", "testing", "bad"} /\ Base64Taints =>
         <<s, k>> \in anonymous
OriginClean ==
  \A s \in Shots, k \in Srcs :
    /\ Kind[k] \in {"cors", "nocors"} /\ cache[s][k] \notin {"none", "bad"}
    /\ ~options[s].allowTaint /\ ~options[s].proxy
    => \/ <<s, k>> \in anonymous
       \/ options[s].foreign /\ features.foreign = "yes"
TaintedAtEnd ==
  \A s \in tainted :
    pc[s] \in Ended /\ (options[s].allowTaint \/ (Base64Taints /\ DrewProxied(s)))

\* No request has been made for what is absent or waits for a test.
Unasked ==
  \A s \in Shots, k \in Srcs :
    /\ cache[s][k] \in {"none", "testing"} => requests[s][k] = 0
    /\ requests[s][k] <= 1

ShotInv ==
  /\ TypeOK /\ Collected /\ Fresh /\ StartedOnce /\ ForeignPath
  /\ DataClean /\ OriginClean /\ TaintedAtEnd /\ Unasked /\ FailureHasCause

-----------------------------------------------------------------------------
LEMMA InitShot == Init => ShotInv
<1> SUFFICES ASSUME Init PROVE ShotInv
  OBVIOUS
<1> USE FramesAssumption, PageAssumption DEF Init
<1>1. TypeOK
  <2>1. \A s \in Shots : options[s] \in OptionRecords
    OBVIOUS
  <2>2. options \in [Shots -> OptionRecords]
    BY <2>1
  <2>3. QED
    BY <2>2 DEF TypeOK, Stages, Entries
<1>2. Collected /\ Fresh /\ StartedOnce /\ ForeignPath
  BY DEF Collected, Fresh, StartedOnce, ForeignPath
<1>3. DataClean /\ OriginClean /\ TaintedAtEnd
  BY DEF DataClean, OriginClean, TaintedAtEnd, DrewProxied, FromProxy, Keys
<1>4. Unasked /\ FailureHasCause
  BY DEF Unasked, FailureHasCause, Keys
<1>5. QED
  BY <1>1, <1>2, <1>3, <1>4 DEF ShotInv

-----------------------------------------------------------------------------
(* Types.                                                                   *)

LEMMA SkipOrAskType ==
  ASSUME TypeOK, NEW s \in Shots, NEW k \in Srcs,
         LoadImage(s, k) \/ LoadCanvas(s, k) \/ InlineImage(s, k) \/ Skip
  PROVE  /\ cache' \in [Shots -> [Keys -> Entries]]
         /\ anonymous' \subseteq Shots \X Keys
         /\ features' \in [{"base64", "foreign"} -> {"unknown", "testing", "yes", "no"}]
         /\ requests' \in [Shots -> [Srcs -> Nat]]
<1> USE DEF TypeOK, SetEntry, Entries, Keys
<1>1. CASE Skip
  BY <1>1 DEF Skip
<1>2. CASE LoadCanvas(s, k)
  BY <1>2 DEF LoadCanvas
<1>3. ASSUME NEW e \in {"loading", "proxying", "fetching"}, Ask(s, k, e)
      PROVE  /\ cache' \in [Shots -> [Keys -> Entries]]
             /\ anonymous' \subseteq Shots \X Keys
             /\ features' \in [{"base64", "foreign"} -> {"unknown", "testing", "yes", "no"}]
             /\ requests' \in [Shots -> [Srcs -> Nat]]
  <2>1. requests' \in [Shots -> [Srcs -> Nat]]
    BY <1>3 DEF Ask
  <2>2. cache' \in [Shots -> [Keys -> Entries]]
    BY <1>3 DEF Ask
  <2>3. QED
    BY <1>3, <2>1, <2>2 DEF Ask
<1>4. ASSUME NEW cors \in BOOLEAN, AddImage(s, k, cors)
      PROVE  /\ cache' \in [Shots -> [Keys -> Entries]]
             /\ anonymous' \subseteq Shots \X Keys
             /\ features' \in [{"base64", "foreign"} -> {"unknown", "testing", "yes", "no"}]
             /\ requests' \in [Shots -> [Srcs -> Nat]]
  <2>1. requests' \in [Shots -> [Srcs -> Nat]]
    BY <1>4 DEF AddImage
  <2>2. cache' \in [Shots -> [Keys -> Entries]]
    BY <1>4 DEF AddImage
  <2>3. features' \in [{"base64", "foreign"} -> {"unknown", "testing", "yes", "no"}]
    BY <1>4 DEF AddImage, UseFeature
  <2>4. anonymous' \subseteq Shots \X Keys
    BY <1>4 DEF AddImage
  <2>5. QED
    BY <2>1, <2>2, <2>3, <2>4
<1>5. CASE LoadImage(s, k)
  BY <1>1, <1>3, <1>4, <1>5 DEF LoadImage
<1>6. CASE InlineImage(s, k)
  BY <1>1, <1>3, <1>6 DEF InlineImage
<1>7. QED
  BY <1>1, <1>2, <1>5, <1>6

LEMMA CloneType ==
  ASSUME TypeOK, NEW s \in Shots
  PROVE  CloneFrames(s) \in [Keys -> Entries]
  BY DEF TypeOK, CloneFrames, FrameEntry, FramesOf, Entries, Keys

LEMMA ChainType ==
  ASSUME TypeOK, NEW s \in Shots, Chain(s)
  PROVE  TypeOK'
<1> USE FramesAssumption, PageAssumption DEF TypeOK, Goto, Quiet, Stages
<1>1. CASE Click(s)
  BY <1>1 DEF Click, UseFeature
<1>2. CASE CloneWindow(s)
  <2>1. cache' \in [Shots -> [Keys -> Entries]]
    BY <1>2, CloneType DEF CloneWindow
  <2>2. pc' \in [Shots -> Stages] /\ containers' \subseteq Shots \X {"clone", "host"}
    <3>1. CASE options[s].body
      <4>1. Goto(s, "iframe") /\ containers' = containers \cup {<<s, "clone">>}
        BY <1>2, <3>1 DEF CloneWindow
      <4>2. QED
        BY <4>1
    <3>2. CASE ~options[s].body
      BY <1>2, <3>2 DEF CloneWindow
    <3>3. QED
      BY <3>1, <3>2
  <2>3. \A r \in Shots : turn' = r <=> pc'[r] \in {"parse", "inline"}
    BY <1>2 DEF CloneWindow
  <2>4. QED
    BY <1>2, <2>1, <2>2, <2>3 DEF CloneWindow
<1>3. CASE IframeLoads(s) \/ OncloneThrows(s)
  BY <1>3 DEF IframeLoads, OncloneThrows
<1>4. CASE StartParser(s)
  BY <1>4 DEF StartParser
<1>5. CASE ParseImage(s) \/ InlineNext(s)
  <2>1. Head(todo[s]) \in Srcs /\ Tail(todo[s]) \in Seq(Srcs)
    BY <1>5 DEF ParseImage, InlineNext
  <2>2. \/ LoadImage(s, Head(todo[s])) \/ LoadCanvas(s, Head(todo[s]))
        \/ InlineImage(s, Head(todo[s])) \/ Skip
    BY <1>5 DEF ParseImage, InlineNext
  <2>3. /\ cache' \in [Shots -> [Keys -> Entries]]
        /\ anonymous' \subseteq Shots \X Keys
        /\ features' \in [{"base64", "foreign"} -> {"unknown", "testing", "yes", "no"}]
        /\ requests' \in [Shots -> [Srcs -> Nat]]
    BY <2>1, <2>2, SkipOrAskType
  <2>4. /\ todo' = [todo EXCEPT ![s] = Tail(@)]
        /\ UNCHANGED <<options, pc, turn, store, containers, tainted>>
    BY <1>5 DEF ParseImage, InlineNext
  <2>5. QED
    BY <2>1, <2>3, <2>4
<1>6. CASE Parsed(s)
  BY <1>6 DEF Parsed, CollectKeys
<1>7. CASE RenderThrows(s) \/ Render(s)
  BY <1>7 DEF RenderThrows, Render, Detach
<1>8. CASE InlineClone(s)
  BY <1>8, CloneType DEF InlineClone
<1>9. CASE Inlined(s)
  BY <1>9 DEF Inlined
<1>10. CASE FontsLoad(s) \/ FontFails(s)
  <2>1. CASE FontsLoad(s)
    BY <2>1 DEF FontsLoad, CollectKeys
  <2>2. CASE FontFails(s)
    BY <2>2 DEF FontFails
  <2>3. QED
    BY <1>10, <2>1, <2>2
<1>11. CASE Serialize(s) \/ Save(s) \/ \E r \in {"done", "failed"} : SvgAnswers(s, r)
  <2>1. CASE Serialize(s)
    BY <2>1 DEF Serialize
  <2>2. CASE Save(s)
    BY <2>2 DEF Save
  <2>3. ASSUME NEW r \in {"done", "failed"}, SvgAnswers(s, r) PROVE TypeOK'
    BY <2>3 DEF SvgAnswers
  <2>4. QED
    BY <1>11, <2>1, <2>2, <2>3
<1>12. QED
  BY <1>1, <1>2, <1>3, <1>4, <1>5, <1>6, <1>7, <1>8, <1>9, <1>10, <1>11 DEF Chain

LEMMA EventType ==
  ASSUME TypeOK,
         \/ Tests \/ \E f \in Frames : Frame(f)
         \/ \E s \in Shots, k \in Keys : Answered(s, k) \/ TimesOut(s, k)
  PROVE  TypeOK'
<1> USE FramesAssumption DEF TypeOK, SetEntry, Goto, Entries
<1>1. CASE Tests
  <2>1. CASE ForeignTested
    BY <2>1 DEF ForeignTested
  <2>2. ASSUME NEW a \in BOOLEAN, Base64Tested(a) PROVE TypeOK'
    <3>1. cache' \in [Shots -> [Keys -> Entries]] /\ anonymous' \subseteq Shots \X Keys
      BY <2>2 DEF Base64Tested
    <3>2. requests' \in [Shots -> [Srcs -> Nat]]
      BY <2>2 DEF Base64Tested
    <3>3. QED
      BY <2>2, <3>1, <3>2 DEF Base64Tested
  <2>3. QED
    BY <1>1, <2>1, <2>2 DEF Tests
<1>2. ASSUME NEW s \in Shots, NEW k \in Keys, Answered(s, k) PROVE TypeOK'
  <2>1. PICK e \in Answer(s, k) :
          /\ SetEntry(s, k, e)
          /\ containers' = IF e = "hosting" THEN containers \cup {<<k, "host">>} ELSE containers
    BY <1>2 DEF Answered
  <2>2. e \in {"loading", "bad", "hosting", "ok"} /\ (e = "hosting" => k \in Frames)
    BY <2>1 DEF Answer
  <2>3. QED
    BY <1>2, <2>1, <2>2 DEF Answered
<1>3. ASSUME NEW s \in Shots, NEW k \in Keys, TimesOut(s, k) PROVE TypeOK'
  BY <1>3 DEF TimesOut
<1>4. ASSUME NEW f \in Frames, Frame(f) PROVE TypeOK'
  <2>1. CASE HostLoads(f) \/ FrameEnds(f)
    <3>1. PICK e \in {"open", "drawing", "bad"} : SetEntry(Owner[f], f, e)
      BY <2>1 DEF HostLoads, FrameEnds
    <3>2. UNCHANGED <<options, pc, todo, turn, anonymous, store, containers,
                      features, requests, tainted>>
      BY <2>1 DEF HostLoads, FrameEnds
    <3>3. cache' \in [Shots -> [Keys -> Entries]]
      BY <3>1 DEF Keys
    <3>4. QED
      BY <3>2, <3>3
  <2>2. CASE StartFrame(f)
    <3>1. [options[Owner[f]] EXCEPT !.onclone = "none", !.owned = TRUE, !.body = TRUE,
             !.html = TRUE, !.drawable = options[f].drawable] \in OptionRecords
      <4>1. options[Owner[f]] \in OptionRecords /\ options[f] \in OptionRecords
        OBVIOUS
      <4>2. QED
        BY <4>1 DEF OptionRecords
    <3>2. options' \in [Shots -> OptionRecords]
      BY <2>2, <3>1 DEF StartFrame
    <3>3. QED
      BY <2>2, <3>2 DEF StartFrame, UseFeature, Stages, Quiet, Keys
  <2>3. QED
    BY <1>4, <2>1, <2>2 DEF Frame
<1>5. QED
  BY <1>1, <1>2, <1>3, <1>4

LEMMA TypeStep ==
  ASSUME TypeOK, [Next]_vars
  PROVE  TypeOK'
<1>1. CASE UNCHANGED vars
  BY <1>1 DEF vars, TypeOK
<1>2. CASE Next
  BY <1>2, ChainType, EventType DEF Next
<1>3. QED
  BY <1>1, <1>2

-----------------------------------------------------------------------------
(* What a step may do to a cache.                                           *)

\* An entry of a screenshot that is past its loop moves only while it is
\* pending, never back to where it has not been asked for.
Moves(s) ==
  \A k \in Keys : cache'[s][k] # cache[s][k] => Pending(s, k) /\ cache'[s][k] \notin {"none", "testing"}

\* What was drawn stays drawn.
LEMMA DrawnKept ==
  ASSUME NEW s \in Shots, Moves(s), store'[s] = store[s], options'[s] = options[s],
         DrewProxied(s)
  PROVE  DrewProxied(s)'
<1>1. PICK k \in store[s] \cap Srcs : cache[s][k] = "ok" /\ FromProxy(s, k)
  BY DEF DrewProxied
<1>2. cache'[s][k] = "ok"
  BY <1>1 DEF Moves, Pending, Keys
<1>3. QED
  BY <1>1, <1>2 DEF DrewProxied, FromProxy

LEMMA CollectedKept ==
  ASSUME Collected, NEW s \in Shots, Moves(s), store'[s] = store[s],
         pc'[s] \in {"svg", "done", "saved"} =>
           pc[s] \in {"svg", "done", "saved"} \/ (pc[s] = "wait" /\ Ready(s)),
         pc'[s] = "wait" => pc[s] = "wait"
  PROVE  /\ pc'[s] \in {"wait", "svg", "done", "saved"} =>
              store'[s] = {k \in Keys : cache'[s][k] # "none"}
         /\ pc'[s] \in {"svg", "done", "saved"} => \A k \in Keys : ~Pending(s, k)'
<1>1. ASSUME pc'[s] \in {"wait", "svg", "done", "saved"}
      PROVE  store'[s] = {k \in Keys : cache'[s][k] # "none"}
  <2>1. store[s] = {k \in Keys : cache[s][k] # "none"}
    BY <1>1 DEF Collected
  <2>2. \A k \in Keys : cache'[s][k] = "none" <=> cache[s][k] = "none"
    BY DEF Moves, Pending
  <2>3. QED
    BY <2>1, <2>2
<1>2. ASSUME pc'[s] \in {"svg", "done", "saved"}, NEW k \in Keys
      PROVE  ~Pending(s, k)'
  <2>1. ~Pending(s, k)
    <3>1. CASE pc[s] = "wait" /\ Ready(s)
      BY <3>1 DEF Collected, Ready, Pending
    <3>2. CASE pc[s] \in {"svg", "done", "saved"}
      BY <3>2 DEF Collected
    <3>3. QED
      BY <1>2, <3>1, <3>2
  <2>2. QED
    BY <2>1 DEF Moves, Pending
<1>3. QED
  BY <1>1, <1>2

-----------------------------------------------------------------------------
(* Steps that move a promise chain on and touch no resource.                *)

LEMMA StageKept ==
  ASSUME ShotInv, NEW s \in Shots, NEW stage, Goto(s, stage),
         pc[s] # "idle", stage \notin {"idle", "feature", "inline"},
         UNCHANGED <<options, cache, anonymous, features, requests>>
  PROVE  Fresh' /\ StartedOnce' /\ DataClean' /\ OriginClean' /\ Unasked'
<1> USE DEF ShotInv, TypeOK, Goto
<1>1. Fresh'
  BY DEF Fresh
<1>2. StartedOnce'
  BY DEF StartedOnce
<1>3. DataClean' /\ OriginClean' /\ Unasked'
  BY DEF DataClean, OriginClean, Unasked
<1>4. QED
  BY <1>1, <1>2, <1>3

LEMMA StageStep ==
  ASSUME ShotInv, NEW s \in Shots,
         \/ IframeLoads(s) \/ OncloneThrows(s) \/ StartParser(s) \/ Parsed(s)
         \/ RenderThrows(s) \/ Inlined(s) \/ FontsLoad(s) \/ FontFails(s)
         \/ Serialize(s) \/ Save(s) \/ \E r \in {"done", "failed"} : SvgAnswers(s, r)
  PROVE  /\ Collected' /\ Fresh' /\ StartedOnce' /\ ForeignPath' /\ DataClean'
         /\ OriginClean' /\ TaintedAtEnd' /\ Unasked' /\ FailureHasCause'
<1>1. /\ UNCHANGED <<options, cache, anonymous, features, requests, tainted>>
      /\ pc[s] \notin {"idle", "feature", "failed", "saved"}
  BY DEF ShotInv, TypeOK, IframeLoads, OncloneThrows, StartParser, Parsed, RenderThrows, Inlined,
         FontsLoad, FontFails, Serialize, Save, SvgAnswers, Quiet
<1>2. PICK stage \in {"cloned", "failed", "parse", "wait", "fonts", "svg", "done", "saved"} :
        /\ Goto(s, stage)
        /\ stage \in {"svg", "saved", "done"} => pc[s] \in {"svg", "done"} \/ (pc[s] = "wait" /\ Ready(s))
        /\ stage = "fonts" => pc[s] = "inline"
        /\ stage = "svg" => options[s].foreign /\ pc[s] = "wait"
        /\ pc[s] \in {"done", "wait"} => stage \notin {"fonts", "cloned", "parse", "wait"}
  BY DEF IframeLoads, OncloneThrows, StartParser, Parsed, RenderThrows, Inlined,
         FontsLoad, FontFails, Serialize, Save, SvgAnswers
<1>3. /\ \A r \in Shots \ {s} : store'[r] = store[r] /\ pc'[r] = pc[r]
      /\ pc'[s] = stage
      /\ stage = "wait" => store'[s] = {k \in Keys : cache[s][k] # "none"}
      /\ stage # "wait" => store'[s] = store[s]
  BY <1>2 DEF ShotInv, TypeOK, Goto, IframeLoads, OncloneThrows, StartParser, Parsed, RenderThrows,
         Inlined, FontsLoad, FontFails, Serialize, Save, SvgAnswers, CollectKeys
<1>4. Fresh' /\ StartedOnce' /\ DataClean' /\ OriginClean' /\ Unasked'
  BY <1>1, <1>2, StageKept
<1>5. Collected'
  <2> SUFFICES ASSUME NEW r \in Shots
               PROVE  /\ pc'[r] \in {"wait", "svg", "done", "saved"} =>
                           store'[r] = {k \in Keys : cache'[r][k] # "none"}
                      /\ pc'[r] \in {"svg", "done", "saved"} => \A k \in Keys : ~Pending(r, k)'
    BY DEF Collected
  <2>1. Moves(r)
    BY <1>1 DEF Moves
  <2>2. CASE r # s
    BY <1>3, <2>1, <2>2, CollectedKept DEF ShotInv
  <2>3. CASE r = s /\ stage = "wait"
    BY <1>1, <1>3, <2>3
  <2>4. CASE r = s /\ stage # "wait"
    BY <1>2, <1>3, <2>1, <2>4, CollectedKept DEF ShotInv
  <2>5. QED
    BY <2>2, <2>3, <2>4
<1>6. ForeignPath'
  BY <1>1, <1>2, <1>3 DEF ShotInv, ForeignPath
<1>7. TaintedAtEnd'
  <2>1. s \in tainted => stage \in Ended
    BY <1>1, <1>2 DEF ShotInv, TaintedAtEnd, Ended
  <2>2. QED
    BY <1>1, <1>3, <2>1 DEF ShotInv, TypeOK, TaintedAtEnd, DrewProxied, FromProxy
<1>8. FailureHasCause'
  <2>1. stage = "failed" =>
          \/ ~options[s].html \/ ~options[s].drawable \/ options[s].onclone = "throws"
          \/ s \in tainted \/ options[s].foreign
    BY <1>1, <1>2, <1>3
    DEF ShotInv, TypeOK, ForeignPath, Goto, IframeLoads, OncloneThrows, StartParser, Parsed,
        RenderThrows, Inlined, FontsLoad, FontFails, Serialize, Save, SvgAnswers
  <2>2. QED
    BY <1>1, <1>3, <2>1 DEF ShotInv, FailureHasCause
<1>9. QED
  BY <1>4, <1>5, <1>6, <1>7, <1>8

-----------------------------------------------------------------------------
(* The beginning and the end of a chain.                                    *)

LEMMA ClickStep ==
  ASSUME ShotInv, NEW s \in Shots, Click(s)
  PROVE  /\ Collected' /\ Fresh' /\ StartedOnce' /\ ForeignPath' /\ DataClean'
         /\ OriginClean' /\ TaintedAtEnd' /\ Unasked' /\ FailureHasCause'
<1>1. /\ UNCHANGED <<options, cache, anonymous, store, requests, tainted>>
      /\ s \notin Frames /\ pc[s] = "idle"
      /\ \A r \in Shots \ {s} : pc'[r] = pc[r]
      /\ pc'[s] = IF options[s].owned THEN "feature" ELSE "failed"
      /\ features'.base64 = features.base64
      /\ features.foreign = "yes" => features'.foreign = "yes"
  BY DEF Click, Goto, UseFeature, ShotInv, TypeOK
<1>2. Collected' /\ Fresh'
  BY <1>1 DEF ShotInv, Collected, Fresh, Pending
<1>3. StartedOnce' /\ ForeignPath'
  BY <1>1, FramesAssumption DEF ShotInv, StartedOnce, ForeignPath
<1>4. DataClean' /\ OriginClean' /\ Unasked'
  BY <1>1 DEF ShotInv, DataClean, OriginClean, Unasked
<1>5. TaintedAtEnd' /\ FailureHasCause'
  <2>1. \A r \in Shots : DrewProxied(r) => DrewProxied(r)'
    BY <1>1 DEF DrewProxied, FromProxy
  <2>2. QED
    BY <1>1, <2>1 DEF ShotInv, TypeOK, TaintedAtEnd, FailureHasCause, Ended
<1>6. QED
  BY <1>2, <1>3, <1>4, <1>5

\* Cloning finds an empty cache and enters the iframes of the document only.
LEMMA CloneStep ==
  ASSUME ShotInv, NEW s \in Shots, CloneWindow(s) \/ InlineClone(s)
  PROVE  /\ Collected' /\ Fresh' /\ StartedOnce' /\ ForeignPath' /\ DataClean'
         /\ OriginClean' /\ TaintedAtEnd' /\ Unasked' /\ FailureHasCause'
<1>1. /\ UNCHANGED <<options, anonymous, store, features, requests, tainted>>
      /\ pc[s] = "feature" /\ cache' = [cache EXCEPT ![s] = CloneFrames(s)]
  BY DEF CloneWindow, InlineClone
<1>2. PICK stage \in {"iframe", "failed", "inline"} :
        /\ Goto(s, stage)
        /\ stage = "inline" => options[s].foreign /\ features.foreign = "yes"
        /\ stage = "failed" => ~options[s].body
  BY DEF CloneWindow, InlineClone
<1>3. /\ \A r \in Shots \ {s} : pc'[r] = pc[r] /\ \A k \in Keys : cache'[r][k] = cache[r][k]
      /\ pc'[s] = stage
      /\ \A k \in Keys : k \notin FramesOf(s) => cache'[s][k] = "none"
  BY <1>1, <1>2 DEF ShotInv, TypeOK, Goto, Fresh, CloneFrames
<1>4. Collected'
  BY <1>1, <1>2, <1>3 DEF ShotInv, Collected, Pending
<1>5. Fresh'
  BY <1>1, <1>2, <1>3 DEF ShotInv, Fresh
<1>6. StartedOnce'
  <2> SUFFICES ASSUME NEW f \in Frames, pc'[f] # "idle"
               PROVE  cache'[Owner[f]][f] \in {"nested", "drawing", "ok", "bad"}
    BY DEF StartedOnce
  <2>1. pc[f] # "idle"
    BY <1>1, <1>3, FramesAssumption
  <2>2. cache[Owner[f]][f] \in {"nested", "drawing", "ok", "bad"}
    BY <2>1 DEF ShotInv, StartedOnce
  <2>3. Owner[f] # s
    BY <1>1, <2>2, FramesAssumption DEF ShotInv, Fresh, Keys
  <2>4. QED
    BY <1>3, <2>2, <2>3, FramesAssumption DEF Keys
<1>7. ForeignPath'
  BY <1>1, <1>2, <1>3 DEF ShotInv, ForeignPath
<1>8. \A k \in Srcs : cache'[s][k] = "none" /\ cache[s][k] = "none"
  BY <1>1, <1>3, PageAssumption DEF FramesOf, Keys, ShotInv, Fresh
<1>9. DataClean' /\ OriginClean' /\ Unasked'
  BY <1>1, <1>3, <1>8 DEF ShotInv, DataClean, OriginClean, Unasked, Keys
<1>10. TaintedAtEnd'
  <2>1. s \notin tainted
    BY <1>1 DEF ShotInv, TaintedAtEnd, Ended
  <2>2. \A r \in Shots \ {s} : DrewProxied(r) => DrewProxied(r)'
    BY <1>1, <1>3, DrawnKept DEF Moves
  <2>3. QED
    BY <1>1, <1>3, <2>1, <2>2 DEF ShotInv, TypeOK, TaintedAtEnd
<1>11. FailureHasCause'
  BY <1>1, <1>2, <1>3 DEF ShotInv, FailureHasCause
<1>12. QED
  BY <1>4, <1>5, <1>6, <1>7, <1>9, <1>10, <1>11

\* What is drawn was asked for, so it is clean where the options want it to be.
LEMMA RenderStep ==
  ASSUME ShotInv, NEW s \in Shots, Render(s)
  PROVE  /\ Collected' /\ Fresh' /\ StartedOnce' /\ ForeignPath' /\ DataClean'
         /\ OriginClean' /\ TaintedAtEnd' /\ Unasked' /\ FailureHasCause'
<1>1. /\ UNCHANGED <<options, cache, anonymous, store, features, requests>>
      /\ pc[s] = "wait" /\ Ready(s) /\ Goto(s, "done")
      /\ ~(options[s].foreign /\ features.foreign = "yes")
  BY DEF Render
<1>2. pc'[s] = "done" /\ \A r \in Shots \ {s} : pc'[r] = pc[r]
  BY <1>1 DEF Goto, ShotInv, TypeOK
<1>3. Fresh' /\ StartedOnce' /\ DataClean' /\ OriginClean' /\ Unasked'
  BY <1>1, StageKept
<1>4. Collected'
  <2> SUFFICES ASSUME NEW r \in Shots
               PROVE  /\ pc'[r] \in {"wait", "svg", "done", "saved"} =>
                           store'[r] = {k \in Keys : cache'[r][k] # "none"}
                      /\ pc'[r] \in {"svg", "done", "saved"} => \A k \in Keys : ~Pending(r, k)'
    BY DEF Collected
  <2>1. Moves(r)
    BY <1>1 DEF Moves
  <2>2. QED
    BY <1>1, <1>2, <2>1, CollectedKept DEF ShotInv
<1>5. ForeignPath'
  BY <1>1, <1>2 DEF ShotInv, ForeignPath
<1>6. TaintedAtEnd'
  <2>1. ASSUME ~options[s].allowTaint, NEW k \in store[s], cache[s][k] = "ok",
               TaintsCanvas(s, k)
        PROVE  Base64Taints /\ DrewProxied(s)
    <3>1. k \in Srcs /\ <<s, k>> \notin anonymous
      BY <2>1 DEF TaintsCanvas
    <3>2. ~(Kind[k] = "base64" /\ Base64Taints)
      BY <2>1, <3>1 DEF ShotInv, DataClean
    <3>3. ~(Kind[k] \in {"cors", "nocors"} /\ ~options[s].proxy)
      BY <1>1, <2>1, <3>1 DEF ShotInv, OriginClean
    <3>4. FromProxy(s, k) /\ Base64Taints
      BY <2>1, <3>2, <3>3 DEF TaintsCanvas, FromProxy
    <3>5. QED
      BY <2>1, <3>1, <3>4 DEF DrewProxied
  <2>2. /\ tainted' \subseteq tainted \cup {s}
        /\ s \in tainted' \ tainted =>
             options[s].allowTaint \/ (Base64Taints /\ DrewProxied(s))
    BY <2>1 DEF Render
  <2>3. s \notin tainted
    BY <1>1 DEF ShotInv, TaintedAtEnd, Ended
  <2>4. QED
    BY <1>1, <1>2, <2>2, <2>3
    DEF ShotInv, TypeOK, TaintedAtEnd, DrewProxied, FromProxy, Ended
<1>7. FailureHasCause'
  BY <1>1, <1>2 DEF ShotInv, TypeOK, TaintedAtEnd, Ended, FailureHasCause, Render
<1>8. QED
  BY <1>3, <1>4, <1>5, <1>6, <1>7

-----------------------------------------------------------------------------
(* The loops over the images.                                               *)

LEMMA ImageStep ==
  ASSUME ShotInv, NEW s \in Shots, ParseImage(s) \/ InlineNext(s)
  PROVE  /\ Collected' /\ Fresh' /\ StartedOnce' /\ ForeignPath' /\ DataClean'
         /\ OriginClean' /\ TaintedAtEnd' /\ Unasked' /\ FailureHasCause'
<1> DEFINE k == Head(todo[s])
<1>1. /\ UNCHANGED <<options, pc, store, tainted>>
      /\ pc[s] \in {"parse", "inline"} /\ k \in Srcs
  BY DEF ParseImage, InlineNext, ShotInv, TypeOK
<1> HIDE DEF k
<1>2. \/ Skip
      \/ LoadCanvas(s, k) /\ Kind[k] = "canvas"
      \/ \E e \in {"loading", "proxying", "fetching"} :
           /\ Ask(s, k, e) /\ cache[s][k] = "none" /\ Kind[k] # "base64"
           /\ \/ Kind[k] \notin {"cors", "nocors"} \/ options[s].proxy
              \/ options[s].foreign /\ features.foreign = "yes"
      \/ \E cors \in BOOLEAN :
           /\ AddImage(s, k, cors) /\ cache[s][k] = "none"
           /\ Kind[k] \in {"cors", "nocors"} => cors \/ options[s].allowTaint
  <2>1. CASE ParseImage(s)
    <3>1. IF Kind[k] = "canvas" THEN LoadCanvas(s, k) ELSE LoadImage(s, k)
      BY <2>1 DEF ParseImage, k
    <3>2. QED
      BY <3>1 DEF LoadImage, HasResource, SameOrigin
  <2>2. CASE InlineNext(s)
    <3>1. IF Kind[k] = "canvas" THEN Skip ELSE InlineImage(s, k)
      BY <2>2 DEF InlineNext, k
    <3>2. options[s].foreign /\ features.foreign = "yes"
      BY <2>2 DEF InlineNext, ShotInv, ForeignPath
    <3>3. QED
      BY <3>1, <3>2 DEF InlineImage, HasResource
  <2>3. QED
    BY <2>1, <2>2
<1>3. /\ \A r \in Shots, q \in Keys : r # s \/ q # k => cache'[r][q] = cache[r][q]
      /\ \A r \in Shots, q \in Srcs : r # s \/ q # k => requests'[r][q] = requests[r][q]
      /\ anonymous \subseteq anonymous'
      /\ features'.foreign = features.foreign
      /\ features'.base64 = "yes" <=> features.base64 = "yes"
  BY <1>1, <1>2 DEF ShotInv, TypeOK, Skip, LoadCanvas, Ask, AddImage, UseFeature, SetEntry, Keys
<1>4. /\ cache'[s][k] \in {"none", "testing"} => requests'[s][k] = 0
      /\ requests'[s][k] <= 1
  <2>1. CASE Skip \/ LoadCanvas(s, k)
    BY <1>1, <2>1 DEF ShotInv, TypeOK, Unasked, Skip, LoadCanvas, SetEntry, Keys
  <2>2. ASSUME NEW e \in {"loading", "proxying", "fetching"}, Ask(s, k, e), cache[s][k] = "none"
        PROVE  cache'[s][k] \notin {"none", "testing"} /\ requests'[s][k] = 1
    BY <1>1, <2>2 DEF ShotInv, TypeOK, Unasked, Ask, SetEntry, Keys
  <2>3. ASSUME NEW cors \in BOOLEAN, AddImage(s, k, cors), cache[s][k] = "none"
        PROVE  \/ cache'[s][k] = "testing" /\ requests'[s][k] = 0
               \/ cache'[s][k] = "loading" /\ requests'[s][k] = 1
    <3>1. requests[s][k] = 0
      BY <1>1, <2>3 DEF ShotInv, Unasked
    <3>2. \/ SetEntry(s, k, "testing") /\ requests' = requests
          \/ SetEntry(s, k, "loading") /\ requests' = [requests EXCEPT ![s][k] = @ + 1]
      BY <2>3 DEF AddImage
    <3>3. CASE SetEntry(s, k, "testing") /\ requests' = requests
      BY <1>1, <3>1, <3>3 DEF ShotInv, TypeOK, SetEntry, Keys
    <3>4. CASE SetEntry(s, k, "loading") /\ requests' = [requests EXCEPT ![s][k] = @ + 1]
      BY <1>1, <3>1, <3>4 DEF ShotInv, TypeOK, SetEntry, Keys
    <3>5. QED
      BY <3>2, <3>3, <3>4
  <2>4. CASE \E e \in {"loading", "proxying", "fetching"} : Ask(s, k, e) /\ cache[s][k] = "none"
    BY <2>2, <2>4
  <2>5. CASE \E cors \in BOOLEAN : AddImage(s, k, cors) /\ cache[s][k] = "none"
    BY <2>3, <2>5
  <2>6. QED
    BY <1>2, <2>1, <2>4, <2>5
<1>5. ASSUME Kind[k] = "base64", cache'[s][k] \notin {"none", "testing", "bad"}, Base64Taints
      PROVE  <<s, k>> \in anonymous'
  <2>1. CASE Skip
    BY <1>1, <1>5, <2>1 DEF ShotInv, DataClean, Skip
  <2>2. ASSUME NEW cors \in BOOLEAN, AddImage(s, k, cors) PROVE <<s, k>> \in anonymous'
    BY <1>1, <1>5, <2>2 DEF ShotInv, TypeOK, DataClean, AddImage, Anonymous, SetEntry, Keys
  <2>3. QED
    BY <1>2, <1>5, <2>1, <2>2
<1>6. ASSUME Kind[k] \in {"cors", "nocors"}, cache'[s][k] \notin {"none", "bad"},
             ~options[s].allowTaint, ~options[s].proxy
      PROVE  <<s, k>> \in anonymous' \/ (options[s].foreign /\ features.foreign = "yes")
  <2>1. CASE Skip
    BY <1>1, <1>6, <2>1 DEF ShotInv, OriginClean, Skip
  <2>2. ASSUME AddImage(s, k, TRUE) PROVE <<s, k>> \in anonymous'
    BY <2>2 DEF AddImage, Anonymous
  <2>3. QED
    BY <1>2, <1>6, <2>1, <2>2
<1>7. Collected' /\ Fresh'
  BY <1>1, <1>3 DEF ShotInv, Collected, Fresh, Pending
<1>8. StartedOnce'
  <2>1. \A f \in Frames : cache'[Owner[f]][f] = cache[Owner[f]][f]
    BY <1>1, <1>3, FramesAssumption, PageAssumption DEF Keys
  <2>2. QED
    BY <1>1, <2>1 DEF ShotInv, StartedOnce
<1>9. DataClean'
  BY <1>3, <1>5 DEF ShotInv, DataClean, Keys
<1>10. OriginClean'
  BY <1>1, <1>3, <1>6 DEF ShotInv, OriginClean, Keys
<1>11. Unasked'
  BY <1>3, <1>4 DEF ShotInv, Unasked, Keys
<1>12. ForeignPath' /\ FailureHasCause'
  BY <1>1, <1>3 DEF ShotInv, ForeignPath, FailureHasCause
<1>13. TaintedAtEnd'
  <2>1. s \notin tainted
    BY <1>1 DEF ShotInv, TaintedAtEnd, Ended
  <2>2. \A r \in Shots \ {s} : DrewProxied(r) => DrewProxied(r)'
    BY <1>1, <1>3, DrawnKept DEF Moves
  <2>3. QED
    BY <1>1, <2>1, <2>2 DEF ShotInv, TypeOK, TaintedAtEnd
<1>14. QED
  BY <1>7, <1>8, <1>9, <1>10, <1>11, <1>12, <1>13

-----------------------------------------------------------------------------
(* Events.                                                                  *)

\* An event leaves every promise chain where it is and lets pending entries move.
LEMMA ChainsKept ==
  ASSUME ShotInv, UNCHANGED <<options, pc, store, tainted>>, \A s \in Shots : Moves(s),
         features.foreign = "yes" => features'.foreign = "yes"
  PROVE  Collected' /\ Fresh' /\ ForeignPath' /\ TaintedAtEnd' /\ FailureHasCause'
<1>1. Collected'
  <2> SUFFICES ASSUME NEW r \in Shots
               PROVE  /\ pc'[r] \in {"wait", "svg", "done", "saved"} =>
                           store'[r] = {k \in Keys : cache'[r][k] # "none"}
                      /\ pc'[r] \in {"svg", "done", "saved"} => \A k \in Keys : ~Pending(r, k)'
    BY DEF Collected
  <2>1. QED
    BY CollectedKept DEF ShotInv
<1>2. Fresh'
  BY DEF ShotInv, Fresh, Moves, Pending
<1>3. TaintedAtEnd'
  BY DrawnKept DEF ShotInv, TypeOK, TaintedAtEnd
<1>4. ForeignPath' /\ FailureHasCause'
  BY DEF ShotInv, ForeignPath, FailureHasCause
<1>5. QED
  BY <1>1, <1>2, <1>3, <1>4

\* One entry moves and nothing else that the invariant speaks of.
LEMMA EntryStep ==
  ASSUME ShotInv, NEW s \in Shots, NEW k \in Keys, NEW e \in Entries \ {"none", "testing"},
         SetEntry(s, k, e), Pending(s, k), cache[s][k] = "testing" => e = "bad",
         k \in Frames /\ Owner[k] = s /\ cache[s][k] \in {"nested", "drawing", "ok", "bad"} =>
           e \in {"nested", "drawing", "ok", "bad"},
         UNCHANGED <<options, pc, store, anonymous, features, requests, tainted>>
  PROVE  /\ Collected' /\ Fresh' /\ StartedOnce' /\ ForeignPath' /\ DataClean'
         /\ OriginClean' /\ TaintedAtEnd' /\ Unasked' /\ FailureHasCause'
<1>1. /\ cache'[s][k] = e
      /\ \A r \in Shots, q \in Keys : r # s \/ q # k => cache'[r][q] = cache[r][q]
  BY DEF SetEntry, ShotInv, TypeOK
<1>2. \A r \in Shots : Moves(r)
  BY <1>1 DEF Moves
<1>3. Collected' /\ Fresh' /\ ForeignPath' /\ TaintedAtEnd' /\ FailureHasCause'
  BY <1>2, ChainsKept
<1>4. StartedOnce'
  BY <1>1, FramesAssumption DEF ShotInv, StartedOnce, Keys
<1>5. DataClean'
  BY <1>1 DEF ShotInv, DataClean, Pending, Keys
<1>6. OriginClean'
  BY <1>1 DEF ShotInv, OriginClean, Pending, Keys
<1>7. Unasked'
  BY <1>1 DEF ShotInv, Unasked, Keys
<1>8. QED
  BY <1>3, <1>4, <1>5, <1>6, <1>7

LEMMA AnswerStep ==
  ASSUME ShotInv, NEW s \in Shots, NEW k \in Keys, Answered(s, k) \/ TimesOut(s, k)
  PROVE  /\ Collected' /\ Fresh' /\ StartedOnce' /\ ForeignPath' /\ DataClean'
         /\ OriginClean' /\ TaintedAtEnd' /\ Unasked' /\ FailureHasCause'
<1>1. UNCHANGED <<options, pc, store, anonymous, features, requests, tainted>>
  BY DEF Answered, TimesOut
<1>2. PICK e \in {"loading", "bad", "hosting", "ok"} :
        /\ SetEntry(s, k, e)
        /\ cache[s][k] \in {"fetching", "proxying", "loading", "drawing"}
        /\ cache[s][k] = "drawing" => e \in {"ok", "bad"}
  BY DEF Answered, Answer, TimesOut
<1>3. QED
  BY <1>1, <1>2, EntryStep DEF Entries, Pending

LEMMA FrameStep ==
  ASSUME ShotInv, NEW f \in Frames, HostLoads(f) \/ FrameEnds(f)
  PROVE  /\ Collected' /\ Fresh' /\ StartedOnce' /\ ForeignPath' /\ DataClean'
         /\ OriginClean' /\ TaintedAtEnd' /\ Unasked' /\ FailureHasCause'
<1>1. UNCHANGED <<options, pc, store, anonymous, features, requests, tainted>>
  BY DEF HostLoads, FrameEnds
<1>2. PICK e \in {"open", "drawing", "bad"} :
        /\ SetEntry(Owner[f], f, e)
        /\ \/ cache[Owner[f]][f] = "hosting"
           \/ cache[Owner[f]][f] = "nested" /\ e # "open"
  BY DEF HostLoads, FrameEnds
<1>3. QED
  BY <1>1, <1>2, EntryStep, FramesAssumption DEF Entries, Pending, Keys

\* The answer to the test of data images asks for all that waited for it.
LEMMA DataTestStep ==
  ASSUME ShotInv, NEW a \in BOOLEAN, Base64Tested(a)
  PROVE  /\ Collected' /\ Fresh' /\ StartedOnce' /\ ForeignPath' /\ DataClean'
         /\ OriginClean' /\ TaintedAtEnd' /\ Unasked' /\ FailureHasCause'
<1>1. /\ UNCHANGED <<options, pc, store, tainted>>
      /\ features.base64 = "testing" /\ features'.foreign = features.foreign
      /\ features'.base64 = (IF a THEN "yes" ELSE "no") /\ (a => ~Base64Taints)
  BY DEF Base64Tested, ShotInv, TypeOK
<1>2. \A s \in Shots, k \in Keys :
        cache'[s][k] = IF cache[s][k] = "testing" THEN "loading" ELSE cache[s][k]
  BY DEF Base64Tested
<1>3. \A s \in Shots, k \in Srcs :
        requests'[s][k] = requests[s][k] + IF cache[s][k] = "testing" THEN 1 ELSE 0
  BY DEF Base64Tested, Keys
<1>4. /\ anonymous \subseteq anonymous'
      /\ ~a => \A s \in Shots, k \in Srcs : cache[s][k] = "testing" => <<s, k>> \in anonymous'
  BY DEF Base64Tested, Keys
<1>5. \A s \in Shots : Moves(s)
  BY <1>2 DEF Moves, Pending
<1>6. Collected' /\ Fresh' /\ ForeignPath' /\ TaintedAtEnd' /\ FailureHasCause'
  BY <1>1, <1>5, ChainsKept
<1>7. StartedOnce'
  BY <1>1, <1>2, FramesAssumption DEF ShotInv, StartedOnce, Keys
<1>8. DataClean'
  BY <1>1, <1>2, <1>4 DEF ShotInv, DataClean, Keys
<1>9. OriginClean'
  BY <1>1, <1>2, <1>4 DEF ShotInv, OriginClean, Keys
<1>10. Unasked'
  <2> SUFFICES ASSUME NEW s \in Shots, NEW k \in Srcs
               PROVE  /\ cache'[s][k] \in {"none", "testing"} => requests'[s][k] = 0
                      /\ requests'[s][k] <= 1
    BY DEF Unasked
  <2>1. /\ cache[s][k] \in {"none", "testing"} => requests[s][k] = 0
        /\ requests[s][k] <= 1 /\ requests[s][k] \in Nat
    BY DEF ShotInv, TypeOK, Unasked
  <2>2. CASE cache[s][k] = "testing"
    BY <1>2, <1>3, <2>1, <2>2 DEF Keys
  <2>3. CASE cache[s][k] # "testing"
    BY <1>2, <1>3, <2>1, <2>3 DEF Keys
  <2>4. QED
    BY <2>2, <2>3
<1>11. QED
  BY <1>6, <1>7, <1>8, <1>9, <1>10

LEMMA ForeignTestStep ==
  ASSUME ShotInv, ForeignTested
  PROVE  /\ Collected' /\ Fresh' /\ StartedOnce' /\ ForeignPath' /\ DataClean'
         /\ OriginClean' /\ TaintedAtEnd' /\ Unasked' /\ FailureHasCause'
<1>1. /\ UNCHANGED <<options, pc, cache, anonymous, store, requests, tainted>>
      /\ features.foreign = "testing" /\ features'.base64 = features.base64
  BY DEF ForeignTested, ShotInv, TypeOK
<1>2. \A s \in Shots : Moves(s)
  BY <1>1 DEF Moves
<1>3. Collected' /\ Fresh' /\ ForeignPath' /\ TaintedAtEnd' /\ FailureHasCause'
  BY <1>1, <1>2, ChainsKept
<1>4. StartedOnce' /\ DataClean' /\ OriginClean' /\ Unasked'
  BY <1>1 DEF ShotInv, StartedOnce, DataClean, OriginClean, Unasked
<1>5. QED
  BY <1>3, <1>4

\* A nested screenshot starts where its owner found the iframe open, so it has
\* not been started before and its cache is empty.
LEMMA StartFrameStep ==
  ASSUME ShotInv, NEW f \in Frames, StartFrame(f)
  PROVE  /\ Collected' /\ Fresh' /\ StartedOnce' /\ ForeignPath' /\ DataClean'
         /\ OriginClean' /\ TaintedAtEnd' /\ Unasked' /\ FailureHasCause'
<1> DEFINE o == Owner[f]
<1>1. f \in Shots /\ o \in Shots /\ f \in Keys
  BY FramesAssumption DEF Keys
<1>2. /\ UNCHANGED <<anonymous, store, requests, tainted>>
      /\ cache[o][f] = "open" /\ SetEntry(o, f, "nested") /\ Goto(f, "feature")
      /\ features'.base64 = features.base64
      /\ features.foreign = "yes" => features'.foreign = "yes"
      /\ \A r \in Shots \ {f} : options'[r] = options[r]
  BY <1>1 DEF StartFrame, UseFeature, ShotInv, TypeOK
<1>3. pc[f] = "idle" /\ \A k \in Keys : cache[f][k] = "none"
  BY <1>1, <1>2 DEF ShotInv, StartedOnce, Fresh
<1>4. o # f /\ f \notin tainted
  BY <1>1, <1>2, <1>3 DEF ShotInv, TaintedAtEnd, Ended
<1>5. /\ pc'[f] = "feature" /\ \A r \in Shots \ {f} : pc'[r] = pc[r]
      /\ cache'[o][f] = "nested"
      /\ \A r \in Shots, k \in Keys : r # o \/ k # f => cache'[r][k] = cache[r][k]
  BY <1>1, <1>2 DEF ShotInv, TypeOK, Goto, SetEntry
<1> HIDE DEF o
<1>6. \A r \in Shots, k \in Srcs : cache'[r][k] = cache[r][k]
  BY <1>5, PageAssumption DEF Keys
<1>7. Collected'
  BY <1>1, <1>2, <1>3, <1>4, <1>5 DEF ShotInv, Collected, Pending
<1>8. Fresh'
  BY <1>1, <1>2, <1>3, <1>4, <1>5 DEF ShotInv, Fresh
<1>9. StartedOnce'
  BY <1>1, <1>5, FramesAssumption DEF ShotInv, StartedOnce, Keys, o
<1>10. ForeignPath'
  BY <1>2, <1>5 DEF ShotInv, ForeignPath
<1>11. DataClean'
  BY <1>2, <1>6 DEF ShotInv, DataClean
<1>12. OriginClean'
  BY <1>2, <1>3, <1>6 DEF ShotInv, OriginClean, Keys
<1>13. Unasked'
  BY <1>2, <1>6 DEF ShotInv, Unasked
<1>14. TaintedAtEnd'
  <2>1. \A r \in Shots \ {f} : Moves(r)
    BY <1>2, <1>5 DEF Moves, Pending
  <2>2. \A r \in Shots \ {f} : DrewProxied(r) => DrewProxied(r)'
    BY <1>2, <2>1, DrawnKept
  <2>3. QED
    BY <1>2, <1>4, <1>5, <2>2 DEF ShotInv, TypeOK, TaintedAtEnd
<1>15. FailureHasCause'
  BY <1>2, <1>5 DEF ShotInv, FailureHasCause
<1>16. QED
  BY <1>7, <1>8, <1>9, <1>10, <1>11, <1>12, <1>13, <1>14, <1>15

-----------------------------------------------------------------------------
(* The invariant and what follows from it.                                  *)

LEMMA ShotStep ==
  ASSUME ShotInv, [Next]_vars
  PROVE  ShotInv'
<1>1. TypeOK'
  BY TypeStep DEF ShotInv
<1>2. CASE UNCHANGED vars
  BY <1>1, <1>2 DEF vars, ShotInv, Collected, Fresh, StartedOnce, ForeignPath, DataClean,
     OriginClean, TaintedAtEnd, DrewProxied, FromProxy, Unasked, FailureHasCause, Pending
<1>3. ASSUME NEW s \in Shots, Chain(s) PROVE ShotInv'
  BY <1>1, <1>3, ClickStep, CloneStep, StageStep, RenderStep, ImageStep DEF Chain, ShotInv
<1>4. ASSUME NEW s \in Shots, NEW k \in Keys, Answered(s, k) \/ TimesOut(s, k) PROVE ShotInv'
  BY <1>1, <1>4, AnswerStep DEF ShotInv
<1>5. ASSUME NEW f \in Frames, Frame(f) PROVE ShotInv'
  BY <1>1, <1>5, FrameStep, StartFrameStep DEF Frame, ShotInv
<1>6. CASE Tests
  BY <1>1, <1>6, DataTestStep, ForeignTestStep DEF Tests, ShotInv
<1>7. QED
  BY <1>2, <1>3, <1>4, <1>5, <1>6 DEF Next

LEMMA Invariance == Spec => []ShotInv
<1>1. Init => ShotInv
  BY InitShot
<1>2. ShotInv /\ [Next]_vars => ShotInv'
  BY ShotStep
<1>3. QED
  BY <1>1, <1>2, PTL DEF Spec

\* The variables keep their types on every page, and the loop over the images
\* that runs is the one its promise chain is at.
THEOREM PageTypeCorrect == Spec => []TypeOK
<1>1. ShotInv => TypeOK
  BY DEF ShotInv
<1>2. QED
  BY <1>1, Invariance, PTL

\* Whatever a page holds and a browser does, html2canvas resolves with a canvas
\* that cannot be exported only if allowTaint asks for it or an image was drawn
\* that came through the proxy, where data images taint.
THEOREM PageExportable == Spec => []NeverTainted
<1>1. ShotInv => NeverTainted
  BY DEF ShotInv, TaintedAtEnd, NeverTainted
<1>2. QED
  BY <1>1, Invariance, PTL

\* A picture is taken only once everything its screenshot asked for has come or
\* has failed, nested screenshots included.
THEOREM PageSettled == Spec => []DoneIsSettled
<1>1. ShotInv => DoneIsSettled
  BY DEF ShotInv, Collected, DoneIsSettled
<1>2. QED
  BY <1>1, Invariance, PTL

\* However often an image occurs and whatever it waits for, the cache asks its
\* server once.
THEOREM PageAskedOnce == Spec => []AskedOnce
<1>1. ShotInv => AskedOnce
  BY DEF ShotInv, Unasked, AskedOnce
<1>2. QED
  BY <1>1, Invariance, PTL

\* A screenshot that fails has a cause other than an image of its page.
THEOREM PageFailureCaused == Spec => []FailureHasCause
<1>1. ShotInv => FailureHasCause
  BY DEF ShotInv
<1>2. QED
  BY <1>1, Invariance, PTL
=============================================================================
