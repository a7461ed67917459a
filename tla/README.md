# TLA+ models of ZXJS

ZXJS is a collection of independent small projects: Java services, and a browser
page with the screenshot library html2canvas. This directory holds TLA+ modules
for the parts in which concurrency, shared state, a protocol or a long walk over
data decides whether the code is right, the TLC configurations that check them
on small instances, and proofs, checked by TLAPS, that hold for every value of
the constants.

    tlc -config Screenshot.cfg MCScreenshot      # one run; PROJECT.json lists all
    tlapm ScreenshotProofs.tla                   # the proofs of one component

## 1. Inventory

| Project | State it keeps | Operations | What is hard | Status |
|---|---|---|---|---|
| **Map: html2canvas, screenshot pipeline** | per screenshot a promise chain, a resource cache and a hidden clone; per page the answers of feature tests | `html2canvas`, clone, parse, load, wait, render, and the same again for every iframe | events in any order, timeouts, nested screenshots, tainting, silent servers | modelled |
| **Map: html2canvas, generated content** | counters and quotation depth of a walk over the document | `cloneNode`, `parseContent`, `resolvePseudoContent` | scopes opened and closed across a tree, exceptions that reject the screenshot | modelled |
| **Map: html2canvas, painting order** | stacking contexts, the canvas state and what the renderer remembers of it | `NodeParser`, `Renderer` | elements drawn far from where they stand, state saved and restored under a cache | modelled but for clip paths and shapes |
| **Map: html2canvas, text** | position of the line breaker, offset of the measurement | `LineBreaker`, `breakWords`, `parseTextBounds` | rules over neighbours and over what is behind them; two ways of counting units | modelled |
| **Map: html2canvas, list markers** | items of each list, their numbers | `NodeContainer`, `createCounterText` | nested lists; carries, ranges and fallbacks of counter styles | modelled |
| Map: html2canvas, CSS values and drawing | none | parsers of colours, lengths, gradients, shadows; curves; canvas calls | geometry over doubles | not modelled |
| **Map: the page** (`index.js`) | points of eight outlines, the map | answer to `findCount`: group rows by x, choose the nearest concentration; the screenshot button | copied comparisons | outline and button modelled, projection not |
| **accident-simulation: task pool** (`util/threadPool`, `ExplodeService`, `LeakageService`) | static `isRunning`, `taskCnt`; `CacheManager` (user + key → result map of `nd1..nd3` → `{nd, coord}`); pool threads and queue | a POST removes the user's map, constructs a task (which looks up and puts a map), adds it, polls `isRunning` every second, fetches the map, for heavy gas appends the origin; a task fills the map level by level and gives its count back | one flag and one counter for all requests; a flag set outside the lock; unlocked lists; exceptions that skip the decrement | modelled |
| **accident-simulation: SLAB session** (`LeakageUtil.handleData`, `DealSlabFile`, first half of `heavyGasCalculate`) | three cache entries per user (parameters, time map, all rows); one directory with `input`, `predict` and `SLAB.exe` | `getParam`: store parameters, run SLAB.exe under a class monitor, parse, cache, answer; `heavyGasCalculate`: read the three entries | entries written one by one and read without a lock; results of failed runs; a file shared by all users | modelled |
| accident-simulation: concentration search, x ranges, formulas | none | `getConByColor`, `getMaxX`, `getXList`, model classes | doubles; loops that may not end | search planned, formulas out of reach |
| accident-simulation: chemicals, HTTP | database | look-ups, routing | nothing of its own | not modelled |
| **netty-file: upload** | client: `lastLength`; server: `start`; files | chunk, store, reply with position, next chunk or close | int positions, lost connections, short, empty and long files, start position | modelled |
| netty-file: proverb | none | UDP broadcast, answer, 15 s wait | loss and duplication | planned |
| kafka-util | consumer per partition, committed offset | poll, handle, commit, recreate | crash between handling and commit, a closed consumer polled on | planned |
| log-reader | session pool, online counter, one tailer-thread field | onOpen, onClose, onMessage, tail | late onClose of a reconnected user, overwritten thread | planned |
| redis-stress-testing | Redis keys with expiry | some thirty wrappers, pipelines, ten save threads | write and expire in two calls | planned |
| jisuan | upload batch; Huffman tree; file lists | spreadsheet listener, tree, recursion over directories | a save that fails in the middle | planned; SMB, Quartz, crawler are library calls |
| license-testing | license file | request code, response code, check, save | expiry, truncated file, segmentation | planned |

How they interact: the projects do not call each other. The page calls
html2canvas with a click; inside it the screenshot pipeline clones the document
(generated content), parses the clone (text, list markers, stacking contexts)
and draws it (painting order), and the parts share nothing but the cloned
document, so they are modelled each by itself: the pipeline takes cloning,
parsing and drawing as steps that succeed or throw. The page loads
`html2canvas.min.js`, of which `html2canvas.js` is the readable source. Inside
accident-simulation the SLAB session hands one task per heavy-gas calculation to
the task pool, and both keep their data in the one `CacheManager`. The two netty
handlers talk over one TCP connection per upload.

What makes each part correct: a screenshot must end, show everything that
loaded, fail for no single image and stay exportable; generated content,
painting order, line breaks and markers must be what CSS and HTML say of the
document; the pool must answer each request with its own finished result and
answer every request; the session must never mix the rows, parameters and
results of two runs or two users; the upload must leave an exact copy or report
a broken transfer, and must end; the consumer must process every record at least
once; the log reader must send lines to exactly the open sessions and leave no
thread behind; a license must be accepted iff it is valid.

The hazards behind these sentences, each at its line, are in `PROJECT.json`. Of
lesser weight, and without a property: a `predict` file that cannot be deleted
(`DealSlabFile:72`), walks over x that need a positive concentration
(`LeakageUtil:200`), a padded short upload and positions off by `starPos`
(`FileUploadClientHandler:49`, `:72`), two uploads under one name
(`FileUploadServerHandler:46`), Redis writes followed by a separate expire
(`RedisUtil:286`), a spreadsheet save that throws (`UploadDataListener:54`), a
license file truncated before it is written (`FileUtil:70`); in `html2canvas.js` a
clone or a proxy frame left in the page (3535, 6527), a font that rejects the
foreign-object path (6190), data images that ready() does not wait for there
(6721), a canvas sized after the boxes were measured (3509), only the first
pair of `counter-increment` (7009), apostrophes in strings (7094), a text shadow
that stays (2549), clipping by ancestors that do not contain (1186), visible
children of hidden elements (3617), lost signs and Hebrew digits (2219, 1350);
in `index.js` maps in the order of answers (172) and rows at x = 0 (120).

## 2. Modules

| Module | Models | Role |
|---|---|---|
| `Screenshot` | `html2canvas`, `renderElement`, `DocumentCloner`, `ResourceLoader`, `Proxy`, `FEATURES`, the page's button | detailed specification |
| `ScreenshotProofs` | | five theorems about `Screenshot` |
| `ContentTokens` | `parseContent`, and how browsers write `content` | pure operators; extended by `PseudoContent` |
| `PseudoContent` | `cloneNode`'s walk, counters and quotation marks | walk, with CSS's rules as reference |
| `PseudoContentProofs` | | four theorems about `PseudoContent` and `parseContent` |
| `Paint` | `NodeParser`'s stacking contexts, `Renderer`'s order, opacity, transforms | parse and draw, with CSS's order as reference |
| `PaintProofs` | | five theorems about `Paint` |
| `LineBreak` | `LineBreaker`, `breakWords`, `parseTextBounds` | breaker and measurement |
| `LineBreakProofs` | | four theorems about `LineBreak` |
| `ListMarkers` | `NodeContainer`'s numbering, `createCounterText` | numbering, with HTML's as reference |
| `ListMarkersProofs` | | three theorems about `ListMarkers` |
| `Contour` | the answer to `findCount` in `index.js` | callbacks of the page |
| `RunningStatus` | `RunningStatus.java` | flag and counter; extended by `TaskPool` |
| `TaskPool` | services, `TaskExcutePools`, the three Runnables, `CacheManager` | detailed specification |
| `TaskPoolProofs` | | six theorems about `TaskPool` |
| `SlabSession` | `getParam`, `heavyGasCalculate` up to the pool, `DealSlabFile` | detailed specification |
| `SlabSessionProofs` | | five theorems about `SlabSession` |
| `FileTransfer` | what an upload promises | abstract specification |
| `FileUpload` | the two netty handlers | detailed specification, implements `FileTransfer` |
| `FileUploadProofs` | | four theorems about `FileUpload`, one of them the refinement |
| `MC...` | | values for the constants of the module each is named after |

Operators whose comment begins with "A bug:" or "Mutant:" are deliberate faults,
one for each checked property; no action uses them. Putting one in the place of
the definition that `PROJECT.json` names makes TLC report the property violated,
which shows that the property depends on that piece of the code.

### Screenshot

JavaScript runs one callback to its end. A chain of promise callbacks that waits
for no event is therefore one action, and everything that waits is a stage of
`pc`: *feature* (the test for foreign objects), *iframe* (the clone loads),
*cloned* (onclone), *parse* or *inline* (the loop over the images, during which
`turn` keeps every other callback out), *fonts*, *wait* (`ResourceStore` with
everything `ready()` collected), *svg*, and the ends *done*, *failed* and, once
the page has exported the canvas, *saved*. `cache[s][k]` is the promise of one
source: "testing" waits for the data-image test, "proxying", "fetching" and
"loading" for a server, "hosting", "open", "nested" and "drawing" are the stages
of an iframe whose document becomes a screenshot of its own, with `StartFrame` and
`FrameEnds` joining the two chains. A settled promise ignores what comes late, so
`Answered` and `TimesOut` move pending entries only. What the images are, which
servers are silent and what the browser does in the feature tests are constants;
what each screenshot may meet in its document and its options is chosen in `Init`.
What the proxy answers with is a data URL, which `_loadImage` loads without the
feature test and without crossOrigin: such an image (`FromProxy`) taints the
canvas where data images do (`Base64Taints`). An image that the page replaces
between clone and load is not modelled.

### ContentTokens and PseudoContent

A document is a set of intervals: `Open[n]` and `Close[n]` are the positions at
which the recursion of `cloneNode` enters and leaves n, so `pos` is the place of
the walk and every action is one visit. `Enter` resets counters and resolves
`::before`, `Leave` resolves `::after` and pops, `Ignore` passes over a subtree.
The text of `content` is kept as lexemes: the style gives the tokens an author
wrote, `Content` writes them as browsers do, and `parseContent` reads them back.
Control characters (`Controls`, those that TLA+ strings can write) are written as their
number and a space, which is what `parseContent` keeps of them (`KeptToken`).

The reference does not walk. It is CSS's rule about the document that is cloned,
in which ignored elements are absent: a counter is seen in the element that
creates it and in the siblings after it (`Covers`), its value is the initial one
and the increments before the place (`RefNumbers`), the depth of the marks the
ones opened and not closed before it (`DepthBefore`). `Sums` has the running
totals of what each position adds: to the counter of one element (`Counts`), or to
the depth (`AllMarks`).

The code cannot follow all of this, and the model does what the code does. A browser
writes a list of counters with spaces between, the code cuts it at commas, so that
only the first counter of a list is reset (`Resets` against `Listed`). It pops a
counter when it leaves the element that reset it, where CSS shows it to the siblings
after it as well. `Followed` names the counters for which neither matters, `Orderly`
the places that use no others. A counter that has been left is an empty array: in
styles that make digits from code points its number throws, as
`String.fromCodePoint` does for what is no code point; the others
(`WithoutDigits`) show a sign, nothing or the word "undefined", a part of type
"missing".

Left out are an apostrophe in a string, which ends it, and an empty `url`, which
gives no token (`StylesAssumption`, `Tokens`); the second and later pairs of a
counter-increment, an element's own counter-increment and a pseudo-element's own
counter-reset (none of which the code reads);
no-open-quote and no-close-quote, which `parseContent` passes over; elements
that are not displayed, and marks with a space in them. A list of marks has pairs, or is
the one word `none` or `auto`, which the code takes for a list of one.

### Paint

The parse half walks the same kind of document and builds the tree of stacking
contexts with the indices the code gives; the draw half works off an `agenda`
of the calls that the recursion of `renderStack` still has to make, so that the
canvas state between any two of them is a state. `lastOpacity` is what the
renderer believes, `alpha` what the canvas has; `Restore` is where they part.
`Sorted` leaves the order of contexts that the comparator declares inconsistent
to the engine. The reference (`Key`, `Less`) compares two drawings by the steps
of CSS's painting order along their contexts. `BodyAssumption` is about the
documents: nothing before the BODY is shown but the root, since browsers hide the
HEAD. The renderer paints a BODY with a transparent parent among the inline
contexts, so that without the assumption a sibling shown before it could overtake it.

### LineBreak

A character is a record of what the rules look at; the Unicode trie that gives
its class is data and left out. `next` is one call of the breaker, by the rules
LB4 to LB30b in the code's order (whether trim() takes a character is a field of its
record), `Letters` the other way of cutting, `Measure`
one word of `parseTextBounds` with its offset in the node. Units in the
transformed text and in the node are counted apart.

### ListMarkers

Elements come in document order; `ParseElement` is the constructor of a
`NodeContainer` with the marker it makes. A text is a sequence of the numbers
its symbols stand for, which is what a reader reads back (`Reads`); fonts and
code points are left out. The systems are those of the code, with their ranges
and fallbacks; a style whose name the code does not know makes no marker
(`Named`). Left out are reversed lists (HTML counts them down, the code reads
only `start` and `value` and counts up), a screenshot of a part of a list (items
before it are not parsed), and images as markers.

### Contour

A click asks, an answer of any click is drawn in one go (`TakeColumn` once per
column, `Draw`); each answer makes a map of its own.

### TaskPool

A request is a thread: its `rpc` walks through *construct, putMap, mark, count,
execute, wait, fetch, deal* and ends in *done* or *error*. Each value stands
before one access to shared state, so every interleaving the JVM allows between
two accesses is a behaviour: the removal of the old map (`Begin`; a heavy-gas request
without parameters in the cache fails right after, `PrepareFails`), the lookup
and the put of the constructor (`Construct`, `PutMap`), the two steps of
`addRunningTask` (`Mark` stores the flag outside the lock, `Count` is the
synchronized call), `execute` (a new core thread, or the queue once all core
threads exist: the queue is unbounded, so the maximum pool size never matters),
a poll that finds the flag down (`SeeIdle`), the lookup of the result (`Fetch`)
and one step per level of `pointDeal`.

A pool thread reads the map when `run()` starts, and per round over x and level
either skips it, or fetches the entry, computes, and puts the entry. Result
maps and entries are objects named by the request that allocates them, so
sharing and overwriting are visible. `GaussianThread` and `HeavyGasThread` keep
lists of points, `VceExplodeThread` a radius. All three use the same cache key,
so a task may find an entry of the other kind and die in a ClassCastException
(`GetError`), or find no map and die in a NullPointerException; a task that dies
returns its thread to the pool but not its count. Two threads in `add` on one
`ArrayList` may lose a point or throw (`LosePoints`, `AddError`,
`DealLosePoint`). What the formulas decide (does the value exceed a level, how
many rounds) is left open; that the numeric loops end is assumed.

`fate`, `made` and `overlap` are history variables: what became of a task, what
it computed, which requests met. They guard nothing.

### SlabSession

A run goes through two unlocked cache steps, the formatting (which fails on an
absent field, after the parameters have been stored), the removal of old times,
and then the class monitor of `cachePredict`, inside which it writes `input`,
deletes `predict`, executes SLAB.exe and parses what it left: every step may
fail, SLAB.exe may leave no file, an empty table or an unparsable one, and the
swallowed exceptions lead to `Leave`. The answer is read from the cache after
the monitor is left. A calculation reads the three entries one by one, writes
its `z` into the cached row, and its pool task clones that row later
(`Compute`). `clash` is a history variable: users two of whose requests met, or
one of whose runs broke off in the formatting.

### FileUpload

Byte i of the file of upload u is the value `<<u, i>>`, so the stored file shows
which bytes went where. `Wrap` is the width of `int`, with `IntLimit` for 2^31
and `Chunk` for 10240. `ClientCut` and `ServerCut` break the connection on one
side at any point; what was under way to that side is lost, what was under way
to the other may still arrive. The mapping to `FileTransfer` takes the stored
file of u as its copy and the client's side as its status.

The reply -1, which `channelRead` of the client ignores, and a chunk for a
negative `start` have no action: `ReplyIsPosition` shows that neither occurs.

## 3. What is checked

| Run | Instance | Shows |
|---|---|---|
| `screenshot` | two clicks, one with a proxied iframe and five choices of document and options, one with a plain iframe and three; five images, one of them repeated, one on a silent server; fairness; 156 290 states | an exported canvas is tainted by proxied images only; no picture before everything asked for has come or failed; nothing is asked for twice; no image fails a screenshot; every click ends unless something hangs that nothing times out |
| `pseudo_content` | a list in a list and a paragraph, all combinations of their styles; 16 272 states | counters that the walk can follow and quotation marks are what CSS says of the place; cloning throws exactly at a missing mark and at digits of a counter that has been left |
| `paint` | five elements of twelve kinds; 42 628 states | each visible element is painted once, in CSS order, under its own transforms and opacity |
| `line_break` | texts of up to five characters from seven groups of classes, five settings; 125 440 states | words are measured by their own part of the node; numbers and flags stay whole; `word-break` only adds or takes the breaks it should |
| `line_break_marks` | ideographs, letters and combining marks | violation: a mark is cut off its base after the first character |
| `list_markers` | lists in lists with values and hidden items; twenty styles from 29 starts at their edges; 3 650 states | items are numbered as in HTML; a marker reads back as its number; additive numbers are canonical |
| `contour` | answers of up to two rows, two clicks | violation: of two rows near 0.0001 the later one is taken, not the nearest |
| `pool_mixed` | 3 requests (heavy gas and Gaussian of user a, VCE of user b), 2 symmetric threads, 1 level, 2 rounds; 2 831 270 states | the counter equals the outstanding tasks; the flag has a cause and falls only when drained; no point crosses users; a request that met no other returns its finished calculation |
| `pool_one_thread` | a Gaussian and two VCE requests of one user, 1 thread, fairness; 358 432 states | tasks end, also behind a task that died; requests are answered unless a task died |
| `pool_early` | 2 requests of 2 users, 2 threads, 2 levels | violation: a request returns while its own task is queued or running |
| `slab_session` | 2 runs and a calculation of user a, 1 run of user b, fairness; 328 186 states | results come from the user's own input; the two entries agree except between two puts; answers and calculations are consistent for a user with one request at a time; every run is answered, whatever fails |
| `upload` | files of 8, 3 and 2 bytes, chunk 2, `IntLimit` 3, lost connections, fairness; 8 320 states | the handlers implement the transfer; overflow of an int breaks a transfer but never completes it wrongly; both sides of an upload end |

The three violations are disagreements between the code and what the repository
says of it; `PROJECT.json` quotes both sides under "findings".

**Bounds.** The counters are bounded by the instances: the level (`NumLevels`),
the round over x (`MaxX`), the length of files, texts and documents; no action has
a further bound. Two threads and two requests of one user suffice for every
conflict over a map, an entry or the counter, since each conflict is between two
parties; the third request of `pool_mixed` adds a bystander whose task keeps the
flag up. Two rounds are the least for which a task meets its own entry again. The
passing runs of the pool have one level, since levels keep their entries apart and
a second multiplies the states by more than ten; `pool_early` has two, and what is
proved holds for any number. The kinds are divided so that each pair that can meet
on one map does: lists with lists in `pool_mixed`, a list with a radius and a
radius with a radius in `pool_one_thread`. Two runs of one user and one of another
are the least with both conflicts of the SLAB directory. The three lengths of
`upload` take different courses of the int arithmetic at `IntLimit` 3 (a remaining
length of twice `IntLimit`, which is 0 as an int, a chunk and a rest, one chunk);
a file without bytes is left out, because nobody sends and nobody closes and
`UploadsEnd` is false of it. Two clicks and a frame each are the least in which
two chains share the feature tests, one of them through a nested screenshot; the
five images and the options take the branches of `loadImage` but that of a blob,
asked for like an image of the page, and the last, which asks for nothing. Five
elements give a context in a context in a context with one after it, and a counter
scope in another with items on both sides. LB rules look at most three characters
back over one kind of character, which texts of five cover; the groups keep
together the classes that one rule names.

**Deadlock.** In every instance the system comes to rest: when all requests or
uploads have ended or wait behind a dead task, when every promise is settled or
hangs, when a walk, a text or a drawing is at its end; each configuration says
so and switches the deadlock check off.

**Fairness.** Of the pool: its started request threads and pool threads go on
while one of them can (the JVM schedules runnable threads; nobody owes the arrival
of a request); every step takes a request or a task further, so one condition for
all of them is enough. Weak fairness of each run of the SLAB session (SLAB.exe is
assumed to end, since `waitFor` has no timeout), and of each upload's handlers
(event loops process what they are given). Breaking a connection is never fair.
For `Screenshot` one condition, `WF_vars(Next)`: the browser goes on while an
event it owes, a timer or a callback is left. It owes no answer of a server in
`Silent` (such an action is not enabled), and a promise settles once and a
screenshot passes each stage once, so that no part can go on for ever at the cost
of another.

**Memory.** `isRunning` is not volatile. Stores to it are surrounded by monitor
operations of the same thread and the reader sleeps between two reads, so a read
is modelled as returning the latest store; `RunningStatus` gives the reasons.

**Reading the conditional properties.** `OpacityIsOwn` and `PaintOrderIsCSS` name
the documents they speak of: elsewhere the renderer's remembered opacity, or an
index shared by two branches of the tree, makes the code differ from CSS, and no
text of the repository says what should happen. `ContentIsReference` speaks of
`Orderly` places, as described under PseudoContent; `ThrowsExactlyThere` of all.
`NeverTainted` leaves out canvases on which a proxied image was drawn
(`DrewProxied`) in a browser whose data images taint: the comment at
`html2canvas.js:6803` says why crossOrigin is set for data images, `_loadImage`
does not set it, and without the exception TLC finds the first click of
`screenshot` tainted. `MarkersReadBack` leaves out the numbers that `Writes` says
a style cannot write, and `StylesAssumption` strings with apostrophes or control
characters and empty urls. `AloneIsComplete` speaks of requests that met no other,
and `AnswerIsOwn` and `CalcIsConsistent` of users who send one request at a time:
what happens when they meet (points lost, a map removed, parameters beside older
results) is in the models and among the hazards, but no property forbids it.

## 4. What is proved

For all constants that satisfy the named assumptions: finitely many requests, at
least one level and one round, images and iframes apart, documents that are finite
trees whose elements have an opening and a closing position (or come after their
parent), characters with lengths and classes, and functions of the right kind;
nothing shown before the BODY of a document. Nothing is assumed about the number
of threads, users, screenshots and images, about what servers and browsers answer,
or about the shape of a document and the styles in it:

| Theorem | Says |
|---|---|
| `PageTypeCorrect` | `Spec => []TypeOK` of `Screenshot` |
| `PageExportable` | `Spec => []NeverTainted` |
| `PageSettled` | `Spec => []DoneIsSettled` |
| `PageAskedOnce` | `Spec => []AskedOnce` |
| `PageFailureCaused` | `Spec => []FailureHasCause` |
| `TypeCorrect` | `Spec => []TypeOK` of `TaskPool` |
| `CounterExact` | `Spec => []CountIsOutstanding` |
| `FlagCaused` | `Spec => []FlagHasCause` |
| `FlagResetSound` | `Spec => FlagFallsWhenDrained` |
| `UsersAreIsolated` | `Spec => []UsersIsolated` |
| `LoneIsComplete` | `Spec => []AloneIsComplete` |
| `SessionTypeCorrect`, `OwnResults`, `PairTorn` | `Spec => []TypeOK`, `[]ResultsAreOwn`, `[]PairFromOneRun` of `SlabSession` |
| `LoneAnswers`, `LoneCalculations` | `Spec => []AnswerIsOwn`, `[]CalcIsConsistent` |
| `UploadTypeCorrect`, `StopAndWait`, `PositionsValid` | `Spec => []TypeOK`, `[]OneMessage`, `[]ReplyIsPosition` of `FileUpload` |
| `UploadImplements` | under `Clean`: `Spec => TransferSpec` |
| `BoundsAreTheWords` | `Spec => []BoundsAreOwn` of `LineBreak` |
| `NumbersNeverBreak`, `FlagsArePairs` | `Spec => []NumbersStay`, `[]FlagsArePaired` |
| `WordBreakMonotone` | `Spec => []WordBreakIsMonotone` |
| `NumbersAreHTML` | `Spec => []NumberingIsHTML` of `ListMarkers` |
| `AdditiveAsByHand` | `Spec => []AdditiveIsCanonical` |
| `MarkersSayTheirNumber` | `Spec => []MarkersReadBack` |
| `ScopesAreThePath` | `Spec => []ScopesMatchPath` of `PseudoContent` |
| `ParsesWhatWasWritten` | for all `T \in Seq(Tokens)`, `parseContent(Content(T))` is T token by token, each control character of a string being its number and a space (`KeptToken`) |
| `ShowsTheReference`, `ThrowsForAReason` | `Spec => []ContentIsReference`, `[]ThrowsExactlyThere` |
| `TreeIsRight` | `Spec => []TreeInv` of `Paint` |
| `TransformsOwn`, `OpacityOwn` | `Spec => []TransformsAreOwn`, `[]OpacityIsOwn` |
| `PaintsOnce` | `Spec => []PaintedOnce` |
| `PaintsInOrder` | `Spec => []PaintOrderIsCSS` |

*Screenshot.* The properties speak of a chain's end; `ShotInv` says what the chain
may rely on before. `DoneIsSettled` needs `Collected`: from `ready()` on, the
collected keys are those the cache holds, which is so because an entry past the
loop moves only while it is pending and never back to "none" or "testing"
(`Moves`, `CollectedKept`), and because a nested screenshot is started once, with
an empty cache (`StartedOnce`, `Fresh`). `NeverTainted` needs that everything
drawn was asked for cleanly: `OriginClean` for images of other origins, with the
foreign-object path as the exception that `ForeignPath` closes and proxied images
as the one that stays (`DrewProxied`), and `DataClean` for data images, which
holds although the answer of the test comes between the request and the drawing,
because a negative answer sets crossOrigin for all that waited. `AskedOnce` needs
`Unasked`: what is absent or waits for the test has not been asked for. Every
action has a lemma, most by three general ones: a stage moves and no resource
(`StageStep`), one pending entry moves (`EntryStep`), and the loop over the images
(`ImageStep`).

*TaskPool.* `CountIsOutstanding` is not inductive alone: a task that finishes
lowers the set `Outstanding` by one only if the task had not finished before and
no other thread runs it. So the inductive invariant `PoolInv` joins it with
`TasksNotShared` (no property of a run: the executor sees to it; a running task
has fate "running" and one thread), with `ComputeHolds` (a thread that computes
holds an entry and a map) and with `TypeOK`; `Cardinality` lemmas turn "one
request joined or left the set" into plus and minus one. The action property
follows from the invariant in the next state: the flag falls only in
`operateRunningTask`, with `taskCnt` 0, and a finite set of cardinality 0 is
empty. `UsersIsolated` needs the owner of everything a task can hold (`Owners`):
what a key of the cache leads to, the map a thread took from it, the entry it took
from the map and the points inside all belong to the user of the task, and each of
these facts is needed to keep another. `AloneIsComplete` needs, of a request that
meets no other, that its map is its own (`Private`), that it goes its way
undisturbed, with the flag up from `Mark` until its task has finished
(`OnItsWay`), and that its map keeps every point its task computed (`Kept`). `Met`
turns the history variable into a fact about the other requests: while this one is
active, no other is; and after it, `Private` keeps the requests to come off its
map.

*SlabSession.* `ResultsAreOwn` needs to know who may change the files: `SlabInv`
adds mutual exclusion (`Exclusion`) and that, between its write and its read, the
files belong to the run inside the monitor (`FilesOwn`). `PairFromOneRun` follows
from exclusion as well, because the two puts happen inside the monitor.
`AnswerIsOwn` and `CalcIsConsistent` are about users who send one request at a
time: `LoneInv` says that for such a user one request is under way at most
(`Sole`), what a run or a calculation has left in the cache is still there at its
next stage (`RunAlone`, `CalcAlone`), and between requests time map and parameters
name one run (`AtRest`), which is what the next calculation relies on. A clash is
for ever, so the facts need to hold only before it.

*FileUpload.* `OneMessage` and `ReplyIsPosition` need each other: a chunk goes out
only after a reply that was no negative position, and the reply under way is the
server's `start` (`Turn`, part of `UploadInv`). The arithmetic (`WrapSum`): a
position below 2^31 plus a chunk below 2^31 that leaves the range of `int` becomes
a position below -1, so the client's seek fails and nothing follows. Neither
theorem restricts lengths, names or start positions. The refinement assumes
`Clean` (names of their own, a full chunk, start at 0, and any length): then
`CopyInv` says that the stored file is the first `Held` bytes, where `Held` is the
server's `start` before it was cut to an int, and that a chunk under way holds the
bytes that come next; `WriteNext` is the lemma that writing them gives the longer
prefix. A `start` that has overflowed is below -1, so nothing is written any more.
A chunk the client cuts short because what remains overflows an int is a shorter
prefix, or none at all: then the step is a stutter. Otherwise `Store` maps to
`Extend`, `CloseAtEnd` to `Complete`, the client's errors to `Break`, and every
other step to a stutter.

*LineBreak.* The words are contiguous and end exactly at the positions where
`_lineBreakAtIndex` allows it, or at the end (`BreakerInv`), so that what a
property says of the words becomes a statement about the rules between two
characters. Three of the theorems are then about the order of the rules: that each
rule which comes before LB25, LB30a or the `word-break` rules either decides the
same or cannot apply. `BoundsAreOwn` needs `Measured`: the offset is always the
length, in units of the transformed text, of the words behind it (`Span`, a sum that
`SpanSplit` divides at any word), which agrees with the node as long as no
character changed its length.

*ListMarkers.* The code numbers by the last item of the owner and HTML by all items
since the last value; `ItemsInv` says that an owner keeps its last item and that
the two agree for every item parsed, and a new item adds one to the count of the
last (`NextNumber`). `getListOwner` is a recursive function; that there is one, and
that it leads to elements before, is proved by the least number for which it
would fail. The same argument (`WritingExists`, `WritingFine`) shows what
`createAdditiveCounter` writes: what is left after a symbol is less than it, the next
symbol is at most a factor below (`Near`: 4 for Roman numbers, 2 for the others), so it
is written fewer times than the factor; the numbers within a style's range are
less than the factor times its first symbol. `MarkersReadBack` has a lemma per system:
the reader of a text is a recursive function like its writer, and each writer
undoes what its reader does with the last symbol (`PositionalFront`, `WritingAdds`,
`SpelledOne`), so that a least number which read back wrongly would lead to a smaller
one. Spelling out needs to know what is already written behind a power of ten, and
that a power stands behind its digit or, for 10 to 19, alone (`PutLast`, `PutBefore`).
`Dispatch` says which writer a style comes to, through its fallbacks.

*PseudoContent.* A step of the walk adds one element to those around the place,
takes one away, or passes over a subtree, and no two ends share a position
(`PositionsDiffer`, by counting); `ScopesInv` keeps, for each counter, as many
values as elements around that reset it. `WalkInv` says which values: each is the
initial value of its element and the running total of what the places before have
added in its scope (`ValuesOf`), so entering appends a value (`ValuesAppend`), a
place changes the innermost one (`CountStep`), and over an ignored subtree nothing
changes (`IgnoredValues`); the depth is a running total in the same way
(`DepthKept`). `parseContent` is taken lexeme by lexeme: a lemma for each lexeme
outside and inside strings, then for strings, calls and tokens (`StringIs`,
`WholeIs`, `WrittenIs`), and `ParsesWhatWasWritten` puts the tokens together.
`ReadableParsed` adds that tokens without control characters come back as they
are. Then `BuiltIs` follows the loop over the tokens of a place: as long as
nothing `Fatal` has come, its parts are the beginning of what the walk reads of
the document (`ReadContent`, defined in the proofs like the reference, but with
the code's rule of scopes: the elements around) and its depth is `DepthBefore`
(`TokenShown`); afterwards it stays bad. So every place shows `ReadContent` or
throws (`PlaceShown`), whatever its counters, which gives `ThrowsForAReason`; and
where a counter is `Followed` the two rules name the same elements and the same
values (`FollowedScopes`, `SameNumbers`), which gives `ShowsTheReference`
(`ReadAsReference`). Induction over the index of a loop is `UpTo`, from the least
number for which the claim would fail. What has been shown stays right because
both readings are of the styles alone (`ReferenceStays`).

*Paint.* `TreeInv` is about the parser: an element and the context whose list it is in
have the same real stacking contexts around them, though contexts that only
collect positioned elements lie between. Transforms and opacity make real contexts,
so those of an element can be read off its context. `TransformInv` adds that
a call on the agenda is made under the transforms that are restored after it
(`RestoresAfter`). Opacity is set at contexts and set back nowhere; `OpacityInv`
says that in the documents of `OpacityIsOwn` the calls that are left, in their order,
find what the last one set (`Plain`, `Trusted`). For `PaintedOnce` the tree must hold
each element in exactly one list (`OnceInv`), and `PaintInv` says that each visible
part is either drawn once or due in exactly one call of the agenda (`Home`, `Up`,
`Carries`), which the expansion of a call into its seven steps keeps. `PaintOrderIsCSS`
needs three more facts. The lists of a context are in tree order, each element in
the list of the context it is painted in, and brothers are numbered in their order
(`ListInv`: `CallInv` for what the open calls of the parser know, `HomeInv`,
`NumberInv`, `RisesInv`). So the calls that `renderStackContent` makes for a context
rise in CSS's order (`PlanRises`): across its parts by CSS's steps, in an unsorted part
by the tree, in a sorted one by z-index and then by the number, which decides between
brothers only; this is where the property's condition enters. Last, what a
context plans replaces the context at its own place in the order, so that all that is
drawn comes before all that is pending (`OrderInv`).

*Only model-checked:* liveness under fairness (`ClicksEnd`, `TasksEnd`,
`AnsweredUnlessTaskDies`, `RunsEnd`, `UploadsEnd`), which TLAPS does not support. Every
safety property of the passing runs is a theorem. Recursive functions of the model
are reasoned about by a least counterexample, where a fold, whose theorems take an
operator as a parameter, could not be.

## 5. Not modelled, and why

Formulas over doubles (dispersion, explosion, map projection) and the loops
whose end depends on them; html2canvas's colours, lengths, gradients, borders,
shadows, bounds, curves, clip paths, font metrics and canvas calls (geometry over
doubles without state of its own), input elements, and the Unicode trie (data);
database and SMB access, HTTP routing, Swagger, Quartz and crawler demos (calls
into libraries without state of their own); jQuery, the minified library and the
drawing pages; build files. In the modelled parts: the wording of messages and
logging, timing prints, `TaskExcutePools.initPools` (no caller), file descriptors,
a failing `delete()` of the predict file, and the case of a directory given as
upload file (its handler fails on a null field and the connection closes).

## 6. Plan

Next, in this order:

1. `RecordLog` (abstract: every record handled at least once, in order) and
   `QueueConsumer` (poll, handle, commit, exception, recreate, crash), with
   `KafkaUtils.startConsume`, which does not recreate, beside it.
2. `LogSessions`: `WebSocketService` and `TailerTest` under concurrent opens,
   closes and reconnects.
3. `CalculationService`: `SlabSession` and `TaskPool` composed over one cache,
   so that `Compute` and the early answer of the pool meet.
4. `RedisStore`: keys, expiry and failing second calls; the save threads.
5. `UploadBatch`, `LicenseLife`, `ProverbQuery`, and pure operators:
   `ConcentrationSearch` (bracket search over integers), `PredictTable`
   (`getPredictData`), `Huffman` and `FileWalk` (recursive, TLC only), each
   against a reference definition.
6. Proofs: at-least-once for the consumer.
