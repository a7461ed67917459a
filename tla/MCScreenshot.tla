---------------------------- MODULE MCScreenshot ----------------------------
(***************************************************************************)
(* Small instances of Screenshot.  "s1" is a click of the map page on a    *)
(* document that repeats an image and holds the iframe "f1"; "s2" another  *)
(* click, with options of its own.                                         *)
(***************************************************************************)
EXTENDS Screenshot, TLC

MCOwner == ("f1" :> "s1") @@ ("f2" :> "s2")
MCImages == ("s1" :> <<"tile", "icon", "tile">>) @@ ("s2" :> <<"icon", "photo">>)
              @@ ("f1" :> <<"chart", "logo">>) @@ ("f2" :> <<"tile">>)
MCKind == ("tile" :> "cors") @@ ("photo" :> "nocors") @@ ("icon" :> "base64")
            @@ ("chart" :> "canvas") @@ ("logo" :> "svg")
MCReach == ("f1" :> "proxied") @@ ("f2" :> "same")
EmptyReach == ("f1" :> "empty") @@ ("f2" :> "same")

\* The options of the map page, and what may be wrong with its document.
MapPage == [useCORS |-> TRUE, allowTaint |-> FALSE, proxy |-> FALSE,
            imageTimeout |-> TRUE, foreign |-> FALSE, removeContainer |-> TRUE,
            owned |-> TRUE, body |-> TRUE, html |-> TRUE, drawable |-> TRUE,
            onclone |-> "none"]
Proxied == [MapPage EXCEPT !.proxy = TRUE, !.onclone = "ok"]
Undrawn == [MapPage EXCEPT !.drawable = FALSE]
MCOptions ==
  ("s1" :> {Proxied, [MapPage EXCEPT !.owned = FALSE],
            [MapPage EXCEPT !.body = FALSE], [MapPage EXCEPT !.html = FALSE],
            [MapPage EXCEPT !.onclone = "throws", !.removeContainer = FALSE]})
  @@ ("s2" :> {[MapPage EXCEPT !.imageTimeout = FALSE],
               [MapPage EXCEPT !.allowTaint = TRUE], [MapPage EXCEPT !.foreign = TRUE]})
  @@ ("f1" :> {Undrawn}) @@ ("f2" :> {MapPage})
=============================================================================
