---------------------------- MODULE ChartCanvas ----------------------------
(***************************************************************************)
(* What the canvas over the sea chart shows: AISCanvas paints the vessels  *)
(* and their tracks in animation frames, ElectronicChart wraps the map     *)
(* underneath, and AISPage hides the canvas while the map zooms or the     *)
(* drawer slides.                                                          *)
(*                                                                         *)
(* A step is one task of the browser with the watchers it triggers.  Time  *)
(* passes in units of the redraw interval, thirty seconds; a frame, the    *)
(* drawer's timer and a movement of the map do not last that long in a     *)
(* page that is in front.                                                  *)
(***************************************************************************)
EXTENDS Naturals

CONSTANTS
  Vessels,
  LateAfter,   \* age, in units, from which a vessel is red ...
  GoneAfter,   \* ... and from which it is not drawn
  MaxLevel,    \* of the map's zoom levels
  MaxActs      \* acts of the operator in a behaviour

ASSUME CanvasAssumption ==
  /\ LateAfter \in Nat /\ GoneAfter \in Nat /\ LateAfter <= GoneAfter
  /\ MaxLevel \in Nat \ {0} /\ MaxActs \in Nat

VARIABLES
  age,           \* of the newest point of each vessel of getAISData, up to Old
  drawPending, rafHandle,
  painted,       \* what is on the canvas: nothing, vessels only, or all
  drawn,         \* how each vessel is drawn
  placed,        \* by what the points on the canvas were placed
  stale,         \* history: the inputs that changed after they were painted
  isZooming,     \* AISPage's flag, the canvas's isHiding
  drawerOpen, drawerAnimTimer,
  moving,        \* the map's movement that "idle" will end
  level,
  emitPending,   \* a frame that will report the map's view
  kakaoMap,      \* the SDK is awaited, the map is made, or it was given up
  sized,
  acts

frameVars == <<drawPending, rafHandle>>
canvasVars == <<painted, drawn, placed, stale>>
mapVars == <<moving, level, emitPending, kakaoMap>>
drawerVars == <<drawerOpen, drawerAnimTimer>>
vars == <<age, frameVars, canvasVars, isZooming, drawerVars, mapVars, sized, acts>>

Old == GoneAfter + 1
Unknown == GoneAfter + 2   \* the client has no data of the vessel
Ages == 0..Unknown
Inputs == {"data", "view", "history", "selection", "showTrack", "building"}

Act == acts < MaxActs /\ acts' = acts + 1

----------------------------------------------------------------------------
(* Painting. *)

\* How drawAISShip draws a vessel, by the age of its newest point.
Look(v) ==
  IF age[v] <= LateAfter THEN "fresh" ELSE IF age[v] <= GoneAfter THEN "late" ELSE "not"

\* convertGPSToCanvas asks the map for the place of a point; as long as there
\* is none it reckons from the centre in the store.
Placement == IF kakaoMap = "made" THEN "map" ELSE "centre"

drawAISShip ==
  /\ drawn' = [v \in Vessels |-> Look(v)]
  /\ placed' = Placement

\* At most one frame is asked for.
RequestDraw ==
  /\ drawPending' = TRUE
  /\ rafHandle' = (rafHandle \/ ~drawPending)

Changed(inputs) ==
  /\ stale' = stale \union inputs
  /\ RequestDraw

\* The tracks of the vessels and the track that was queried, on top of the
\* vessels, complete the picture: it shows every input as it is.
drawTracks == painted' = "all" /\ stale' = {}

\* It is not asked whether the canvas is hidden.
DrawFrame ==
  /\ rafHandle
  /\ drawPending' = FALSE /\ rafHandle' = FALSE
  /\ drawAISShip /\ drawTracks
  /\ UNCHANGED <<age, isZooming, drawerVars, mapVars, sized, acts>>

Clear ==
  /\ painted' = "nothing" /\ drawn' = [v \in Vessels |-> "not"]
  /\ UNCHANGED placed

\* Mutant: the frame is cancelled, and still counts as pending.
CancelFrameOnly ==
  /\ rafHandle' = FALSE
  /\ UNCHANGED drawPending

CancelFrame ==
  /\ rafHandle' = FALSE
  /\ drawPending' = (drawPending /\ ~rafHandle)

\* The flag of AISPage goes up or down; the canvas watches it.
Hide ==
  /\ isZooming' = TRUE
  /\ IF isZooming THEN UNCHANGED <<frameVars, canvasVars>>
     ELSE CancelFrame /\ Clear /\ UNCHANGED stale

\* Mutant: the end of hiding paints nothing.
ShowOnly == isZooming' = FALSE /\ UNCHANGED <<frameVars, canvasVars>>

Show ==
  /\ isZooming' = FALSE
  /\ IF isZooming THEN RequestDraw ELSE UNCHANGED frameVars
  /\ UNCHANGED canvasVars

----------------------------------------------------------------------------
(* What comes from the server and from the clock. *)

\* setAISData: the newest data of every vessel replaces what was there.
SetAISData ==
  /\ \E heard \in SUBSET Vessels, known \in SUBSET Vessels :
       /\ heard \subseteq known
       /\ age' = [v \in Vessels |-> IF v \in heard THEN 0
                                    ELSE IF v \in known /\ age[v] <= Old THEN age[v] ELSE Unknown]
  /\ Changed({"data"})
  /\ UNCHANGED <<painted, drawn, placed, isZooming, drawerVars, mapVars, sized, acts>>

\* Mutant: thirty seconds pass and nobody paints.
TickOnly ==
  /\ ~rafHandle /\ ~emitPending /\ ~drawerAnimTimer /\ moving = "no" /\ sized
  /\ age' = [v \in Vessels |-> IF age[v] < Old THEN age[v] + 1 ELSE age[v]]
  /\ UNCHANGED <<frameVars, canvasVars, isZooming, drawerVars, mapVars, sized, acts>>

\* Thirty seconds pass and redrawInterval fires.
Tick ==
  /\ ~rafHandle /\ ~emitPending /\ ~drawerAnimTimer /\ moving = "no" /\ sized
  /\ age' = [v \in Vessels |-> IF age[v] < Old THEN age[v] + 1 ELSE age[v]]
  /\ RequestDraw
  /\ UNCHANGED <<canvasVars, isZooming, drawerVars, mapVars, sized, acts>>

\* The answer to a history query, or the list cleared.
SetAISDateData ==
  /\ Act
  /\ Changed({"history"})
  /\ UNCHANGED <<age, painted, drawn, placed, isZooming, drawerVars, mapVars, sized>>

\* The place of the site's own mark: the answer at the start, which is a
\* default when the request fails, or a save that succeeds.
SetBuildingGPS ==
  /\ Act
  /\ Changed({"building"})
  /\ UNCHANGED <<age, painted, drawn, placed, isZooming, drawerVars, mapVars, sized>>

----------------------------------------------------------------------------
(* The operator. *)

\* The drawer slides for 240 ms; the timer runs 280 ms from the last toggle.
SlideDrawer == drawerOpen' = ~drawerOpen /\ drawerAnimTimer' = TRUE

ToggleDrawer ==
  /\ Act
  /\ SlideDrawer /\ Hide
  /\ UNCHANGED <<age, mapVars, sized>>

DrawerDone ==
  /\ drawerAnimTimer /\ drawerAnimTimer' = FALSE
  /\ Show
  /\ UNCHANGED <<age, drawerOpen, mapVars, sized, acts>>

\* Selected, a vessel asks for a frame, and the vessels alone are painted at
\* once over a cleared canvas.
PaintSelection ==
  /\ RequestDraw
  /\ drawAISShip /\ painted' = "vessels"

\* A click on a vessel of the chart.  A selection opens the drawer when it is
\* closed, which hides the canvas and cancels the frame just asked for.
HandleClick ==
  /\ Act
  /\ \E v \in Vessels : age[v] # Unknown
  /\ stale' = stale \union {"selection"}
  /\ \/ PaintSelection /\ UNCHANGED <<isZooming, drawerVars>>
     \/ /\ ~drawerOpen /\ SlideDrawer
        /\ isZooming' = TRUE
        /\ IF isZooming THEN PaintSelection ELSE CancelFrame /\ Clear
  /\ UNCHANGED <<age, mapVars, sized>>

\* A vessel is selected, or let go, in the list of the drawer.
SelectInList ==
  /\ Act
  /\ drawerOpen
  /\ Changed({"selection"})
  /\ UNCHANGED <<age, painted, drawn, placed, isZooming, drawerVars, mapVars, sized>>

ToggleTrack ==
  /\ Act
  /\ Changed({"showTrack"})
  /\ UNCHANGED <<age, painted, drawn, placed, isZooming, drawerVars, mapVars, sized>>

----------------------------------------------------------------------------
(* The map. *)

\* Any event of the map's view asks for one report in the next frame.
EmitMapData == emitPending' = TRUE

\* The report puts the centre into the store; the canvas watches it.
EmitMapDataImmediate ==
  /\ emitPending /\ emitPending' = FALSE
  /\ RequestDraw
  /\ UNCHANGED <<age, canvasVars, isZooming, drawerVars, moving, level, kakaoMap, sized, acts>>

\* The SDK is there: the map is made and reports at once.
SetMapInit ==
  /\ kakaoMap = "awaited" /\ kakaoMap' = "made"
  /\ RequestDraw
  /\ UNCHANGED <<age, canvasVars, isZooming, drawerVars, moving, level, emitPending, sized,
                 acts>>

\* Five seconds of polling have found no SDK: there will be no map.
GiveUp ==
  /\ kakaoMap = "awaited" /\ kakaoMap' = "failed"
  /\ UNCHANGED <<age, frameVars, canvasVars, isZooming, drawerVars, moving, level,
                 emitPending, sized, acts>>

\* nextTick(setupCanvas): the canvas gets its size, which empties it.
Resize ==
  /\ ~sized /\ sized' = TRUE
  /\ Clear
  /\ Changed({"view"})
  /\ emitPending' = (emitPending \/ kakaoMap = "made")
  /\ UNCHANGED <<age, isZooming, drawerVars, moving, level, kakaoMap, acts>>

\* The operator drags the map, or a button moves it.
Pan ==
  /\ Act
  /\ kakaoMap = "made" /\ moving = "no" /\ moving' = "pan"
  /\ EmitMapData
  /\ stale' = stale \union {"view"}
  /\ UNCHANGED <<age, frameVars, painted, drawn, placed, isZooming, drawerVars, level,
                 kakaoMap, sized>>

\* The wheel: zoom_start, then zoom_changed.
ZoomWheel(to) ==
  /\ Act
  /\ kakaoMap = "made" /\ moving = "no" /\ moving' = "zoom"
  /\ to # level /\ level' = to
  /\ EmitMapData
  /\ isZooming' = TRUE
  /\ IF isZooming THEN UNCHANGED <<frameVars, painted, drawn, placed>> ELSE CancelFrame /\ Clear
  /\ stale' = stale \union {"view"}
  /\ UNCHANGED <<age, drawerVars, kakaoMap, sized>>

\* The buttons hide the canvas first; at the last level the map does nothing
\* and reports no end.
ZoomAtLimit ==
  /\ Act
  /\ kakaoMap = "made" /\ moving = "no" /\ level \in {1, MaxLevel}
  /\ Hide
  /\ EmitMapData
  /\ UNCHANGED <<age, drawerVars, moving, level, kakaoMap, sized>>

\* The map has come to rest, after a zoom as after a drag.
Idle ==
  /\ moving # "no" /\ moving' = "no"
  /\ Show
  /\ EmitMapData
  /\ UNCHANGED <<age, drawerVars, level, kakaoMap, sized, acts>>

----------------------------------------------------------------------------

\* After onMounted of the canvas, before the page has given it its size.
Init ==
  /\ age = [v \in Vessels |-> Unknown]
  /\ drawPending = FALSE /\ rafHandle = FALSE
  /\ painted = "all" /\ drawn = [v \in Vessels |-> "not"] /\ placed = "centre" /\ stale = {}
  /\ isZooming = FALSE /\ drawerOpen = FALSE /\ drawerAnimTimer = FALSE
  /\ moving = "no" /\ level = 1 /\ emitPending = FALSE
  /\ kakaoMap = "awaited" /\ sized = FALSE /\ acts = 0

Next ==
  \/ DrawFrame \/ EmitMapDataImmediate \/ Tick
  \/ SetAISData \/ SetAISDateData \/ SetBuildingGPS
  \/ HandleClick \/ SelectInList \/ ToggleTrack
  \/ ToggleDrawer \/ DrawerDone
  \/ SetMapInit \/ GiveUp \/ Resize \/ Pan \/ ZoomAtLimit \/ Idle
  \/ \E to \in 1..MaxLevel : ZoomWheel(to)

Spec == Init /\ [][Next]_vars

\* The browser runs the frames and timers of a page in front, lets time pass,
\* and the map's movements end.
FairSpec ==
  /\ Spec
  /\ WF_vars(DrawFrame) /\ WF_vars(EmitMapDataImmediate) /\ WF_vars(Tick)
  /\ WF_vars(DrawerDone) /\ WF_vars(Idle) /\ WF_vars(Resize)

----------------------------------------------------------------------------
(* Properties. *)

\* Every variable keeps its type.
TypeOK ==
  /\ age \in [Vessels -> Ages]
  /\ drawPending \in BOOLEAN /\ rafHandle = drawPending
  /\ painted \in {"nothing", "vessels", "all"}
  /\ drawn \in [Vessels -> {"not", "fresh", "late"}]
  /\ placed \in {"map", "centre"}
  /\ stale \subseteq Inputs
  /\ isZooming \in BOOLEAN /\ drawerOpen \in BOOLEAN /\ drawerAnimTimer \in BOOLEAN
  /\ moving \in {"no", "pan", "zoom"} /\ level \in 1..MaxLevel
  /\ emitPending \in BOOLEAN /\ kakaoMap \in {"awaited", "made", "failed"} /\ sized \in BOOLEAN
  /\ acts \in 0..MaxActs

\* Whatever changed after it was painted, and whatever is missing on the
\* canvas, a frame is due that paints it, unless the canvas is hidden; a
\* change of the view may first wait for the frame that reports it.
RepaintDue ==
  ~isZooming /\ (stale # {} \/ painted # "all" \/ placed # Placement) =>
    \/ rafHandle
    \/ emitPending /\ stale = {"view"} /\ painted = "all" /\ placed = Placement

\* A vessel that falls silent turns red, and disappears, at the latest one
\* redraw interval after its time, even when the server sends nothing more:
\* unless a frame is due, each vessel is drawn as its age demands.
SilentVesselsLeave ==
  ~rafHandle => \A v \in Vessels :
    /\ drawn[v] = "fresh" => age[v] <= LateAfter
    /\ drawn[v] = "late" => LateAfter < age[v] /\ age[v] <= GoneAfter

\* The chart does not stay empty: not after zooming, not after the drawer,
\* not even when the map never reports the end of a movement.
ChartReappears == painted # "all" ~> painted = "all"
=============================================================================
