------------------------- MODULE ChartCanvas_proofs -------------------------
(***************************************************************************)
(* What the canvas over the chart keeps true, for every set of vessels,    *)
(* every pair of ages and every number of acts.  The three invariants are  *)
(* inductive together: RepaintDue and SilentVesselsLeave both rest on the  *)
(* part of TypeOK that ties the handle of the frame to the flag that says  *)
(* one is pending, as a frame that is asked for twice must still be due.   *)
(***************************************************************************)
EXTENDS ChartCanvas, TLAPS

\* A frame that is asked for is due, and pending.
LEMMA RequestedIsDue ==
  ASSUME TypeOK, RequestDraw
  PROVE  drawPending' = TRUE /\ rafHandle' = TRUE
BY DEF TypeOK, RequestDraw

\* A change asks for a frame and is remembered until it is painted.
LEMMA ChangedIsDue ==
  ASSUME TypeOK, NEW inputs \in SUBSET Inputs, Changed(inputs)
  PROVE  drawPending' = TRUE /\ rafHandle' = TRUE /\ stale' \subseteq Inputs
<1>1. stale' = stale \union inputs /\ stale \subseteq Inputs
  BY DEF Changed, TypeOK
<1>2. drawPending' = TRUE /\ rafHandle' = TRUE
  BY RequestedIsDue DEF Changed
<1>. QED
  BY <1>1, <1>2

\* A frame that is cancelled is neither.
LEMMA CancelledIsGone ==
  ASSUME TypeOK, CancelFrame
  PROVE  drawPending' = FALSE /\ rafHandle' = FALSE
BY DEF TypeOK, CancelFrame

\* A vessel is drawn in one of three ways.
LEMMA LookTyped ==
  ASSUME NEW v \in Vessels
  PROVE  Look(v) \in {"not", "fresh", "late"}
BY DEF Look

\* The picture is typed after a painting, and after a clearing.
LEMMA PaintTyped ==
  /\ drawAISShip => drawn' \in [Vessels -> {"not", "fresh", "late"}] /\ placed' \in {"map", "centre"}
  /\ Clear => /\ drawn' \in [Vessels -> {"not", "fresh", "late"}] /\ placed' = placed
              /\ painted' = "nothing"
BY LookTyped DEF drawAISShip, Clear, Placement

\* Data that is heard, kept or lost has an age of the model.
LEMMA AgesTyped ==
  ASSUME age \in [Vessels -> Ages]
  PROVE  /\ \A heard, known \in SUBSET Vessels :
              [v \in Vessels |-> IF v \in heard THEN 0
                                 ELSE IF v \in known /\ age[v] <= Old THEN age[v] ELSE Unknown]
                \in [Vessels -> Ages]
         /\ [v \in Vessels |-> IF age[v] < Old THEN age[v] + 1 ELSE age[v]] \in [Vessels -> Ages]
<1>1. 0 \in Ages /\ Unknown \in Ages
  BY CanvasAssumption DEF Ages, Unknown
<1>2. ASSUME NEW v \in Vessels, age[v] < Old
      PROVE  age[v] + 1 \in Ages
  BY <1>2, CanvasAssumption DEF Ages, Unknown, Old
<1>. QED
  BY <1>1, <1>2

\* The acts of the operator are counted up to the bound.
LEMMA ActsTyped ==
  ASSUME acts \in 0..MaxActs, Act
  PROVE  acts' \in 0..MaxActs
BY CanvasAssumption DEF Act

LEMMA InitTyped == Init => TypeOK
<1>. SUFFICES ASSUME Init PROVE TypeOK
  OBVIOUS
<1>1. age \in [Vessels -> Ages]
  BY CanvasAssumption DEF Init, Ages, Unknown
<1>2. 1 \in 1..MaxLevel /\ 0 \in 0..MaxActs
  BY CanvasAssumption
<1>. QED
  BY <1>1, <1>2 DEF Init, TypeOK

LEMMA NextTyped == TypeOK /\ [Next]_vars => TypeOK'
<1>. SUFFICES ASSUME TypeOK, [Next]_vars PROVE TypeOK'
  OBVIOUS
<1>. USE RequestedIsDue, CancelledIsGone, PaintTyped, ActsTyped
<1>. USE DEF frameVars, canvasVars, mapVars, drawerVars, Inputs
<1>1. CASE DrawFrame
  BY <1>1 DEF TypeOK, DrawFrame, drawTracks
<1>2. CASE EmitMapDataImmediate
  BY <1>2, ZenonT(40) DEF TypeOK, EmitMapDataImmediate
<1>3. CASE Tick
  BY <1>3, AgesTyped DEF TypeOK, Tick
<1>4. CASE SetAISData
  <2>1. age' \in [Vessels -> Ages]
    BY <1>4, AgesTyped DEF TypeOK, SetAISData
  <2>2. drawPending' = TRUE /\ rafHandle' = TRUE /\ stale' \subseteq Inputs
    BY <1>4, ChangedIsDue DEF SetAISData
  <2>. QED
    BY <1>4, <2>1, <2>2 DEF TypeOK, SetAISData
<1>5. CASE SetAISDateData
  <2>1. drawPending' = TRUE /\ rafHandle' = TRUE /\ stale' \subseteq Inputs
    BY <1>5, ChangedIsDue DEF SetAISDateData
  <2>. QED
    BY <1>5, <2>1 DEF TypeOK, SetAISDateData
<1>6. CASE SetBuildingGPS
  <2>1. drawPending' = TRUE /\ rafHandle' = TRUE /\ stale' \subseteq Inputs
    BY <1>6, ChangedIsDue DEF SetBuildingGPS
  <2>. QED
    BY <1>6, <2>1 DEF TypeOK, SetBuildingGPS
<1>7. CASE HandleClick
  BY <1>7, ZenonT(40) DEF TypeOK, HandleClick, PaintSelection, SlideDrawer
<1>8. CASE SelectInList
  <2>1. drawPending' = TRUE /\ rafHandle' = TRUE /\ stale' \subseteq Inputs
    BY <1>8, ChangedIsDue DEF SelectInList
  <2>. QED
    BY <1>8, <2>1 DEF TypeOK, SelectInList
<1>9. CASE ToggleTrack
  <2>1. drawPending' = TRUE /\ rafHandle' = TRUE /\ stale' \subseteq Inputs
    BY <1>9, ChangedIsDue DEF ToggleTrack
  <2>. QED
    BY <1>9, <2>1 DEF TypeOK, ToggleTrack
<1>10. CASE ToggleDrawer
  BY <1>10, ZenonT(40) DEF TypeOK, ToggleDrawer, SlideDrawer, Hide
<1>11. CASE DrawerDone
  BY <1>11, ZenonT(40) DEF TypeOK, DrawerDone, Show
<1>12. CASE SetMapInit
  BY <1>12, ZenonT(40) DEF TypeOK, SetMapInit
<1>13. CASE GiveUp
  BY <1>13 DEF TypeOK, GiveUp
<1>14. CASE Resize
  BY <1>14 DEF TypeOK, Resize, Changed
<1>15. CASE Pan
  BY <1>15 DEF TypeOK, Pan, EmitMapData
<1>16. CASE ZoomAtLimit
  BY <1>16 DEF TypeOK, ZoomAtLimit, Hide, EmitMapData
<1>17. CASE Idle
  BY <1>17 DEF TypeOK, Idle, Show, EmitMapData
<1>18. ASSUME NEW to \in 1..MaxLevel, ZoomWheel(to)
       PROVE  TypeOK'
  BY <1>18 DEF TypeOK, ZoomWheel, EmitMapData
<1>19. CASE UNCHANGED vars
  BY <1>19 DEF TypeOK, vars
<1>. QED
  BY <1>1, <1>2, <1>3, <1>4, <1>5, <1>6, <1>7, <1>8, <1>9, <1>10, <1>11, <1>12, <1>13, <1>14,
     <1>15, <1>16, <1>17, <1>18, <1>19 DEF Next

\* Every variable keeps its type, and the handle of the frame and the flag
\* that one is pending never part: no frame is lost, none is asked for twice.
THEOREM ChartCanvasTyped == Spec => []TypeOK
BY InitTyped, NextTyped, PTL DEF Spec

----------------------------------------------------------------------------

LEMMA InitRepaints == Init => RepaintDue
BY DEF Init, RepaintDue, Placement

LEMMA NextRepaints == TypeOK /\ RepaintDue /\ [Next]_vars => RepaintDue'
<1>. SUFFICES ASSUME TypeOK, RepaintDue, [Next]_vars PROVE RepaintDue'
  OBVIOUS
<1>. USE DEF frameVars, canvasVars, mapVars, drawerVars
<1>1. ASSUME rafHandle' = TRUE PROVE RepaintDue'
  BY <1>1 DEF RepaintDue
<1>2. ASSUME isZooming' = TRUE PROVE RepaintDue'
  BY <1>2 DEF RepaintDue
<1>3. ASSUME RequestDraw PROVE RepaintDue'
  BY <1>1, <1>3, RequestedIsDue
<1>4. CASE DrawFrame
  BY <1>4 DEF DrawFrame, drawTracks, drawAISShip, RepaintDue, Placement
<1>5. CASE EmitMapDataImmediate \/ Tick \/ SetMapInit
  BY <1>3, <1>5 DEF EmitMapDataImmediate, Tick, SetMapInit
<1>6. CASE SetAISData \/ SetAISDateData \/ SetBuildingGPS \/ SelectInList \/ ToggleTrack \/ Resize
  BY <1>3, <1>6
     DEF SetAISData, SetAISDateData, SetBuildingGPS, SelectInList, ToggleTrack, Resize, Changed
<1>7. CASE HandleClick
  BY <1>2, <1>3, <1>7 DEF HandleClick, PaintSelection
<1>8. CASE ToggleDrawer \/ ZoomAtLimit
  BY <1>2, <1>8 DEF ToggleDrawer, ZoomAtLimit, Hide
<1>9. ASSUME NEW to \in 1..MaxLevel, ZoomWheel(to)
      PROVE  RepaintDue'
  BY <1>2, <1>9 DEF ZoomWheel
<1>10. CASE DrawerDone
  <2>1. CASE isZooming
    BY <1>3, <1>10, <2>1 DEF DrawerDone, Show
  <2>2. CASE ~isZooming
    BY <1>10, <2>2 DEF DrawerDone, Show, RepaintDue, Placement
  <2>. QED
    BY <2>1, <2>2
<1>11. CASE Idle
  <2>1. CASE isZooming
    BY <1>3, <1>11, <2>1 DEF Idle, Show
  <2>2. CASE ~isZooming
    BY <1>11, <2>2 DEF Idle, Show, EmitMapData, RepaintDue, Placement
  <2>. QED
    BY <2>1, <2>2
<1>12. CASE Pan
  BY <1>12 DEF Pan, EmitMapData, RepaintDue, Placement
<1>13. CASE GiveUp
  BY <1>13 DEF GiveUp, RepaintDue, Placement
<1>14. CASE UNCHANGED vars
  BY <1>14 DEF vars, RepaintDue, Placement
<1>. QED
  BY <1>4, <1>5, <1>6, <1>7, <1>8, <1>9, <1>10, <1>11, <1>12, <1>13, <1>14 DEF Next

\* Whatever changed since it was painted is painted again: unless the canvas
\* is hidden, an incomplete picture has a frame due, or a report of the view.
THEOREM PictureIsRepaired == Spec => []RepaintDue
BY InitTyped, NextTyped, InitRepaints, NextRepaints, PTL DEF Spec

----------------------------------------------------------------------------

LEMMA InitSilent == Init => SilentVesselsLeave
BY DEF Init, SilentVesselsLeave

\* A painting draws each vessel as its age demands.
LEMMA PaintedByAge ==
  ASSUME TypeOK, drawAISShip, UNCHANGED age
  PROVE  SilentVesselsLeave'
<1>. SUFFICES ASSUME NEW v \in Vessels
              PROVE  /\ drawn'[v] = "fresh" => age[v] <= LateAfter
                     /\ drawn'[v] = "late" => LateAfter < age[v] /\ age[v] <= GoneAfter
  BY DEF SilentVesselsLeave
<1>1. age[v] \in Nat /\ LateAfter \in Nat /\ GoneAfter \in Nat
  BY CanvasAssumption DEF TypeOK, Ages, Unknown
<1>2. drawn'[v] = Look(v)
  BY DEF drawAISShip
<1>. QED
  BY <1>1, <1>2 DEF Look

LEMMA NextSilent == TypeOK /\ SilentVesselsLeave /\ [Next]_vars => SilentVesselsLeave'
<1>. SUFFICES ASSUME TypeOK, SilentVesselsLeave, [Next]_vars PROVE SilentVesselsLeave'
  OBVIOUS
<1>. USE DEF frameVars, canvasVars, mapVars, drawerVars
<1>1. ASSUME rafHandle' = TRUE PROVE SilentVesselsLeave'
  BY <1>1 DEF SilentVesselsLeave
<1>2. ASSUME RequestDraw PROVE SilentVesselsLeave'
  BY <1>1, <1>2, RequestedIsDue
<1>3. ASSUME Clear PROVE SilentVesselsLeave'
  BY <1>3 DEF Clear, SilentVesselsLeave
<1>4. ASSUME UNCHANGED <<age, drawn, rafHandle>> PROVE SilentVesselsLeave'
  BY <1>4 DEF SilentVesselsLeave
<1>5. CASE DrawFrame
  BY <1>5, PaintedByAge DEF DrawFrame
<1>6. CASE EmitMapDataImmediate \/ Tick \/ SetMapInit
  BY <1>2, <1>6 DEF EmitMapDataImmediate, Tick, SetMapInit
<1>7. CASE SetAISData \/ SetAISDateData \/ SetBuildingGPS \/ SelectInList \/ ToggleTrack \/ Resize
  BY <1>2, <1>7
     DEF SetAISData, SetAISDateData, SetBuildingGPS, SelectInList, ToggleTrack, Resize, Changed
<1>8. CASE HandleClick
  BY <1>2, <1>3, <1>8 DEF HandleClick, PaintSelection
<1>9. CASE ToggleDrawer \/ ZoomAtLimit
  BY <1>3, <1>4, <1>9 DEF ToggleDrawer, ZoomAtLimit, Hide
<1>10. ASSUME NEW to \in 1..MaxLevel, ZoomWheel(to)
       PROVE  SilentVesselsLeave'
  BY <1>3, <1>4, <1>10 DEF ZoomWheel
<1>11. CASE DrawerDone \/ Idle
  BY <1>2, <1>4, <1>11 DEF DrawerDone, Idle, Show
<1>12. CASE Pan \/ GiveUp
  BY <1>4, <1>12 DEF Pan, GiveUp
<1>13. CASE UNCHANGED vars
  BY <1>4, <1>13 DEF vars
<1>. QED
  BY <1>5, <1>6, <1>7, <1>8, <1>9, <1>10, <1>11, <1>12, <1>13 DEF Next

\* A vessel that falls silent turns red and disappears even when the server
\* sends nothing more: unless a frame is due, each is drawn as its age demands.
THEOREM SilentVesselsAreRepainted == Spec => []SilentVesselsLeave
BY InitTyped, NextTyped, InitSilent, NextSilent, PTL DEF Spec
=============================================================================
