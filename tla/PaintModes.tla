----------------------------- MODULE PaintModes -----------------------------
(***************************************************************************)
(* Who paints: the paint modes and the surface connection of the presenter *)
(* (ui/presenter.cc), and the window it asks for paints (ui/window.cc).    *)
(*                                                                         *)
(* The UI thread writes paint_mode_ under paint_mode_mutex_ and does       *)
(* everything else without it; the guest output thread holds the mutex     *)
(* from the look at the mode to the end of its paint.  The mode decides    *)
(* which of the two may use the connection to the surface.  What is to be  *)
(* painted is a version number: a refresh of the guest output or a change  *)
(* of the paint configuration makes a new one, a paint takes the newest.   *)
(***************************************************************************)
EXTENDS Naturals

CONSTANT
  MaxVersion   \* bound: the refreshes and configuration changes

VARIABLES
  mode,        \* paint_mode_
  connection,  \* surface_paint_connection_state_
  vsync,       \* surface_paint_connection_has_implicit_vsync_
  optimal,     \* surface_paint_connection_was_optimal_at_successful_paint_
  surface,     \* surface_ # nullptr, and so the window's presenter_surface_
  drawers,     \* ~ui_drawers_.empty()
  requested,   \* ui_thread_paint_requested_
  invalid,     \* the window system is to make the window paint
  ui,          \* where the UI thread is
  paint,       \* the locals of the function it is in
  guest,       \* where the guest output thread is
  taken,       \* the version it paints
  latest,      \* the newest version
  tried,       \* the last paint that did not find the connection outdated:
               \* its version, and whether the UI was painted (history)
  dropped,     \* a paint was dropped for want of a surface since the last
               \* one that was not (history)
  removed,     \* the last drawer was removed, outside of a paint and while
               \* something paints, since the paint of `tried' (history)
  lost         \* a paint found the GPU lost: the host has been told (history)

connected == <<connection, vsync, optimal>>
uiThread == <<ui, paint>>
guestThread == <<guest, taken>>
history == <<tried, dropped, removed, lost>>
paintVars == <<mode, connected, surface, drawers, requested, invalid, uiThread,
          guestThread, latest, history>>

NoPaint == [drawUI |-> FALSE, version |-> 0, outdated |-> FALSE,
            again |-> FALSE, uiAfter |-> FALSE, lost |-> FALSE]

PaintInit ==
  /\ mode = "none" /\ connection = "retry" /\ vsync = FALSE /\ optimal = FALSE
  /\ surface = FALSE /\ drawers = FALSE /\ requested = FALSE /\ invalid = FALSE
  /\ ui = "idle" /\ paint = NoPaint
  /\ guest = "idle" /\ taken = 0
  /\ latest = 0 /\ tried = [version |-> 0, ui |-> FALSE] /\ dropped = FALSE
  /\ removed = FALSE /\ lost = FALSE

-----------------------------------------------------------------------------
(* Parts of the functions. *)

\* The guest output thread has paint_mode_mutex_ in every other step.
MutexIsFree == guest \in {"idle", "lock"}

\* Mutant: the mode is taken back without the mutex.
LockToGive(m) == m = "guest" /\ mode # m => MutexIsFree

\* Only the UI thread changes the mode, so it locks only to do that.
MayChange(m) == mode # m => MutexIsFree

SetMode(m) == MayChange(m) /\ mode' = m

DesiredMode(paintable) ==
  IF ~paintable THEN "none" ELSE IF vsync \/ drawers THEN "ui" ELSE "guest"

\* RequestPaintOrConnectionRecoveryViaWindow on the UI thread: the window is
\* asked unless a request is pending.
Request(pending) == requested' = TRUE /\ invalid' = (invalid \/ ~pending)

RequestIf(needed) == IF needed THEN Request(requested) ELSE UNCHANGED <<requested, invalid>>

Results == {"presented", "suboptimal", "outdated", "failed", "lost"}

\* What PaintAndPresent makes of the connection.
AfterPaint(result) ==
  /\ optimal' = (optimal \/ result = "presented")
  /\ connection' = IF \/ result = "outdated"
                      \/ result = "suboptimal" /\ optimal
                   THEN "outdated" ELSE connection
  /\ UNCHANGED vsync

Paint(result, version, withUI) ==
  /\ AfterPaint(result)
  /\ lost' = (lost \/ result = "lost")
  /\ IF result \in {"outdated", "lost"}
     THEN UNCHANGED <<tried, removed>>
     ELSE tried' = [version |-> version, ui |-> withUI] /\ removed' = FALSE

(* UpdateSurfacePaintConnectionFromUIThread up to the mode: a surface that   *)
(* was found unusable is left alone; one without an area is disconnected;    *)
(* connecting succeeds, fails, or finds the surface unusable.  A success     *)
(* that changes nothing needs no repaint.                                    *)
UpdateConnection(repaint) ==
  \/ /\ connection = "unusable"
     /\ ~repaint
     /\ UNCHANGED connected
  \/ /\ connection # "unusable"
     /\ ~repaint
     /\ connection' = "retry" /\ vsync' = FALSE /\ UNCHANGED optimal
  \/ /\ connection # "unusable"
     /\ connection = "retry" => repaint
     /\ connection' = "paintable" /\ vsync' \in BOOLEAN /\ optimal' = FALSE
  \/ /\ connection # "unusable"
     /\ ~repaint
     /\ connection' \in {"retry", "unusable"} /\ UNCHANGED <<vsync, optimal>>

-----------------------------------------------------------------------------
(* The UI thread: PaintFromUIThread, called by the window when it paints.   *)

Step(from, to) == ui = from /\ ui' = to

\* What the window's OnPaint starts: a paint is due if the window forces one, for
\* the drawers, or on request.
Start(force) ==
  /\ ui = "idle" /\ surface
  /\ invalid' = FALSE /\ dropped' = FALSE
  /\ paint' = [NoPaint EXCEPT !.drawUI = drawers]
  /\ ui' = IF force \/ drawers \/ requested THEN "take" ELSE "settle"
  /\ UNCHANGED <<mode, connected, surface, drawers, guestThread, latest, tried, removed,
                 lost>>

\* Mutant: the flag is not reset by the paint it asked for.
FlagStays == (\E force \in BOOLEAN : Start(force)) /\ UNCHANGED requested

WindowPaints == (\E force \in BOOLEAN : Start(force)) /\ requested' = FALSE

(* Without a surface the window does not call it.                           *)
WindowHasNoSurface ==
  /\ ui = "idle" /\ ~surface /\ invalid
  /\ invalid' = FALSE /\ dropped' = TRUE
  /\ UNCHANGED <<mode, connected, surface, drawers, requested, uiThread, guestThread,
                 latest, tried, removed, lost>>

\* The UI thread takes the connection from the guest output thread.
TakeMode == SetMode(IF mode = "guest" THEN "ui" ELSE mode)

Take ==
  /\ Step("take", IF connection = "outdated" THEN "recover" ELSE "ready")
  /\ TakeMode
  /\ UNCHANGED <<connected, surface, drawers, requested, invalid, paint, guestThread,
                 latest, history>>

Recover ==
  /\ Step("recover", "ready")
  /\ \E repaint \in BOOLEAN : UpdateConnection(repaint)
  /\ UNCHANGED <<mode, surface, drawers, requested, invalid, paint, guestThread,
                 latest, history>>

Ready ==
  /\ Step("ready", IF connection = "paintable" THEN "consume" ELSE "leave")
  /\ SetMode(IF connection = "paintable" THEN "ui" ELSE mode)
  /\ UNCHANGED <<connected, surface, drawers, requested, invalid, paint, guestThread,
                 latest, history>>

ConsumeForPaint ==
  /\ Step("consume", "present")
  /\ paint' = [paint EXCEPT !.version = latest]
  /\ UNCHANGED <<mode, connected, surface, drawers, requested, invalid, guestThread,
                 latest, history>>

(* The drawers are called, if there are any: they may remove themselves, ask *)
(* for another paint of the UI, or change the paint configuration.           *)
Presented(result, left, uiAfter, configured) ==
  /\ Paint(result, paint.version, paint.drawUI)
  /\ paint.drawUI \/ (left = drawers /\ ~uiAfter /\ ~configured)
  /\ drawers' = left
  /\ configured => latest < MaxVersion
  /\ latest' = latest + IF configured THEN 1 ELSE 0
  /\ paint' = [paint EXCEPT !.outdated = connection' = "outdated", !.again = configured,
                            !.uiAfter = uiAfter, !.lost = result = "lost"]

Present ==
  /\ Step("present", "leave")
  /\ \E result \in Results, left, uiAfter, configured \in BOOLEAN :
       Presented(result, left, uiAfter, configured)
  /\ UNCHANGED <<mode, surface, requested, invalid, guestThread, dropped>>

Leave ==
  /\ Step("leave", "settle")
  /\ SetMode(IF connection = "paintable" THEN mode ELSE "none")
  /\ UNCHANGED <<connected, surface, drawers, requested, invalid, paint, guestThread,
                 latest, history>>

Settle ==
  /\ Step("settle", "finish")
  /\ SetMode(IF mode = "none" THEN "none" ELSE DesiredMode(TRUE))
  /\ UNCHANGED <<connected, surface, drawers, requested, invalid, paint, guestThread,
                 latest, history>>

\* Mutant: a configuration that a drawer changed waits for the next frame.
RepaintForUI ==
  /\ ~paint.lost
  /\ \/ paint.outdated
     \/ mode # "none" /\ ((paint.drawUI /\ ~drawers) \/ (paint.uiAfter /\ drawers))

(* The end asks for another paint to recover the connection, and, if the     *)
(* window can paint, for what the drawers asked for or left; if the GPU is   *)
(* lost it tells the host, and asks for nothing.                             *)
Repaint ==
  /\ ~paint.lost
  /\ \/ paint.outdated
     \/ /\ mode # "none"
        /\ paint.again \/ (paint.drawUI /\ ~drawers) \/ (paint.uiAfter /\ drawers)

Finish ==
  /\ Step("finish", "idle")
  /\ RequestIf(Repaint)
  /\ paint' = NoPaint
  /\ UNCHANGED <<mode, connected, surface, drawers, guestThread, latest, history>>

-----------------------------------------------------------------------------
(* The UI thread outside of a paint.                                         *)

(* OnSurfaceResizeFromUIThread.                                              *)
Resize ==
  /\ surface
  /\ Step("idle", "connect")
  /\ SetMode(IF mode = "guest" THEN "ui" ELSE mode)
  /\ UNCHANGED <<connected, surface, drawers, requested, invalid, paint, guestThread,
                 latest, history>>

(* SetWindowSurfaceFromUIThread, called to detach from a surface and, after  *)
(* that, to attach to a new one.                                             *)
LoseSurface ==
  /\ surface
  /\ Step("idle", "disconnect")
  /\ SetMode("none")
  /\ UNCHANGED <<connected, surface, drawers, requested, invalid, paint, guestThread,
                 latest, history>>

Disconnect ==
  /\ Step("disconnect", "idle")
  /\ surface' = FALSE
  /\ connection' = "retry" /\ vsync' = FALSE
  /\ UNCHANGED <<mode, optimal, drawers, requested, invalid, paint, guestThread,
                 latest, history>>

NewSurface ==
  /\ ~surface
  /\ Step("idle", "connect")
  /\ surface' = TRUE
  /\ UNCHANGED <<mode, connected, drawers, requested, invalid, paint, guestThread,
                 latest, history>>

Connect ==
  /\ Step("connect", "desire")
  /\ \E repaint \in BOOLEAN :
       /\ UpdateConnection(repaint)
       /\ paint' = [paint EXCEPT !.again = repaint]
  /\ UNCHANGED <<mode, surface, drawers, requested, invalid, guestThread, latest, history>>

Desire ==
  /\ Step("desire", "ask")
  /\ SetMode(DesiredMode(connection = "paintable"))
  /\ UNCHANGED <<connected, surface, drawers, requested, invalid, paint, guestThread,
                 latest, history>>

Ask ==
  /\ Step("ask", "idle")
  /\ RequestIf(paint.again)
  /\ paint' = NoPaint
  /\ UNCHANGED <<mode, connected, surface, drawers, guestThread, latest, history>>

(* AddUIDrawerFromUIThread and RemoveUIDrawerFromUIThread: without a         *)
(* connection the list changes, and nothing else.                            *)
ChangeDrawers ==
  /\ ui = "idle"
  /\ drawers' = ~drawers
  /\ removed' = (removed \/ (drawers /\ mode # "none"))
  /\ ui' = IF mode = "none" THEN "idle" ELSE "redraw"
  /\ UNCHANGED <<mode, connected, surface, requested, invalid, paint, guestThread,
                 latest, tried, dropped, lost>>

Redraw ==
  /\ Step("redraw", "idle")
  /\ SetMode(DesiredMode(TRUE))
  /\ invalid' = TRUE
  /\ UNCHANGED <<connected, surface, drawers, requested, paint, guestThread, latest, history>>

(* RequestUIPaintFromUIThread.                                               *)
RequestUIPaint ==
  /\ ui = "idle" /\ drawers /\ mode # "none"
  /\ invalid' = TRUE
  /\ UNCHANGED <<mode, connected, surface, drawers, requested, uiThread, guestThread,
                 latest, history>>

(* SetGuestOutputPaintConfigFromUIThread, with a change that shows.          *)
Configure ==
  /\ ui = "idle" /\ latest < MaxVersion
  /\ latest' = latest + 1
  /\ RequestIf(mode # "none")
  /\ UNCHANGED <<mode, connected, surface, drawers, uiThread, guestThread, history>>

-----------------------------------------------------------------------------
(* The guest output thread: the end of RefreshGuestOutput.                   *)

GuestStep(from, to) == guest = from /\ guest' = to

Refresh ==
  /\ latest < MaxVersion
  /\ GuestStep("idle", "lock")
  /\ latest' = latest + 1
  /\ UNCHANGED <<mode, connected, surface, drawers, requested, invalid, uiThread, taken,
                 history>>

\* With the mutex: what the mode lets it do.
Look ==
  /\ GuestStep("lock", IF mode = "ui" THEN "exchange"
                       ELSE IF mode = "guest" /\ connection = "paintable" THEN "present"
                       ELSE "idle")
  /\ taken' = latest
  /\ UNCHANGED <<mode, connected, surface, drawers, requested, invalid, uiThread, latest,
                 history>>

GuestPresent ==
  /\ guest = "present"
  /\ \E result \in Results : Paint(result, taken, FALSE)
  /\ guest' = IF connection' = "outdated" THEN "exchange" ELSE "idle"
  /\ UNCHANGED <<mode, surface, drawers, requested, invalid, uiThread, taken, latest, dropped>>

(* RequestPaintOrConnectionRecoveryViaWindow, while the UI thread runs.      *)
GuestRequest ==
  /\ GuestStep("exchange", IF requested THEN "idle" ELSE "invalidate")
  /\ requested' = TRUE
  /\ UNCHANGED <<mode, connected, surface, drawers, invalid, uiThread, taken, latest, history>>

GuestInvalidate ==
  /\ GuestStep("invalidate", "idle")
  /\ invalid' = TRUE
  /\ UNCHANGED <<mode, connected, surface, drawers, requested, uiThread, taken, latest, history>>

-----------------------------------------------------------------------------
PaintFromUIThread ==
  \/ WindowPaints \/ WindowHasNoSurface \/ Take \/ Recover \/ Ready \/ ConsumeForPaint
  \/ Present \/ Leave \/ Settle \/ Finish

ChangeSurface == Resize \/ LoseSurface \/ Disconnect \/ NewSurface \/ Connect \/ Desire \/ Ask

ChangeUI == ChangeDrawers \/ Redraw \/ RequestUIPaint \/ Configure

RefreshGuestOutput == Refresh \/ Look \/ GuestPresent \/ GuestRequest \/ GuestInvalidate

PaintNext == PaintFromUIThread \/ ChangeSurface \/ ChangeUI \/ RefreshGuestOutput

PaintSpec == PaintInit /\ [][PaintNext]_paintVars

-----------------------------------------------------------------------------
(* Properties. *)

States == {"retry", "unusable", "paintable", "outdated"}
Between == {"idle", "take", "settle", "finish", "redraw"}

\* While the guest output thread paints, the UI thread is at no step that uses
\* the connection, and the other way round: the mode is what keeps them apart,
\* although the UI thread looks at it without the mutex.  And the guest output
\* thread calls the window only while the window has a surface that is not
\* being replaced, which nothing but the mode tells it.
OnePainter ==
  /\ guest = "present" =>
       /\ ui \in Between \union {"ask"}
       /\ surface /\ connection = "paintable"
  /\ guest \in {"exchange", "invalidate"} => surface /\ ui # "disconnect"

\* The assertions of the functions: a paint finds the connection paintable, an
\* update finds it is not the guest output thread's, and a new surface finds
\* neither a connection nor a mode that paints.
AssertionsHold ==
  /\ ui \in {"consume", "present"} => surface /\ mode = "ui" /\ connection = "paintable"
  /\ ui = "recover" => mode # "guest" /\ connection = "outdated"
  /\ ui = "connect" => mode # "guest"
  /\ ~surface => mode = "none" /\ connection = "retry"

\* As long as anything paints, the newest version has been painted or a paint
\* of it has been asked for, whichever thread made it and whatever mode it
\* found: no frame and no change of the configuration waits for the next one.
NoFrameLost ==
  ui = "idle" /\ guest = "idle" /\ mode # "none" =>
    tried.version = latest \/ requested

\* So with the UI: once it has drawers it is painted, or a paint is to come.
UIAppears ==
  ui = "idle" /\ guest = "idle" /\ mode # "none" /\ drawers =>
    tried.ui \/ requested \/ invalid

\* And without: a UI that hid itself while it was drawn is painted over, or a
\* paint without it is to come.  Not so if its last drawer was removed outside
\* of a paint: the window is made to paint, but a paint that nobody requested
\* and that has no drawers paints nothing, so the UI stays on the screen until
\* another frame is painted.
UIDisappears ==
  ui = "idle" /\ guest = "idle" /\ mode # "none" /\ ~drawers =>
    ~tried.ui \/ requested \/ removed

\* What was asked for is on its way, unless the window had no surface when it
\* was to paint last: the flag that says it suppresses all other requests.
RequestIsOnItsWay ==
  ui = "idle" /\ guest # "invalidate" /\ requested => invalid \/ dropped

\* Together: until the GPU is lost, of which the host is told, what is new in
\* the guest output, in its configuration or in the UI is painted or is to be
\* painted without waiting for another frame, but for the removal of the last
\* drawer outside of a paint.
PaintIsToCome ==
  /\ lost \/ (NoFrameLost /\ UIAppears /\ UIDisappears)
  /\ RequestIsOnItsWay

=============================================================================
