--------------------------- MODULE PresenterProofs ---------------------------
(***************************************************************************)
(* Proofs about the two halves of the presenter: the guest output mailbox, *)
(* for every set of consumers and any number of refreshes, and the paint   *)
(* modes, for any number of versions.                                      *)
(***************************************************************************)
EXTENDS GuestOutputMailbox, PaintModes, TLAPS

(***************************************************************************)
(* The mailbox.                                                            *)
(*                                                                         *)
(* The safety properties are proved together, from one inductive           *)
(* invariant.  Ownership says whose image is whose: it adds to WriterAlone *)
(* what holds between the producer's exchange and its choice of the next   *)
(* image, when a consumer may already have acquired the new one.  Contents *)
(* says what is in the images: the two in the mailbox are complete, and    *)
(* the ready one is the frame that was published last.                     *)
(***************************************************************************)

Ownership ==
  /\ WriterAlone
  /\ producer = "choose" =>
       /\ mailbox.ready = writable
       /\ mailbox.acquired \in {seen.acquired, writable}
       /\ seen.acquired # writable
  /\ consumer = "exchange" => old.acquired = mailbox.acquired
  /\ consumer = "read" => index = mailbox.acquired

Contents ==
  /\ image[mailbox.ready].whole /\ image[mailbox.acquired].whole
  /\ producer \in {"load", "exchange"} => image[writable].whole
  /\ producer \in {"render", "blank", "load", "exchange"} => image[writable].frame = frame
  /\ producer \in {"render", "blank", "load", "exchange"} => published < frame
  /\ image[mailbox.ready].frame = published
  /\ published <= frame
  /\ floor <= published
  /\ consumer = "exchange" /\ old.acquired = old.ready => image[old.acquired].frame >= floor
  /\ consumer = "read" => image[index].frame >= floor

Blanks ==
  /\ producer = "render" => image[writable].active
  /\ producer = "blank" => ~image[writable].active
  /\ producer \in {"load", "exchange"} => image[writable].active = activeLast
  /\ producer \in {"idle", "render", "blank", "choose"} =>
       image[mailbox.ready].active = activeLast
  /\ \A i \in Images : image[i].frame <= frame
  /\ producer \in {"render", "blank", "load", "exchange"} =>
       \A i \in Images : i # writable => image[i].frame < frame
  /\ producer \in {"idle", "choose"} =>
       \A i \in Images : image[i].frame = frame /\ ~image[i].active => ~activeLast

MailboxInv == TypeOK /\ Ownership /\ Contents /\ Blanks

LEMMA InitInv == Init => MailboxInv
<1> SUFFICES ASSUME Init PROVE MailboxInv OBVIOUS
<1>1. image \in [Images -> [frame : Nat, active : BOOLEAN, whole : BOOLEAN]]
  BY DEF Init
<1>2. TypeOK
  <2>1. /\ mailbox \in Indices /\ seen \in Indices /\ old \in Indices
        /\ writable \in Images /\ index \in Images
        /\ frame \in Nat /\ published \in Nat /\ floor \in Nat
    BY DEF Init, Indices, Images
  <2>2. activeLast \in BOOLEAN BY DEF Init
  <2>3. lock = NoConsumer /\ consumer = "unlocked" /\ producer = "idle" BY DEF Init
  <2> QED BY <1>1, <2>1, <2>2, <2>3 DEF TypeOK
<1>3. Ownership BY DEF Init, Ownership, WriterAlone
<1>4. \A i \in Images : image[i] = [frame |-> 0, active |-> FALSE, whole |-> TRUE]
  BY DEF Init
<1>5. Contents BY <1>4 DEF Init, Contents, Images
<1>6. Blanks
  <2>1. image[mailbox.ready].active = FALSE BY <1>4 DEF Init, Images
  <2>2. activeLast = FALSE /\ producer = "idle" BY DEF Init
  <2>3. frame = 0 BY DEF Init
  <2>4. \A i \in Images : image[i].frame <= frame BY <1>4, <2>3
  <2> QED BY <2>1, <2>2, <2>4 DEF Blanks
<1> QED BY <1>2, <1>3, <1>5, <1>6 DEF MailboxInv

LEMMA NextWritableFacts ==
  ASSUME TypeOK, seen.acquired # writable
  PROVE  /\ NextWritable \in Images
         /\ NextWritable \notin {seen.acquired, writable}
BY DEF TypeOK, NextWritable, Indices, Images

LEMMA StepInv == MailboxInv /\ [Next]_vars => MailboxInv'
<1> SUFFICES ASSUME MailboxInv, [Next]_vars PROVE MailboxInv' OBVIOUS
<1> USE DEF MailboxInv, TypeOK, Indices, Images, Ownership, WriterAlone, Contents, Blanks,
            produced, consumed
<1>1. CASE BeginRefresh
  <2> DEFINE new(active) == [frame |-> frame + 1, active |-> active, whole |-> FALSE]
  <2>1. PICK active \in BOOLEAN :
          /\ image' = [image EXCEPT ![writable] = new(active)]
          /\ producer' = IF active THEN "render" ELSE "blank"
    BY <1>1 DEF BeginRefresh
  <2>2. /\ \A i \in Images : i # writable => image'[i] = image[i]
        /\ image'[writable] = new(active)
        /\ image' \in [Images -> [frame : Nat, active : BOOLEAN, whole : BOOLEAN]]
    BY <2>1
  <2> QED BY <1>1, <2>1, <2>2 DEF BeginRefresh
<1>2. CASE RefreshFails BY <1>2 DEF RefreshFails
<1>3. CASE RefreshSucceeds BY <1>3 DEF RefreshSucceeds
<1>4. CASE SkipBlank BY <1>4 DEF SkipBlank
<1>5. CASE SendBlank BY <1>5 DEF SendBlank
<1>6. CASE PublishLoad BY <1>6 DEF PublishLoad
<1>7. CASE PublishExchange BY <1>7 DEF PublishExchange
<1>8. CASE PublishRetry BY <1>8 DEF PublishRetry
<1>9. CASE ChooseWritable BY <1>9, NextWritableFacts DEF ChooseWritable
<1>10. ASSUME NEW c \in Consumers, Consume(c) PROVE MailboxInv'
  <2>1. CASE Lock(c) BY <2>1, ConsumerAssumption DEF Lock
  <2>2. CASE ConsumeLoad(c) BY <2>2 DEF ConsumeLoad
  <2>3. CASE ConsumeSame(c) BY <2>3 DEF ConsumeSame
  <2>4. CASE ConsumeExchange(c) BY <2>4 DEF ConsumeExchange
  <2>5. CASE ConsumeRetry(c) BY <2>5 DEF ConsumeRetry
  <2>6. CASE Unlock(c) BY <2>6 DEF Unlock
  <2> QED BY <1>10, <2>1, <2>2, <2>3, <2>4, <2>5, <2>6 DEF Consume
<1>11. CASE UNCHANGED vars BY <1>11 DEF vars
<1> QED BY <1>1, <1>2, <1>3, <1>4, <1>5, <1>6, <1>7, <1>8, <1>9, <1>10, <1>11
        DEF Next, Produce

LEMMA Invariance == Spec => []MailboxInv
BY InitInv, StepInv, PTL DEF Spec

\* The three indices are images, and the program counters are where they can be.
THEOREM MailboxTypes == Spec => []TypeOK
<1>1. MailboxInv => TypeOK BY DEF MailboxInv
<1> QED BY Invariance, <1>1, PTL

\* The producer writes only to an image that no consumer has or can get, and a
\* consumer's image is its own, and complete, until it unlocks.
THEOREM ImagesHaveOneUser == Spec => []OneUser
<1>1. MailboxInv => WriterAlone BY DEF MailboxInv, Ownership
<1>2. MailboxInv => ReaderAlone BY DEF MailboxInv, Ownership, Contents, ReaderAlone
<1> QED BY Invariance, <1>1, <1>2, PTL DEF OneUser

\* No consumer shows a frame older than the newest when it took the lock.
THEOREM FramesAreFresh == Spec => []FreshFrame
<1>1. MailboxInv => FreshFrame BY DEF MailboxInv, Contents, FreshFrame
<1> QED BY Invariance, <1>1, PTL

\* A blank image is sent when the guest output stops, and only then.
THEOREM BlanksAreSent == Spec => []BlankIsSent
<1>1. MailboxInv => BlankIsSent BY DEF MailboxInv, Blanks, BlankIsSent
<1> QED BY Invariance, <1>1, PTL

\* The first branch of the producer's choice of its next image is dead code.
THEOREM FirstBranchIsDead == Spec => []NewImageNotYetAcquired
<1>1. MailboxInv => NewImageNotYetAcquired
  BY DEF MailboxInv, Ownership, NewImageNotYetAcquired
<1> QED BY Invariance, <1>1, PTL

-----------------------------------------------------------------------------
(* Refinement: only the exchange of the producer changes what is ready, and *)
(* only that of a consumer changes what is acquired.                        *)

LEMMA RegisterInit == Init => Register!Init
BY DEF Init, Register!Init, Images

LEMMA RegisterStep ==
  MailboxInv /\ [Next]_vars =>
    [Register!Next]_<<image[mailbox.ready].frame, image[mailbox.acquired].frame>>
<1> SUFFICES ASSUME MailboxInv, [Next]_vars
             PROVE  [Register!Next]_<<image[mailbox.ready].frame,
                                      image[mailbox.acquired].frame>>
  OBVIOUS
<1> DEFINE Same == UNCHANGED <<image[mailbox.ready].frame, image[mailbox.acquired].frame>>
<1> USE DEF MailboxInv, TypeOK, Indices, Images
<1>1. CASE BeginRefresh
  BY <1>1 DEF BeginRefresh, Ownership, WriterAlone
<1>2. CASE RefreshSucceeds \/ SendBlank
  BY <1>2 DEF RefreshSucceeds, SendBlank, Ownership, WriterAlone
<1>3. CASE PublishExchange
  <2>1. Register!Publish BY <1>3 DEF PublishExchange, Register!Publish, Contents, produced
  <2> QED BY <2>1 DEF Register!Next
<1>4. ASSUME NEW c \in Consumers, ConsumeExchange(c) PROVE Register!Next
  <2>1. Register!Show BY <1>4 DEF ConsumeExchange, Register!Show, produced
  <2> QED BY <2>1 DEF Register!Next
<1>5. CASE UNCHANGED <<mailbox, image>> BY <1>5
<1>6. ASSUME NEW c \in Consumers, Consume(c), ~ConsumeExchange(c)
      PROVE  UNCHANGED <<mailbox, image>>
  BY <1>6 DEF Consume, Lock, ConsumeLoad, ConsumeSame, ConsumeRetry, Unlock, produced
<1>7. CASE RefreshFails \/ SkipBlank \/ PublishLoad \/ PublishRetry \/ ChooseWritable
  BY <1>5, <1>7 DEF RefreshFails, SkipBlank, PublishLoad, PublishRetry, ChooseWritable
<1>8. CASE UNCHANGED vars BY <1>5, <1>8 DEF vars, produced
<1> QED BY <1>1, <1>2, <1>3, <1>4, <1>5, <1>6, <1>7, <1>8 DEF Next, Produce

\* The mailbox implements a register for the newest complete frame.
THEOREM MailboxIsRegister == Spec => ActsAsRegister
BY RegisterInit, RegisterStep, Invariance, PTL DEF Spec, ActsAsRegister, Register!Spec


-----------------------------------------------------------------------------
(***************************************************************************)
(* Who paints.                                                             *)
(*                                                                         *)
(* The invariant ties the mode to the places of both threads.  The UI      *)
(* thread uses the connection only at places where the mode is not the     *)
(* guest output thread's (Taken), a mode that paints has a surface, and    *)
(* what the guest output thread saw of the mode under the mutex stays true *)
(* until it gives the mutex back, as the mode does not change before.      *)
(***************************************************************************)

Modes == {"none", "ui", "guest"}
Taken == {"recover", "ready", "consume", "present", "leave", "disconnect", "connect",
          "desire"}
Places == Between \union Taken \union {"ask"}
GuestPlaces == {"idle", "lock", "present", "exchange", "invalidate"}

Types ==
  /\ mode \in Modes /\ connection \in States /\ surface \in BOOLEAN
  /\ ui \in Places /\ guest \in GuestPlaces

UIThread ==
  /\ ~surface => mode = "none" /\ connection = "retry"
  /\ ui \in {"take", "recover", "connect", "disconnect"} => surface
  /\ ui \in Taken => mode # "guest"
  /\ ui = "disconnect" => mode = "none"
  /\ ui = "redraw" => mode # "none"
  /\ ui = "recover" => connection = "outdated"
  /\ ui \in {"consume", "present"} => mode = "ui" /\ connection = "paintable"

GuestThread ==
  /\ guest = "present" => mode = "guest" /\ connection = "paintable"
  /\ guest \in {"exchange", "invalidate"} => mode # "none"

PaintInv == Types /\ UIThread /\ GuestThread

LEMMA PaintInitInv == PaintInit => PaintInv
BY DEF PaintInit, PaintInv, Types, UIThread, GuestThread, Modes, States, Places, Taken, Between,
       GuestPlaces

-----------------------------------------------------------------------------
(* The steps of the UI thread: one that changes the mode needs the mutex,    *)
(* which the guest output thread then does not have.                        *)

LEMMA PaintFromUIThreadInv == PaintInv /\ PaintFromUIThread => PaintInv'
<1> SUFFICES ASSUME PaintInv, PaintFromUIThread PROVE PaintInv' OBVIOUS
<1> USE DEF PaintInv, Types, UIThread, GuestThread, Modes, States, Places, Taken, Between,
            GuestPlaces, Step, connected, guestThread, uiThread, SetMode, MayChange,
            MutexIsFree
<1>1. CASE WindowPaints BY <1>1 DEF WindowPaints, Start
<1>2. CASE WindowHasNoSurface BY <1>2 DEF WindowHasNoSurface
<1>3. CASE Take BY <1>3 DEF Take, TakeMode
<1>4. CASE Recover BY <1>4 DEF Recover, UpdateConnection
<1>5. CASE Ready BY <1>5 DEF Ready
<1>6. CASE ConsumeForPaint BY <1>6 DEF ConsumeForPaint
<1>7. CASE Present
  <2>1. connection' \in States /\ surface /\ mode = "ui" /\ connection' # "retry"
    BY <1>7 DEF Present, Presented, Paint, AfterPaint
  <2> QED BY <1>7, <2>1 DEF Present
<1>8. CASE Leave BY <1>8 DEF Leave
<1>9. CASE Settle BY <1>9 DEF Settle, DesiredMode
<1>10. CASE Finish BY <1>10 DEF Finish
<1> QED BY <1>1, <1>2, <1>3, <1>4, <1>5, <1>6, <1>7, <1>8, <1>9, <1>10
        DEF PaintFromUIThread

LEMMA ChangeInv == PaintInv /\ (ChangeSurface \/ ChangeUI) => PaintInv'
<1> SUFFICES ASSUME PaintInv, ChangeSurface \/ ChangeUI PROVE PaintInv' OBVIOUS
<1> USE DEF PaintInv, Types, UIThread, GuestThread, Modes, States, Places, Taken, Between,
            GuestPlaces, Step, connected, guestThread, uiThread, SetMode, MayChange,
            MutexIsFree
<1>1. CASE Resize BY <1>1 DEF Resize
<1>2. CASE LoseSurface BY <1>2 DEF LoseSurface
<1>3. CASE Disconnect BY <1>3 DEF Disconnect
<1>4. CASE NewSurface BY <1>4 DEF NewSurface
<1>5. CASE Connect BY <1>5 DEF Connect, UpdateConnection
<1>6. CASE Desire BY <1>6 DEF Desire, DesiredMode
<1>7. CASE Ask BY <1>7 DEF Ask
<1>8. CASE ChangeDrawers BY <1>8 DEF ChangeDrawers
<1>9. CASE Redraw BY <1>9 DEF Redraw, DesiredMode
<1>10. CASE RequestUIPaint BY <1>10 DEF RequestUIPaint
<1>11. CASE Configure BY <1>11 DEF Configure
<1> QED BY <1>1, <1>2, <1>3, <1>4, <1>5, <1>6, <1>7, <1>8, <1>9, <1>10, <1>11
        DEF ChangeSurface, ChangeUI

(* The steps of the guest output thread leave the mode and the UI thread.   *)

LEMMA RefreshInv == PaintInv /\ RefreshGuestOutput => PaintInv'
<1> SUFFICES ASSUME PaintInv, RefreshGuestOutput PROVE PaintInv' OBVIOUS
<1> USE DEF PaintInv, Types, UIThread, GuestThread, Modes, States, Places, Taken, Between,
            GuestPlaces, GuestStep, connected, uiThread
<1>1. CASE Refresh BY <1>1 DEF Refresh
<1>2. CASE Look BY <1>2 DEF Look
<1>3. CASE GuestPresent BY <1>3 DEF GuestPresent, Paint, AfterPaint
<1>4. CASE GuestRequest BY <1>4 DEF GuestRequest
<1>5. CASE GuestInvalidate BY <1>5 DEF GuestInvalidate
<1> QED BY <1>1, <1>2, <1>3, <1>4, <1>5 DEF RefreshGuestOutput

LEMMA PaintInvariance == PaintSpec => []PaintInv
<1>1. PaintInv /\ UNCHANGED paintVars => PaintInv'
  BY DEF PaintInv, Types, UIThread, GuestThread, paintVars, connected, uiThread, guestThread,
         Between
<1>2. PaintInv /\ [PaintNext]_paintVars => PaintInv'
  BY <1>1, PaintFromUIThreadInv, ChangeInv, RefreshInv DEF PaintNext
<1> QED BY PaintInitInv, <1>2, PTL DEF PaintSpec

-----------------------------------------------------------------------------
(* The properties. *)

\* The UI thread does not touch the connection while the other thread paints, nor
\* take the surface of the window that is asked for a paint.
THEOREM PaintersAreApart == PaintSpec => []OnePainter
<1>1. PaintInv => OnePainter
  BY DEF PaintInv, Types, UIThread, GuestThread, OnePainter, Places, Taken
<1> QED BY PaintInvariance, <1>1, PTL

\* The assertions of the presenter about the mode and the connection hold.
THEOREM Asserted == PaintSpec => []AssertionsHold
<1>1. PaintInv => AssertionsHold
  BY DEF PaintInv, Types, UIThread, AssertionsHold, Taken
<1> QED BY PaintInvariance, <1>1, PTL

-----------------------------------------------------------------------------
(***************************************************************************)
(* What is new is painted or to be painted.                                *)
(*                                                                         *)
(* PaintIsToCome says so when both threads are idle; the invariant follows *)
(* what is owed through the steps between.  While the UI thread is on its  *)
(* way to a paint (OnItsWay) nothing is owed, as that paint takes the      *)
(* newest version, or ends without a mode.  A mode that paints has a       *)
(* connection that is paintable, or outdated, and then its recovery has    *)
(* been asked for: without a mode the version that comes is painted when   *)
(* the connection is made, which asks for a paint.                         *)
(***************************************************************************)

OnItsWay == {"take", "recover", "ready", "consume"}
AtTheEnd == {"leave", "settle", "finish"}

Paints == [drawUI : BOOLEAN, version : Nat, outdated : BOOLEAN, again : BOOLEAN,
           uiAfter : BOOLEAN, lost : BOOLEAN]

Locals ==
  /\ latest \in Nat /\ taken \in Nat /\ taken <= latest /\ drawers \in BOOLEAN
  /\ tried.version \in Nat /\ tried.version <= latest
  /\ paint \in Paints /\ paint.version <= latest
  /\ paint.lost => lost /\ ~paint.outdated

\* What the last paint showed, or the one that is to be presented next shows.
Shown == IF ui = "present" THEN paint.version ELSE tried.version
ShownUI == IF ui = "present" THEN paint.drawUI ELSE tried.ui

\* A paint that the UI thread will ask for before it is idle.
Promised ==
  \/ ui \in AtTheEnd /\ (paint.outdated \/ paint.again)
  \/ ui \in {"desire", "ask"} /\ paint.again

Owing ==
  mode # "none" /\ ui \notin OnItsWay /\ (ui = "leave" => connection = "paintable")

Modal ==
  /\ mode = "none" /\ ui \notin {"ready", "desire", "disconnect"} =>
       connection # "paintable"
  /\ mode # "none" /\ ui \notin {"ready", "leave", "desire"} =>
       connection \in {"paintable", "outdated"}
  /\ mode = "guest" /\ drawers => ui = "redraw"
  /\ ui \in OnItsWay \union {"present"} => paint.drawUI = drawers
  /\ guest = "present" => tried.version <= taken

RecoveryIsComing ==
  /\ connection = "outdated" =>
       \/ requested \/ guest = "exchange" \/ ui \in {"take", "recover"}
       \/ ui \in AtTheEnd /\ paint.outdated
  /\ ui = "desire" /\ mode = "none" /\ connection = "paintable" => paint.again \/ requested

VersionIsComing ==
  Owing => \/ Shown = latest \/ requested \/ Promised \/ lost
           \/ guest \in {"lock", "exchange"}
           \/ guest = "present" /\ taken = latest

UIIsComing ==
  Owing /\ drawers => \/ ShownUI \/ requested \/ invalid \/ Promised \/ lost
                      \/ guest = "exchange" \/ ui = "redraw"

\* A paint that drew a UI which is not there any more is followed by another one.
UIIsGoing ==
  Owing /\ ~drawers => \/ ~ShownUI \/ requested \/ removed \/ Promised \/ lost
                       \/ guest = "exchange"
                       \/ ui \in AtTheEnd /\ paint.drawUI

RequestIsComing == requested => invalid \/ dropped \/ guest = "invalidate"

ComingInv ==
  PaintInv /\ Locals /\ Modal /\ RecoveryIsComing /\ VersionIsComing /\ UIIsComing
    /\ UIIsGoing /\ RequestIsComing

(* Nothing that owes a paint comes to rest: one lemma per group of actions.   *)

LEMMA PaintStep == PaintInv /\ [PaintNext]_paintVars => PaintInv'
BY PaintFromUIThreadInv, ChangeInv, RefreshInv
   DEF PaintNext, PaintInv, Types, UIThread, GuestThread, paintVars, connected, uiThread,
       guestThread, Between

\* The record of a paint as it starts, and at the end of its presentation.
LEMMA FreshPaint ==
  ASSUME NEW b \in BOOLEAN
  PROVE  LET p == [NoPaint EXCEPT !.drawUI = b] IN p \in Paints /\ p.version = 0 /\ ~p.lost
BY DEF NoPaint, Paints

LEMMA Presentation ==
  ASSUME Locals, connection = "paintable", Present
  PROVE  \E left, uiAfter, configured \in BOOLEAN :
           /\ paint.drawUI \/ (left = drawers /\ ~uiAfter /\ ~configured)
           /\ drawers' = left
           /\ latest' = latest + IF configured THEN 1 ELSE 0
           /\ paint' \in Paints /\ paint'.version = paint.version
           /\ paint'.drawUI = paint.drawUI /\ paint'.again = configured
           /\ paint'.outdated = (connection' = "outdated")
           /\ paint'.lost => lost' /\ ~paint'.outdated
<1>1. PICK result \in Results, left, uiAfter, configured \in BOOLEAN :
        Presented(result, left, uiAfter, configured)
  BY DEF Present
<1> DEFINE o == connection' = "outdated"
           l == result = "lost"
<1>2. o \in BOOLEAN /\ l \in BOOLEAN OBVIOUS
<1>3. paint \in Paints BY DEF Locals
<1>4. l => lost' /\ ~o BY <1>1 DEF Presented, Paint, AfterPaint
<1> HIDE DEF o, l
<1>5. paint' = [paint EXCEPT !.outdated = o, !.again = configured, !.uiAfter = uiAfter,
                             !.lost = l]
  BY <1>1 DEF Presented, o, l
<1>6. /\ paint' \in Paints /\ paint'.version = paint.version
      /\ paint'.drawUI = paint.drawUI /\ paint'.again = configured /\ paint'.outdated = o
      /\ paint'.lost = l
  BY <1>2, <1>3, <1>5 DEF Paints
<1>7. paint'.lost => lost' /\ ~paint'.outdated BY <1>4, <1>6
<1> QED BY <1>1, <1>6, <1>7 DEF Presented, o

LEMMA PaintComing == ComingInv /\ PaintFromUIThread => ComingInv'
<1> SUFFICES ASSUME ComingInv, PaintFromUIThread PROVE ComingInv' OBVIOUS
<1>0. PaintInv' BY PaintStep DEF PaintNext, ComingInv
<1> USE DEF ComingInv, PaintInv, Types, UIThread, GuestThread, Locals, Modal,
            RecoveryIsComing, VersionIsComing, UIIsComing, UIIsGoing, RequestIsComing, Owing,
            Promised, Shown, ShownUI, OnItsWay, AtTheEnd, Modes, States, Places, Taken,
            Between, GuestPlaces, Step, GuestStep, connected, uiThread, guestThread,
            history, SetMode, MayChange, MutexIsFree, NoPaint, Request, RequestIf, Paints
<1>1. CASE WindowPaints
  <2>1. Locals' BY <1>0, <1>1, FreshPaint DEF WindowPaints, Start
  <2>2. Modal' BY <1>0, <1>1 DEF WindowPaints, Start
  <2>3. RecoveryIsComing' BY <1>0, <1>1 DEF WindowPaints, Start
  <2>4. VersionIsComing' BY <1>0, <1>1 DEF WindowPaints, Start
  <2>5. UIIsComing' BY <1>0, <1>1 DEF WindowPaints, Start
  <2>7. UIIsGoing' BY <1>0, <1>1 DEF WindowPaints, Start
  <2>6. RequestIsComing' BY <1>0, <1>1 DEF WindowPaints, Start
  <2> QED BY <1>0, <2>1, <2>2, <2>3, <2>4, <2>5, <2>6, <2>7
<1>2. CASE WindowHasNoSurface BY <1>0, <1>2 DEF WindowHasNoSurface
<1>3. CASE Take BY <1>0, <1>3 DEF Take, TakeMode
<1>4. CASE Recover BY <1>0, <1>4 DEF Recover, UpdateConnection
<1>5. CASE Ready BY <1>0, <1>5 DEF Ready
<1>6. CASE ConsumeForPaint BY <1>0, <1>6 DEF ConsumeForPaint
<1>7. CASE Present
  <2>0. PICK left, uiAfter, configured \in BOOLEAN :
          /\ paint.drawUI \/ (left = drawers /\ ~uiAfter /\ ~configured)
          /\ drawers' = left
          /\ latest' = latest + IF configured THEN 1 ELSE 0
          /\ paint' \in Paints /\ paint'.version = paint.version
          /\ paint'.drawUI = paint.drawUI /\ paint'.again = configured
          /\ paint'.outdated = (connection' = "outdated")
          /\ paint'.lost => lost' /\ ~paint'.outdated
    BY <1>7, Presentation DEF Present
  <2>1. Locals' BY <1>0, <1>7, <2>0 DEF Present, Presented, Paint, AfterPaint
  <2>2. Modal' BY <1>0, <1>7, <2>0 DEF Present, Presented, Paint, AfterPaint
  <2>3. RecoveryIsComing' BY <1>0, <1>7, <2>0 DEF Present, Presented, Paint, AfterPaint
  <2>4. VersionIsComing' BY <1>0, <1>7, <2>0 DEF Present, Presented, Paint, AfterPaint
  <2>5. UIIsComing'
    <3>1. drawers' => paint.drawUI BY <1>0, <1>7, <2>0 DEF Present, Presented
    <3>2. connection' = "outdated" \/ lost' \/ tried'.ui = paint.drawUI
      BY <1>7 DEF Present, Presented, Paint, AfterPaint
    <3>3. ui' = "leave" BY <1>7 DEF Present
    <3>4. Owing' /\ drawers' /\ ~lost' => ShownUI'
      <4> SUFFICES ASSUME Owing', drawers', ~lost' PROVE ShownUI' OBVIOUS
      <4>1. tried'.ui = paint.drawUI BY <3>2, <3>3
      <4>2. paint.drawUI BY <3>1
      <4> QED BY <3>3, <4>1, <4>2
    <3> QED BY <3>4
  <2>7. UIIsGoing'
    <3>1. ui' = "leave" /\ paint'.drawUI = paint.drawUI BY <1>7, <2>0 DEF Present, Presented
    <3>2. connection' = "outdated" \/ lost' \/ tried'.ui = paint.drawUI
      BY <1>7 DEF Present, Presented, Paint, AfterPaint
    <3>3. CASE paint.drawUI BY <3>1, <3>3
    <3>4. CASE ~paint.drawUI
      <4>1. Owing' => lost' \/ ~tried'.ui BY <3>1, <3>2, <3>4
      <4> QED BY <3>1, <4>1
    <3> QED BY <3>3, <3>4
  <2>6. RequestIsComing' BY <1>0, <1>7, <2>0 DEF Present, Presented, Paint, AfterPaint
  <2> QED BY <1>0, <2>1, <2>2, <2>3, <2>4, <2>5, <2>6, <2>7
<1>8. CASE Leave BY <1>0, <1>8 DEF Leave
<1>9. CASE Settle BY <1>0, <1>9 DEF Settle, DesiredMode
<1>10. CASE Finish
  <2>1. Locals' BY <1>0, <1>10 DEF Finish, Repaint
  <2>2. Modal' BY <1>0, <1>10 DEF Finish, Repaint
  <2>3. RecoveryIsComing' BY <1>0, <1>10 DEF Finish, Repaint
  <2>4. VersionIsComing' BY <1>0, <1>10 DEF Finish, Repaint
  <2>5. UIIsComing' BY <1>0, <1>10 DEF Finish, Repaint
  <2>7. UIIsGoing' BY <1>0, <1>10 DEF Finish, Repaint
  <2>6. RequestIsComing' BY <1>0, <1>10 DEF Finish, Repaint
  <2> QED BY <1>0, <2>1, <2>2, <2>3, <2>4, <2>5, <2>6, <2>7
<1> QED BY <1>1, <1>2, <1>3, <1>4, <1>5, <1>6, <1>7, <1>8, <1>9, <1>10
        DEF PaintFromUIThread

LEMMA SurfaceComing == ComingInv /\ ChangeSurface => ComingInv'
<1> SUFFICES ASSUME ComingInv, ChangeSurface PROVE ComingInv' OBVIOUS
<1>0. PaintInv' BY PaintStep DEF PaintNext, ComingInv
<1> USE DEF ComingInv, PaintInv, Types, UIThread, GuestThread, Locals, Modal,
            RecoveryIsComing, VersionIsComing, UIIsComing, UIIsGoing, RequestIsComing, Owing,
            Promised, Shown, ShownUI, OnItsWay, AtTheEnd, Modes, States, Places, Taken,
            Between, GuestPlaces, Step, GuestStep, connected, uiThread, guestThread,
            history, SetMode, MayChange, MutexIsFree, NoPaint, Request, RequestIf, Paints
<1>1. CASE Resize BY <1>0, <1>1 DEF Resize
<1>2. CASE LoseSurface BY <1>0, <1>2 DEF LoseSurface
<1>3. CASE Disconnect BY <1>0, <1>3 DEF Disconnect
<1>4. CASE NewSurface BY <1>0, <1>4 DEF NewSurface
<1>5. CASE Connect BY <1>0, <1>5 DEF Connect, UpdateConnection
<1>6. CASE Desire BY <1>0, <1>6 DEF Desire, DesiredMode
<1>7. CASE Ask
  <2>1. Locals' BY <1>0, <1>7 DEF Ask
  <2>2. Modal' BY <1>0, <1>7 DEF Ask
  <2>3. RecoveryIsComing' BY <1>0, <1>7 DEF Ask
  <2>4. VersionIsComing' BY <1>0, <1>7 DEF Ask
  <2>5. UIIsComing' BY <1>0, <1>7 DEF Ask
  <2>7. UIIsGoing' BY <1>0, <1>7 DEF Ask
  <2>6. RequestIsComing' BY <1>0, <1>7 DEF Ask
  <2> QED BY <1>0, <2>1, <2>2, <2>3, <2>4, <2>5, <2>6, <2>7
<1> QED BY <1>1, <1>2, <1>3, <1>4, <1>5, <1>6, <1>7
        DEF ChangeSurface

LEMMA UIComing == ComingInv /\ ChangeUI => ComingInv'
<1> SUFFICES ASSUME ComingInv, ChangeUI PROVE ComingInv' OBVIOUS
<1>0. PaintInv' BY PaintStep DEF PaintNext, ComingInv
<1> USE DEF ComingInv, PaintInv, Types, UIThread, GuestThread, Locals, Modal,
            RecoveryIsComing, VersionIsComing, UIIsComing, UIIsGoing, RequestIsComing, Owing,
            Promised, Shown, ShownUI, OnItsWay, AtTheEnd, Modes, States, Places, Taken,
            Between, GuestPlaces, Step, GuestStep, connected, uiThread, guestThread,
            history, SetMode, MayChange, MutexIsFree, NoPaint, Request, RequestIf, Paints
<1>1. CASE ChangeDrawers BY <1>0, <1>1 DEF ChangeDrawers
<1>2. CASE Redraw BY <1>0, <1>2 DEF Redraw, DesiredMode
<1>3. CASE RequestUIPaint BY <1>0, <1>3 DEF RequestUIPaint
<1>4. CASE Configure
  <2>1. Locals' BY <1>0, <1>4 DEF Configure
  <2>2. Modal' BY <1>0, <1>4 DEF Configure
  <2>3. RecoveryIsComing' BY <1>0, <1>4 DEF Configure
  <2>4. VersionIsComing' BY <1>0, <1>4 DEF Configure
  <2>5. UIIsComing' BY <1>0, <1>4 DEF Configure
  <2>7. UIIsGoing' BY <1>0, <1>4 DEF Configure
  <2>6. RequestIsComing' BY <1>0, <1>4 DEF Configure
  <2> QED BY <1>0, <2>1, <2>2, <2>3, <2>4, <2>5, <2>6, <2>7
<1> QED BY <1>1, <1>2, <1>3, <1>4
        DEF ChangeUI

LEMMA RefreshComing == ComingInv /\ RefreshGuestOutput => ComingInv'
<1> SUFFICES ASSUME ComingInv, RefreshGuestOutput PROVE ComingInv' OBVIOUS
<1>0. PaintInv' BY PaintStep DEF PaintNext, ComingInv
<1> USE DEF ComingInv, PaintInv, Types, UIThread, GuestThread, Locals, Modal,
            RecoveryIsComing, VersionIsComing, UIIsComing, UIIsGoing, RequestIsComing, Owing,
            Promised, Shown, ShownUI, OnItsWay, AtTheEnd, Modes, States, Places, Taken,
            Between, GuestPlaces, Step, GuestStep, connected, uiThread, guestThread,
            history, SetMode, MayChange, MutexIsFree, NoPaint, Request, RequestIf, Paints
<1>1. CASE Refresh BY <1>0, <1>1 DEF Refresh
<1>2. CASE Look BY <1>0, <1>2 DEF Look
<1>3. CASE GuestPresent BY <1>0, <1>3 DEF GuestPresent, Paint, AfterPaint
<1>4. CASE GuestRequest BY <1>0, <1>4 DEF GuestRequest
<1>5. CASE GuestInvalidate BY <1>0, <1>5 DEF GuestInvalidate
<1> QED BY <1>1, <1>2, <1>3, <1>4, <1>5
        DEF RefreshGuestOutput

LEMMA ComingInvariance == PaintSpec => []ComingInv
<1>1. PaintInit => ComingInv
  <2> SUFFICES ASSUME PaintInit PROVE ComingInv OBVIOUS
  <2>1. PaintInv BY PaintInitInv
  <2>2. Locals
    <3>1. paint \in Paints /\ paint.version = 0 /\ ~paint.lost
      BY DEF PaintInit, NoPaint, Paints
    <3>2. tried.version = 0 /\ latest = 0 /\ taken = 0 BY DEF PaintInit
    <3>3. drawers \in BOOLEAN BY Zenon DEF PaintInit
    <3> QED BY <3>1, <3>2, <3>3 DEF Locals
  <2>3. Modal /\ RecoveryIsComing /\ RequestIsComing
    BY DEF PaintInit, Modal, RecoveryIsComing, RequestIsComing, OnItsWay, AtTheEnd
  <2>4. VersionIsComing /\ UIIsComing /\ UIIsGoing
    BY DEF PaintInit, VersionIsComing, UIIsComing, UIIsGoing, Owing
  <2> QED BY <2>1, <2>2, <2>3, <2>4 DEF ComingInv
<1>2. ComingInv /\ UNCHANGED paintVars => ComingInv'
  BY PaintStep
     DEF ComingInv, Locals, Modal, RecoveryIsComing, VersionIsComing, UIIsComing, UIIsGoing,
         RequestIsComing, Owing, Promised, Shown, ShownUI, paintVars, connected, uiThread,
         guestThread, history
<1>3. ComingInv /\ [PaintNext]_paintVars => ComingInv'
  BY <1>2, PaintComing, SurfaceComing, UIComing, RefreshComing DEF PaintNext
<1> QED BY <1>1, <1>3, PTL DEF PaintSpec

\* Until the GPU is lost, as long as anything paints, the newest version of the guest
\* output and of the paint configuration has been painted when both threads are idle, or
\* a paint of it has been asked for; so it is with a UI that has appeared, and with one
\* that has hidden itself, but not with one whose last drawer was removed outside of a
\* paint.
THEOREM NewIsPainted == PaintSpec => []PaintIsToCome
<1>1. ComingInv /\ ~lost => NoFrameLost /\ UIAppears
  BY DEF ComingInv, VersionIsComing, UIIsComing, Owing, Promised, Shown, ShownUI, OnItsWay,
         AtTheEnd, NoFrameLost, UIAppears
<1>2. ComingInv /\ ~lost => UIDisappears
  BY DEF ComingInv, UIIsGoing, Owing, Promised, ShownUI, OnItsWay, AtTheEnd, UIDisappears
<1>3. ComingInv => RequestIsOnItsWay
  BY DEF ComingInv, RequestIsComing, RequestIsOnItsWay
<1>4. ComingInv => PaintIsToCome BY <1>1, <1>2, <1>3 DEF PaintIsToCome
<1> QED BY ComingInvariance, <1>4, PTL

=============================================================================
