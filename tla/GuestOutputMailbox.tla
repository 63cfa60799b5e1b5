------------------------ MODULE GuestOutputMailbox ------------------------
(***************************************************************************)
(* The guest output mailbox of the presenter (ui/presenter.cc,             *)
(* RefreshGuestOutput and ConsumeGuestOutput): three images, one producer  *)
(* that refreshes, consumers that paint or capture.  The indices of the    *)
(* acquired and the ready image are packed into one atomic word, updated   *)
(* by compare-exchange loops; the index of the writable image is private   *)
(* to the producer.  The consumers exclude each other with a mutex.        *)
(***************************************************************************)
EXTENDS Naturals

CONSTANTS
  Consumers,    \* the threads that paint or capture the guest output
  NoConsumer,   \* nobody holds the consumer mutex
  MaxFrames     \* bound: the number of refreshes

ASSUME ConsumerAssumption == NoConsumer \notin Consumers
ASSUME FrameAssumption == MaxFrames \in Nat

Images == 0 .. 2

VARIABLES
  mailbox,    \* guest_output_mailbox_acquired_and_ready_
  writable,   \* guest_output_mailbox_writable_
  image,      \* image[i]: frame, whether it is active, whether fully written
  activeLast, \* guest_output_active_last_refresh_
  frame,      \* the number of refreshes begun
  producer,   \* where RefreshGuestOutput is
  seen,       \* its last_acquired_and_ready
  published,  \* the last frame put into the mailbox (history)
  lock,       \* guest_output_mailbox_consumer_mutex_
  consumer,   \* where the consumer that holds the lock is
  old,        \* its old_acquired_and_ready
  index,      \* its mailbox_index
  floor       \* the value of published when it took the lock (history)

produced == <<writable, image, activeLast, frame, producer, seen, published>>
consumed == <<lock, consumer, old, index, floor>>
vars == <<mailbox, produced, consumed>>

Indices == [acquired : Images, ready : Images]

Init ==
  /\ mailbox = [acquired |-> 0, ready |-> 0]
  /\ writable = 1
  /\ image = [i \in Images |-> [frame |-> 0, active |-> FALSE, whole |-> TRUE]]
  /\ activeLast = FALSE
  /\ frame = 0
  /\ producer = "idle"
  /\ seen = mailbox
  /\ published = 0
  /\ lock = NoConsumer
  /\ consumer = "unlocked"
  /\ old = mailbox
  /\ index = 0
  /\ floor = 0

-----------------------------------------------------------------------------
(* The producer: RefreshGuestOutput. *)

(* The properties of the writable image change first, and nothing of the    *)
(* image is complete until the refresh is over.                             *)
BeginRefresh ==
  /\ producer = "idle"
  /\ frame < MaxFrames
  /\ frame' = frame + 1
  /\ \E active \in BOOLEAN :
       /\ image' = [image EXCEPT ![writable] =
                      [frame |-> frame + 1, active |-> active, whole |-> FALSE]]
       /\ producer' = IF active THEN "render" ELSE "blank"
  /\ UNCHANGED <<mailbox, writable, activeLast, seen, published, consumed>>

(* RefreshGuestOutputImpl fails: the image stays unsent, and may be broken. *)
RefreshFails ==
  /\ producer = "render"
  /\ producer' = "idle"
  /\ UNCHANGED <<mailbox, writable, image, activeLast, frame, seen, published, consumed>>

RefreshSucceeds ==
  /\ producer = "render"
  /\ image' = [image EXCEPT ![writable].whole = TRUE]
  /\ activeLast' = TRUE
  /\ producer' = "load"
  /\ UNCHANGED <<mailbox, writable, frame, seen, published, consumed>>

\* Mutant: the blank image is dropped although an active one was shown.
SkipEveryBlank ==
  /\ producer = "blank"
  /\ producer' = "idle"
  /\ UNCHANGED <<mailbox, writable, image, activeLast, frame, seen, published, consumed>>

(* A blank image is sent only after one that was not blank.                 *)
SkipBlank ==
  /\ producer = "blank"
  /\ ~activeLast
  /\ producer' = "idle"
  /\ UNCHANGED <<mailbox, writable, image, activeLast, frame, seen, published, consumed>>

SendBlank ==
  /\ producer = "blank"
  /\ activeLast
  /\ image' = [image EXCEPT ![writable].whole = TRUE]
  /\ activeLast' = FALSE
  /\ producer' = "load"
  /\ UNCHANGED <<mailbox, writable, frame, seen, published, consumed>>

PublishLoad ==
  /\ producer = "load"
  /\ seen' = mailbox
  /\ producer' = "exchange"
  /\ UNCHANGED <<mailbox, writable, image, activeLast, frame, published, consumed>>

PublishExchange ==
  /\ producer = "exchange"
  /\ mailbox = seen
  /\ mailbox' = [acquired |-> seen.acquired, ready |-> writable]
  /\ published' = frame
  /\ producer' = "choose"
  /\ UNCHANGED <<writable, image, activeLast, frame, seen, consumed>>

PublishRetry ==
  /\ producer = "exchange"
  /\ mailbox # seen
  /\ seen' = mailbox
  /\ UNCHANGED <<mailbox, writable, image, activeLast, frame, producer, published, consumed>>

\* Mutant: round robin over the images, whichever is acquired.
RoundRobin == (writable + 1) % 3

(* The next writable image, from the value the exchange replaced.           *)
NextWritable ==
  IF seen.acquired = writable THEN (writable + 1) % 3
  ELSE (3 - seen.acquired - writable) % 3

ChooseWritable ==
  /\ producer = "choose"
  /\ writable' = NextWritable
  /\ producer' = "idle"
  /\ UNCHANGED <<mailbox, image, activeLast, frame, seen, published, consumed>>

-----------------------------------------------------------------------------
(* A consumer: ConsumeGuestOutput, and the use of the image under its lock. *)

Lock(c) ==
  /\ lock = NoConsumer
  /\ lock' = c
  /\ consumer' = "load"
  /\ floor' = published
  /\ UNCHANGED <<mailbox, produced, old, index>>

ConsumeLoad(c) ==
  /\ lock = c
  /\ consumer = "load"
  /\ old' = mailbox
  /\ consumer' = "exchange"
  /\ UNCHANGED <<mailbox, produced, lock, index, floor>>

\* Mutant: the acquired image is kept although another one is ready.
ConsumeStale(c) ==
  /\ lock = c
  /\ consumer = "exchange"
  /\ index' = old.acquired
  /\ consumer' = "read"
  /\ UNCHANGED <<mailbox, produced, lock, old, floor>>

(* The image that is ready was acquired before.                             *)
ConsumeSame(c) ==
  /\ lock = c
  /\ consumer = "exchange"
  /\ old.acquired = old.ready
  /\ index' = old.ready
  /\ consumer' = "read"
  /\ UNCHANGED <<mailbox, produced, lock, old, floor>>

\* Mutant: a store in place of the compare-exchange.
ConsumeStore(c) ==
  /\ lock = c
  /\ consumer = "exchange"
  /\ old.acquired # old.ready
  /\ mailbox' = [acquired |-> old.ready, ready |-> old.ready]
  /\ index' = old.ready
  /\ consumer' = "read"
  /\ UNCHANGED <<produced, lock, old, floor>>

ConsumeExchange(c) ==
  /\ lock = c
  /\ consumer = "exchange"
  /\ old.acquired # old.ready
  /\ mailbox = old
  /\ mailbox' = [acquired |-> old.ready, ready |-> old.ready]
  /\ index' = old.ready
  /\ consumer' = "read"
  /\ UNCHANGED <<produced, lock, old, floor>>

ConsumeRetry(c) ==
  /\ lock = c
  /\ consumer = "exchange"
  /\ old.acquired # old.ready
  /\ mailbox # old
  /\ old' = mailbox
  /\ UNCHANGED <<mailbox, produced, lock, consumer, index, floor>>

Unlock(c) ==
  /\ lock = c
  /\ consumer = "read"
  /\ lock' = NoConsumer
  /\ consumer' = "unlocked"
  /\ UNCHANGED <<mailbox, produced, old, index, floor>>

-----------------------------------------------------------------------------
Produce ==
  \/ BeginRefresh \/ RefreshFails \/ RefreshSucceeds \/ SkipBlank \/ SendBlank
  \/ PublishLoad \/ PublishExchange \/ PublishRetry \/ ChooseWritable

Consume(c) ==
  \/ Lock(c) \/ ConsumeLoad(c) \/ ConsumeSame(c) \/ ConsumeExchange(c)
  \/ ConsumeRetry(c) \/ Unlock(c)

Next == Produce \/ \E c \in Consumers : Consume(c)

Spec == Init /\ [][Next]_vars

-----------------------------------------------------------------------------
(* Properties. *)

TypeOK ==
  /\ mailbox \in Indices /\ seen \in Indices /\ old \in Indices
  /\ writable \in Images /\ index \in Images
  /\ image \in [Images -> [frame : Nat, active : BOOLEAN, whole : BOOLEAN]]
  /\ activeLast \in BOOLEAN
  /\ frame \in Nat /\ published \in Nat /\ floor \in Nat
  /\ producer \in {"idle", "render", "blank", "load", "exchange", "choose"}
  /\ lock \in Consumers \union {NoConsumer}
  /\ consumer \in {"unlocked", "load", "exchange", "read"}
  /\ consumer = "unlocked" <=> lock = NoConsumer

\* While the producer may write, its image is neither the one a consumer has
\* acquired nor the one a consumer may acquire next.
WriterAlone ==
  producer # "choose" => writable \notin {mailbox.acquired, mailbox.ready}

\* The image a consumer uses is the acquired one as long as it holds the
\* lock: no refresh and no other consumer takes it away.  And it was
\* completely written.
ReaderAlone ==
  consumer = "read" => index = mailbox.acquired /\ image[index].whole

\* So an image has one user at a time.
OneUser == WriterAlone /\ ReaderAlone

\* A consumer gets a frame at least as recent as the last one that was in
\* the mailbox when it took the lock.
FreshFrame == consumer = "read" => image[index].frame >= floor

\* Between two refreshes, what is ready to be shown is blank exactly if the
\* last refresh that did not fail was: the one blank image that is sent when
\* the guest output stops is enough, it is sent whenever the newest refresh is
\* blank, and a failed refresh sends nothing.
BlankIsSent ==
  producer = "idle" =>
    /\ image[mailbox.ready].active = activeLast
    /\ \A i \in Images : image[i].frame = frame /\ ~image[i].active => ~activeLast

\* The case the producer allows for, that the image it has just published is
\* the acquired one in the value that its exchange replaced, never occurs.
NewImageNotYetAcquired == producer = "choose" => seen.acquired # writable

\* The mailbox is a register for the newest complete frame, although the
\* producer and the consumers each update it in several steps.
Register == INSTANCE LatestFrame WITH latest <- image[mailbox.ready].frame,
                                      shown <- image[mailbox.acquired].frame
ActsAsRegister == Register!Spec

=============================================================================
