---------------------------- MODULE IoCompletion ----------------------------
(***************************************************************************)
(* An I/O completion port (xiocompletion.cc): a queue under a mutex next   *)
(* to a semaphore that counts what is in it.  Posting pushes and releases  *)
(* the semaphore under the mutex, without a look at whether the semaphore  *)
(* had room; receiving waits for the semaphore and pops under the mutex.   *)
(***************************************************************************)
EXTENDS Sequences, FiniteSets, Integers

CONSTANTS
  Users,             \* the threads that post and receive
  NoUser,            \* nobody has the mutex
  kMaxNotifications, \* the maximum of the semaphore
  MaxPosts           \* bound: the number of posts

ASSUME PortAssumption == NoUser \notin Users /\ kMaxNotifications \in Nat

VARIABLES
  notifications,           \* notifications_: the numbers of the posts in it
  notification_semaphore,  \* the count of notification_semaphore_
  mutex,                   \* notification_lock_
  client,                  \* client[c]: where thread c is
  posts                    \* the number of posts

portVars == <<notifications, notification_semaphore, mutex, client, posts>>

PortInit ==
  /\ notifications = <<>> /\ notification_semaphore = 0 /\ mutex = NoUser
  /\ client = [c \in Users |-> "idle"]
  /\ posts = 0

UserGoes(c, from, to) == client[c] = from /\ client' = [client EXCEPT ![c] = to]

-----------------------------------------------------------------------------
(* QueueNotification. *)

PushNotification(c) ==
  /\ posts < MaxPosts /\ mutex = NoUser
  /\ UserGoes(c, "idle", "release")
  /\ mutex' = c
  /\ notifications' = Append(notifications, posts + 1)
  /\ posts' = posts + 1
  /\ UNCHANGED notification_semaphore

\* Mutant: the semaphore's maximum is not the one of the queue.
HasLessRoom == notification_semaphore + 1 < kMaxNotifications

HasRoom == notification_semaphore < kMaxNotifications

ReleaseNotification(c) ==
  /\ UserGoes(c, "release", "idle")
  /\ mutex' = NoUser
  /\ notification_semaphore' = notification_semaphore + IF HasRoom THEN 1 ELSE 0
  /\ UNCHANGED <<notifications, posts>>

-----------------------------------------------------------------------------
(* WaitForNotification: a wait that times out changes nothing.              *)

WaitForNotification(c) ==
  /\ notification_semaphore > 0
  /\ UserGoes(c, "idle", "pop")
  /\ notification_semaphore' = notification_semaphore - 1
  /\ UNCHANGED <<notifications, mutex, posts>>

PopNotification(c) ==
  /\ mutex = NoUser
  /\ notifications # <<>>
  /\ UserGoes(c, "pop", "idle")
  /\ notifications' = Tail(notifications)
  /\ UNCHANGED <<notification_semaphore, mutex, posts>>

-----------------------------------------------------------------------------
PortNext == \E c \in Users :
  \/ PushNotification(c) \/ ReleaseNotification(c)
  \/ WaitForNotification(c) \/ PopNotification(c)

PortSpec == PortInit /\ [][PortNext]_portVars

-----------------------------------------------------------------------------
(* Properties. *)

At(place) == {c \in Users : client[c] = place}

\* The notifications that nobody has been let through to and that the semaphore
\* does not count, besides the one that is being posted.
Stranded ==
  Len(notifications) - notification_semaphore
    - Cardinality(At("pop") \union At("release"))

\* Whoever was let through by the semaphore finds a notification, although the
\* queue is looked at only later: the assertion of WaitForNotification.  And a
\* notification is stranded in the queue, for good, only by a post that finds
\* kMaxNotifications others there that nobody has been let through to; such a
\* post strands one, and no more.
StrandedOnlyIfFull ==
  /\ [](Stranded >= 0)
  /\ [][Stranded' # Stranded =>
          /\ Stranded' = Stranded + 1
          /\ Len(notifications) - Cardinality(At("pop")) > kMaxNotifications]_portVars

=============================================================================
