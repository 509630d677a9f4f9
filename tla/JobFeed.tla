------------------------------- MODULE JobFeed -------------------------------
(***************************************************************************)
(* What one browser tab sees of the jobs: the backend's rows, read page by *)
(* page, and the /ws/jobs socket that says which job changed.  The socket  *)
(* is shared by every subscriber in the tab: the first subscription opens  *)
(* it, the last one closes it, and while it is wanted a dropped connection *)
(* is retried.  An event may be lost with the connection, or in the        *)
(* backend on its way to the socket.                                       *)
(***************************************************************************)
EXTENDS Naturals, Sequences, FiniteSets

CONSTANTS
  MaxJobs,   \* bound: jobs ever created
  PageSize,  \* PAGE_SIZE
  MaxDrops   \* bound: how often a connection is lost

ASSUME FeedAssumption ==
  /\ MaxJobs \in Nat
  /\ PageSize \in Nat \ {0}
  /\ MaxDrops \in Nat

VARIABLES
  created,     \* jobs 1 .. created exist, the newest has the highest number
  state,       \* what the row of a job says
  socket,      \* this.socket
  closing,     \* a socket closed by close() whose onclose has not come yet
  retryTimer,  \* this.retryTimer is set
  refCount,
  events,      \* jobs whose change is on its way through the socket
  drops

board == <<created, state>>
wire == <<socket, closing, retryTimer, refCount, events, drops>>
feedVars == <<board, wire>>

Jobs == 1 .. MaxJobs

\* An orphan is active in the database but older than two hours.
States == {"active", "orphan", "ended"}
Row == [id : Jobs, state : States]

FeedTypeOK ==
  /\ created \in 0 .. MaxJobs
  /\ state \in [Jobs -> States \cup {"none"}]
  /\ socket \in {"none", "connecting", "open"}
  /\ closing \in BOOLEAN
  /\ retryTimer \in BOOLEAN
  /\ refCount \in Nat
  /\ events \subseteq Jobs
  /\ drops \in 0 .. MaxDrops

\* The jobs of earlier sessions have ended, or their worker died long ago.
FeedInit ==
  /\ created \in 0 .. (MaxJobs - 1)
  /\ state \in {s \in [Jobs -> {"none", "ended", "orphan"}] :
                 \A j \in Jobs : j <= created <=> s[j] # "none"}
  /\ socket = "none"
  /\ closing = FALSE
  /\ retryTimer = FALSE
  /\ refCount = 0
  /\ events = {}
  /\ drops = 0

-----------------------------------------------------------------------------
(* The backend (external: what the jobs endpoints answer).                 *)

\* GET /jobs, newest first.
PageAfter(skip) ==
  LET n == IF skip >= created THEN 0
           ELSE IF created - skip < PageSize THEN created - skip ELSE PageSize
  IN [i \in 1 .. n |-> [id |-> created - skip - i + 1, state |-> state[created - skip - i + 1]]]

\* The event of a change reaches the socket, or does not.
Publish(j) == events' \in {events, IF socket = "open" THEN events \cup {j} ELSE events}

\* A run request commits a row for a new job.
NewRow ==
  /\ created < MaxJobs
  /\ created' = created + 1
  /\ state' = [state EXCEPT ![created + 1] = "active"]

CreateRow ==
  /\ NewRow
  /\ Publish(created + 1)
  /\ UNCHANGED <<socket, closing, retryTimer, refCount, drops>>

\* A worker finishes the job, or a cancel request is served.
EndJob(j) ==
  /\ state[j] \in {"active", "orphan"}
  /\ state' = [state EXCEPT ![j] = "ended"]
  /\ Publish(j)
  /\ UNCHANGED <<created, socket, closing, retryTimer, refCount, drops>>

-----------------------------------------------------------------------------
(* JobEventsSocket.                                                        *)

\* connect(): one socket at a time.
Connected(s) == IF s = "none" THEN "connecting" ELSE s

Subscribe ==
  /\ refCount' = refCount + 1
  /\ socket' = IF refCount = 0 THEN Connected(socket) ELSE socket
  /\ UNCHANGED <<closing, retryTimer, events, drops>>

LastUser == refCount = 1

\* The function subscribe() returns; after the last subscriber it calls close(),
\* which also tells the status listeners FALSE: the only one left then is that of
\* the component that leaves (UnmountPolling says what it does).
Unsubscribe ==
  /\ refCount' = refCount - 1
  /\ IF LastUser
     THEN /\ socket' = "none" /\ retryTimer' = FALSE /\ events' = {}
          /\ closing' = (closing \/ socket # "none")
     ELSE UNCHANGED <<socket, closing, retryTimer, events>>
  /\ UNCHANGED drops

\* ws.onopen; the subscribers' status listeners are told TRUE.
SocketOpens ==
  /\ socket = "connecting" /\ socket' = "open"
  /\ UNCHANGED <<closing, retryTimer, refCount, events, drops>>

\* Mutant of SocketDrops: the timer is left to a close that was asked for.
SocketDropsForGood ==
  /\ socket # "none" /\ drops < MaxDrops
  /\ drops' = drops + 1
  /\ socket' = "none" /\ events' = {}
  /\ UNCHANGED <<closing, retryTimer, refCount>>

\* handleClose of the socket in use, or a connection that is refused; FALSE.
SocketDrops ==
  /\ socket # "none" /\ drops < MaxDrops
  /\ drops' = drops + 1
  /\ socket' = "none" /\ events' = {}
  /\ retryTimer' = TRUE
  /\ UNCHANGED <<closing, refCount>>

\* Mutant of OldSocketCloses: it reconnects whether anybody is subscribed or not.
OldCloseReconnects ==
  /\ closing /\ closing' = FALSE
  /\ retryTimer' = TRUE
  /\ UNCHANGED <<socket, refCount, events, drops>>

\* handleClose of a socket closed before: it forgets no newer socket, but tells
\* the listeners FALSE all the same.
OldSocketCloses ==
  /\ closing /\ closing' = FALSE
  /\ retryTimer' = (retryTimer \/ refCount > 0)
  /\ UNCHANGED <<socket, refCount, events, drops>>

\* scheduleReconnect's timer.
Reconnect ==
  /\ retryTimer /\ retryTimer' = FALSE
  /\ socket' = Connected(socket)
  /\ UNCHANGED <<closing, refCount, events, drops>>

\* ws.onmessage
EventArrives(j) ==
  /\ j \in events /\ events' = events \ {j}
  /\ UNCHANGED <<socket, closing, retryTimer, refCount, drops>>

-----------------------------------------------------------------------------
\* While anybody is subscribed, a lost connection is opened again, also when the
\* last subscriber left and the next one came before the old socket had closed.
Reconnects == []<>(socket = "open" \/ refCount = 0)
=============================================================================
