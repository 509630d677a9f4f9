--------------------------- MODULE LiveJobsProofs ---------------------------
(***************************************************************************)
(* What holds of one tab's view of the jobs for any number of jobs,        *)
(* requests, failures and drops and any size of a page: the types, that    *)
(* the shared socket is open or to be opened exactly while somebody uses   *)
(* it, that nothing on display waits for an answer that will not come, and *)
(* that the rows on display are consecutive.                               *)
(*                                                                         *)
(* The last one is not inductive.  The list must be known to start with    *)
(* the first page of some moment (so that it fills the page unless it      *)
(* shows every job), the answers on their way to hold such a page, or the  *)
(* rows that follow those captured with them, and skip to say how many     *)
(* rows are on display whenever more can be asked for, unless fetchJobs    *)
(* has reset it and is still awaited.  ListSteps sums up what any step     *)
(* does to list and answers, and the proofs go by its cases.               *)
(***************************************************************************)
EXTENDS LiveJobs, FiniteSetTheorems, TLAPS

-----------------------------------------------------------------------------
(* Sequences and pages.                                                    *)

\* A list without its i-th member.
LEMMA RemoveAtFacts ==
  ASSUME NEW T, NEW s \in Seq(T), NEW i \in 1 .. Len(s)
  PROVE  /\ RemoveAt(s, i) \in Seq(T) /\ Len(RemoveAt(s, i)) = Len(s) - 1
         /\ \A k \in 1 .. Len(s) - 1 : RemoveAt(s, i)[k] = s[IF k < i THEN k ELSE k + 1]
<1> DEFINE a == SubSeq(s, 1, i - 1)
           b == SubSeq(s, i + 1, Len(s))
<1>1. /\ a \in Seq(T) /\ Len(a) = i - 1 /\ \A k \in 1 .. i - 1 : a[k] = s[k]
      /\ b \in Seq(T) /\ Len(b) = Len(s) - i /\ \A k \in 1 .. Len(s) - i : b[k] = s[i + k]
  OBVIOUS
<1>2. RemoveAt(s, i) = a \o b BY DEF RemoveAt
<1>3. Len(s) \in Nat /\ i \in Nat OBVIOUS
<1> HIDE DEF a, b
<1>4. /\ a \o b \in Seq(T) /\ Len(a \o b) = Len(s) - 1
      /\ \A k \in 1 .. Len(s) - 1 : (a \o b)[k] = IF k < i THEN a[k] ELSE b[k - (i - 1)]
  BY <1>1, <1>3
<1>5. ASSUME NEW k \in 1 .. Len(s) - 1 PROVE (a \o b)[k] = s[IF k < i THEN k ELSE k + 1]
  <2>1. CASE k < i BY <1>1, <1>3, <1>4, <2>1
  <2>2. CASE ~(k < i)
    <3>1. k - (i - 1) \in 1 .. Len(s) - i /\ i + (k - (i - 1)) = k + 1 BY <1>3, <2>2
    <3> QED BY <1>1, <1>4, <2>2, <3>1
  <2> QED BY <2>1, <2>2
<1> QED BY <1>2, <1>4, <1>5

\* PageAfter of the rows 1 .. c with these states.
Page(c, st, from) ==
  LET n == IF from >= c THEN 0 ELSE IF c - from < PageSize THEN c - from ELSE PageSize
  IN [i \in 1 .. n |-> [id |-> c - from - i + 1, state |-> st[c - from - i + 1]]]

\* A job has a state once it exists.
RowsExist(c, st) == \A j \in Jobs : j <= c <=> st[j] # "none"

\* A page holds the rows from an offset on, as many as there are.
LEMMA PageFacts ==
  ASSUME NEW c \in 0 .. MaxJobs, NEW st \in [Jobs -> States \cup {"none"}], RowsExist(c, st),
         NEW from \in Nat
  PROVE  /\ Page(c, st, from) \in Seq(Row)
         /\ Len(Page(c, st, from)) = IF from >= c THEN 0
                                     ELSE IF c - from < PageSize THEN c - from ELSE PageSize
         /\ \A i \in 1 .. Len(Page(c, st, from)) : Page(c, st, from)[i].id = c - from - i + 1
<1> DEFINE n == IF from >= c THEN 0 ELSE IF c - from < PageSize THEN c - from ELSE PageSize
           row(i) == [id |-> c - from - i + 1, state |-> st[c - from - i + 1]]
<1>1. n \in Nat /\ (n > 0 => c - from >= n) BY FeedAssumption
<1>2. ASSUME NEW i \in 1 .. n PROVE row(i) \in Row
  <2> HIDE DEF n
  <2>1. c - from - i + 1 \in Jobs /\ c - from - i + 1 <= c BY <1>1, FeedAssumption DEF Jobs
  <2> QED BY <2>1 DEF RowsExist, Row, States
<1>3. Page(c, st, from) = [i \in 1 .. n |-> row(i)] BY DEF Page
<1> HIDE DEF n
<1>4. Len([i \in 1 .. n |-> row(i)]) = n BY <1>1
<1>5. [i \in 1 .. n |-> row(i)] \in Seq(Row) BY <1>1, <1>2
<1>6. \A i \in 1 .. n : [k \in 1 .. n |-> row(k)][i].id = c - from - i + 1 OBVIOUS
<1>7. n = IF from >= c THEN 0 ELSE IF c - from < PageSize THEN c - from ELSE PageSize BY DEF n
<1> QED BY <1>3, <1>4, <1>5, <1>6, <1>7

\* Two answers to one request; one of them may be late.
Same(p, q) == \A f \in {"kind", "skip", "captured", "job", "poll", "page"} : p[f] = q[f]

\* What Consume leaves of the answers.
Left(s, i, news) ==
  RemoveAt([k \in 1 .. Len(s) |->
    IF news /\ (k < i \/ s[k].kind = "more") THEN [s[k] EXCEPT !.late = TRUE] ELSE s[k]], i)

\* Consume takes one answer away and at most marks the others as late.
LEMMA LeftFacts ==
  ASSUME NEW s \in Seq(Answers), NEW i \in 1 .. Len(s), NEW news \in BOOLEAN
  PROVE  /\ Left(s, i, news) \in Seq(Answers) /\ Len(Left(s, i, news)) = Len(s) - 1
         /\ \A k \in 1 .. Len(s) - 1 : \E m \in 1 .. Len(s) :
              m # i /\ Same(Left(s, i, news)[k], s[m])
         /\ \A m \in 1 .. Len(s) : m # i =>
              \E k \in 1 .. Len(s) - 1 : Same(Left(s, i, news)[k], s[m])
<1> DEFINE mark(k) == IF news /\ (k < i \/ s[k].kind = "more")
                      THEN [s[k] EXCEPT !.late = TRUE] ELSE s[k]
           t == [k \in 1 .. Len(s) |-> mark(k)]
<1>1. ASSUME NEW k \in 1 .. Len(s) PROVE mark(k) \in Answers /\ Same(mark(k), s[k])
  <2>1. s[k] \in Answers OBVIOUS
  <2> QED BY <2>1 DEF Answers, Same
<1>2. t \in Seq(Answers) /\ Len(t) = Len(s) BY <1>1
<1>3. \A k \in 1 .. Len(s) : Same(t[k], s[k]) BY <1>1
<1>4. Left(s, i, news) = RemoveAt(t, i) BY DEF Left
<1> HIDE DEF t
<1>5. /\ RemoveAt(t, i) \in Seq(Answers) /\ Len(RemoveAt(t, i)) = Len(s) - 1
      /\ \A k \in 1 .. Len(s) - 1 : RemoveAt(t, i)[k] = t[IF k < i THEN k ELSE k + 1]
  BY <1>2, RemoveAtFacts
<1>6. ASSUME NEW k \in 1 .. Len(s) - 1
      PROVE  \E m \in 1 .. Len(s) : m # i /\ Same(RemoveAt(t, i)[k], s[m])
  <2>1. (IF k < i THEN k ELSE k + 1) \in 1 .. Len(s) OBVIOUS
  <2>2. (IF k < i THEN k ELSE k + 1) # i OBVIOUS
  <2> QED BY <2>1, <2>2, <1>3, <1>5
<1>7. ASSUME NEW m \in 1 .. Len(s), m # i
      PROVE  \E k \in 1 .. Len(s) - 1 : Same(RemoveAt(t, i)[k], s[m])
  <2>1. CASE m < i
    <3>1. m \in 1 .. Len(s) - 1 BY <2>1
    <3> QED BY <3>1, <2>1, <1>3, <1>5
  <2>2. CASE m > i
    <3>1. m - 1 \in 1 .. Len(s) - 1 /\ ~(m - 1 < i) /\ (m - 1) + 1 = m BY <2>2
    <3> QED BY <3>1, <1>3, <1>5
  <2> QED BY <1>7, <2>1, <2>2
<1> QED BY <1>4, <1>5, <1>6, <1>7

-----------------------------------------------------------------------------
(* Types, and who uses the socket.                                         *)

IInv == LiveTypeOK /\ RowsExist(created, state) /\ SocketServesItsUsers

\* What a step does to the rows of the backend.
EndsRow(j) ==
  /\ state[j] \in {"active", "orphan"}
  /\ state' = [state EXCEPT ![j] = "ended"]
  /\ UNCHANGED created

BoardMoves == UNCHANGED board \/ NewRow \/ \E j \in Jobs : EndsRow(j)

\* What it does to the socket and to those who use it.
SameUsers == UNCHANGED <<listening, tracked>>

WireMoves ==
  \/ SameUsers /\ events' \subseteq events \cup Jobs
     /\ UNCHANGED <<socket, closing, retryTimer, refCount, drops>>
  \/ Subscribe /\ ~listening /\ listening' = TRUE /\ UNCHANGED tracked
  \/ Subscribe /\ UNCHANGED listening /\ tracked = {} /\ tracked' # {}
  \/ Unsubscribe /\ UNCHANGED listening /\ tracked # {} /\ tracked' = {}
  \/ SameUsers /\ (SocketOpens \/ SocketDrops \/ OldSocketCloses \/ Reconnect)

\* The steps of the store.
LEMMA StoreMoves ==
  ASSUME IInv, StoreStep
  PROVE  BoardMoves /\ WireMoves
<1> USE DEF BoardMoves, WireMoves, SameUsers, board, wire, feedVars, pollVars, loop
<1>1. ASSUME NEW i \in 1 .. MaxRequests, TickAnswered(i) \/ MoreAnswered(i), UNCHANGED pollVars
      PROVE  BoardMoves /\ WireMoves
  BY <1>1 DEF TickAnswered, MoreAnswered, StopPolling
<1>2. ASSUME NEW i \in 1 .. MaxRequests, FetchAnswered(i) \/ RequestFails(i), UNCHANGED pollVars
      PROVE  BoardMoves /\ WireMoves
  <2>1. Continue(answers[i]) /\ UNCHANGED board BY <1>2 DEF FetchAnswered, RequestFails
  <2> QED BY <1>2, <2>1 DEF Continue, StartPolling
<1>3. ASSUME IntervalTick \/ RefreshTick \/ DeadlinePasses, UNCHANGED pollVars
      PROVE  BoardMoves /\ WireMoves
  BY <1>3 DEF IntervalTick, RefreshTick, Tick, DeadlinePasses
<1>4. ASSUME Refresh \/ LoadMoreJobs, UNCHANGED pollVars PROVE BoardMoves /\ WireMoves
  BY <1>4 DEF Refresh, LoadMoreJobs
<1>5. ASSUME SubmitJob \/ (\E j \in Jobs : RetryJob(j)), UNCHANGED pollVars
      PROVE  BoardMoves /\ WireMoves
  <2>1. CreateRow /\ UNCHANGED loop BY <1>5 DEF SubmitJob, RetryJob
  <2>2. created + 1 \in Jobs
    BY <2>1, FeedAssumption DEF CreateRow, NewRow, Jobs, IInv, LiveTypeOK, FeedTypeOK
  <2> QED BY <1>5, <2>1, <2>2 DEF CreateRow, Publish
<1>6. ASSUME RunAll, UNCHANGED pollVars PROVE BoardMoves /\ WireMoves
  BY <1>6 DEF RunAll, StartPolling
<1>7. ASSUME NEW j \in Jobs, CancelJob(j), UNCHANGED pollVars PROVE BoardMoves /\ WireMoves
  <2>1. EndJob(j) /\ UNCHANGED loop BY <1>7 DEF CancelJob
  <2> QED BY <1>7, <2>1 DEF EndJob, EndsRow, Publish
<1> HIDE DEF BoardMoves, WireMoves
<1> QED BY <1>1, <1>2, <1>3, <1>4, <1>5, <1>6, <1>7 DEF StoreStep

\* Every step.
LEMMA Moves ==
  ASSUME IInv, [LiveNext]_liveVars
  PROVE  BoardMoves /\ WireMoves
<1> USE DEF BoardMoves, WireMoves, SameUsers, board, wire, feedVars, storeVars, loop
<1>1. CASE StoreStep BY <1>1, StoreMoves
<1>2. CASE PollStep
  <2>1. ASSUME NEW ids \in SUBSET Jobs, MountPolling(ids), UNCHANGED storeVars
        PROVE  BoardMoves /\ WireMoves
    BY <2>1 DEF MountPolling
  <2>2. CASE UnmountPolling BY <1>2, <2>2 DEF UnmountPolling, PollStep
  <2>3. CASE IntervalRound \/ TimerRound
    BY <1>2, <2>3 DEF IntervalRound, TimerRound, StartRound, PollStep
  <2>4. ASSUME NEW k \in 1 .. MaxRounds, ShowRound(k), UNCHANGED storeVars
        PROVE  BoardMoves /\ WireMoves
    BY <2>4 DEF ShowRound
  <2>5. CASE OrphanRound \/ LateRound
    BY <1>2, <2>5 DEF OrphanRound, LateRound, PollStep
  <2> QED BY <1>2, <2>1, <2>2, <2>3, <2>4, <2>5 DEF PollStep
<1>3. CASE RowGoes BY <1>3 DEF RowGoes, DeleteRow
<1>4. CASE BackendStep
  <2>1. CASE CreateRow
    <3>1. created + 1 \in Jobs
      BY <2>1, FeedAssumption DEF CreateRow, NewRow, Jobs, IInv, LiveTypeOK, FeedTypeOK
    <3> QED BY <1>4, <2>1, <3>1 DEF CreateRow, Publish, BackendStep, pollVars
  <2>2. ASSUME NEW j \in Jobs, EndJob(j) PROVE BoardMoves /\ WireMoves
    BY <1>4, <2>2 DEF EndJob, EndsRow, Publish, BackendStep, pollVars
  <2> QED BY <1>4, <2>1, <2>2 DEF BackendStep
<1>5. CASE Opens BY <1>5 DEF Opens, StoreHears, PollStatus
<1>6. CASE Drops \/ OldCloses BY <1>6 DEF Drops, OldCloses, PollStatus
<1>7. CASE Retries BY <1>7 DEF Retries, pollVars
<1>8. ASSUME NEW j \in Jobs, Hears(j) PROVE BoardMoves /\ WireMoves
  BY <1>8 DEF Hears, EventArrives, StoreHears, PollHears
<1>9. CASE UNCHANGED liveVars BY <1>9 DEF liveVars, pollVars
<1> QED BY <1>1, <1>2, <1>3, <1>4, <1>5, <1>6, <1>7, <1>8, <1>9 DEF LiveNext

\* The rows of the backend stay typed, and their number never decreases.
LEMMA BoardTyped ==
  ASSUME IInv, [LiveNext]_liveVars
  PROVE  /\ created' \in 0 .. MaxJobs /\ created <= created'
         /\ state' \in [Jobs -> States \cup {"none"}]
         /\ RowsExist(created', state')
<1>1. /\ created \in 0 .. MaxJobs /\ state \in [Jobs -> States \cup {"none"}]
      /\ RowsExist(created, state)
  BY DEF IInv, LiveTypeOK, FeedTypeOK
<1>2. CASE UNCHANGED board BY <1>1, <1>2 DEF board
<1>3. CASE NewRow BY <1>1, <1>3, FeedAssumption DEF NewRow, RowsExist, Jobs, States
<1>4. ASSUME NEW j \in Jobs, EndsRow(j)
      PROVE  /\ created' \in 0 .. MaxJobs /\ created <= created'
             /\ state' \in [Jobs -> States \cup {"none"}]
             /\ RowsExist(created', state')
  BY <1>1, <1>4 DEF EndsRow, RowsExist, States
<1> QED BY <1>2, <1>3, <1>4, Moves DEF BoardMoves

\* The socket and its users.
LEMMA SocketTyped ==
  ASSUME IInv, [LiveNext]_liveVars, listening' \in BOOLEAN
  PROVE  FeedTypeOK' /\ SocketServesItsUsers'
<1> USE DEF SocketServesItsUsers, SameUsers
<1>1. FeedTypeOK /\ SocketServesItsUsers /\ listening \in BOOLEAN
  BY DEF IInv, LiveTypeOK, StoreTypeOK
<1>2. created' \in 0 .. MaxJobs /\ state' \in [Jobs -> States \cup {"none"}] BY BoardTyped
<1>3. WireMoves BY Moves
<1> USE DEF FeedTypeOK
<1>4. CASE SameUsers /\ events' \subseteq events \cup Jobs
           /\ UNCHANGED <<socket, closing, retryTimer, refCount, drops>>
  BY <1>1, <1>2, <1>4
<1>5. CASE Subscribe /\ ~listening /\ listening' = TRUE /\ UNCHANGED tracked
  BY <1>1, <1>2, <1>5 DEF Subscribe, Connected
<1>6. CASE Subscribe /\ UNCHANGED listening /\ tracked = {} /\ tracked' # {}
  BY <1>1, <1>2, <1>6 DEF Subscribe, Connected
<1>7. CASE Unsubscribe /\ UNCHANGED listening /\ tracked # {} /\ tracked' = {}
  <2>1. listening' = listening /\ refCount = (IF listening THEN 1 ELSE 0) + 1
    BY <1>1, <1>7
  <2>2. refCount' = (IF listening THEN 1 ELSE 0) BY <2>1, <1>1, <1>7 DEF Unsubscribe, LastUser
  <2>3. CASE listening
    <3>1. refCount = 2 BY <2>1, <2>3
    <3> QED BY <1>1, <1>2, <1>7, <2>1, <2>2, <2>3, <3>1 DEF Unsubscribe, LastUser
  <2>4. CASE ~listening
    <3>1. refCount = 1 BY <2>1, <2>4
    <3>2. closing' = (closing \/ socket # "none") BY <3>1, <1>7 DEF Unsubscribe, LastUser
    <3>3. closing' \in BOOLEAN BY <3>2
    <3>4. /\ socket' = "none" /\ retryTimer' = FALSE /\ events' = {}
          /\ drops' = drops /\ tracked' = {}
      BY <3>1, <1>7 DEF Unsubscribe, LastUser
    <3> HIDE DEF SocketServesItsUsers
    <3>5. SocketServesItsUsers' BY <2>1, <2>2, <2>4, <3>4 DEF SocketServesItsUsers
    <3> QED BY <1>1, <1>2, <2>2, <2>4, <3>3, <3>4, <3>5
  <2> QED BY <2>3, <2>4
<1>8. CASE SameUsers /\ SocketOpens BY <1>1, <1>2, <1>8 DEF SocketOpens
<1>9. CASE SameUsers /\ SocketDrops BY <1>1, <1>2, <1>9, FeedAssumption DEF SocketDrops
<1>10. CASE SameUsers /\ OldSocketCloses BY <1>1, <1>2, <1>10 DEF OldSocketCloses
<1>11. CASE SameUsers /\ Reconnect BY <1>1, <1>2, <1>11 DEF Reconnect, Connected
<1> QED BY <1>3, <1>4, <1>5, <1>6, <1>7, <1>8, <1>9, <1>10, <1>11 DEF WireMoves

\* The answer to a request sent when the rows were 1 .. c with states st.
Asked(c, st, kind, from, captured, job, poll) ==
  [kind |-> kind, skip |-> from, captured |-> captured, job |-> job, poll |-> poll,
   page |-> Page(c, st, from), late |-> FALSE]

\* A request that fits in keeps the answers typed.
LEMMA AskedTyped ==
  ASSUME NEW c \in 0 .. MaxJobs, NEW st \in [Jobs -> States \cup {"none"}], RowsExist(c, st),
         NEW w \in Seq(Answers), Len(w) < MaxRequests,
         NEW kind \in {"tick", "fetch", "more"}, NEW from \in Nat, NEW captured \in Seq(Row),
         NEW job \in Jobs \cup {0}, NEW poll \in BOOLEAN
  PROVE  LET a == Append(w, Asked(c, st, kind, from, captured, job, poll))
         IN  a \in Seq(Answers) /\ Len(a) <= MaxRequests
<1>1. Page(c, st, from) \in Seq(Row) BY PageFacts
<1>2. Asked(c, st, kind, from, captured, job, poll) \in Answers BY <1>1 DEF Asked, Answers
<1> HIDE DEF Answers
<1> QED BY <1>2, StoreAssumption

\* RunAll's list: every answer on its way is late.
AllLate(s) == [k \in 1 .. Len(s) |-> [s[k] EXCEPT !.late = TRUE]]

\* It changes nothing else.
LEMMA AllLateFacts ==
  ASSUME NEW s \in Seq(Answers)
  PROVE  /\ AllLate(s) \in Seq(Answers) /\ Len(AllLate(s)) = Len(s)
         /\ \A k \in 1 .. Len(s) : Same(AllLate(s)[k], s[k])
<1>1. ASSUME NEW k \in 1 .. Len(s)
      PROVE  [s[k] EXCEPT !.late = TRUE] \in Answers /\ Same([s[k] EXCEPT !.late = TRUE], s[k])
  <2>1. s[k] \in Answers OBVIOUS
  <2> QED BY <2>1 DEF Answers, Same
<1> QED BY <1>1 DEF AllLate

-----------------------------------------------------------------------------
(* What a step does to the list and to the answers on their way.           *)

Rests == UNCHANGED <<rows, requests, pending>> /\ lapses \subseteq lapses'

AsksTick ==
  /\ UNCHANGED <<rows, failures, pending, lapses>>
  /\ polling \/ refreshTimer
  /\ Len(answers) < MaxRequests
  /\ answers' = Append(answers, Asked(created', state', "tick", 0, << >>, 0, FALSE))

AsksFetch(w, job, poll) ==
  /\ isLoading' = TRUE /\ skip' = 0
  /\ UNCHANGED <<jobs, hasMore, failures>>
  /\ Len(w) < MaxRequests
  /\ answers' = Append(w, Asked(created', state', "fetch", 0, << >>, job, poll))
  /\ lapses' = IF LoadingMore THEN lapses \cup {"moved"} ELSE lapses
  /\ pending' = pending \cup ({job} \ {0})
  /\ poll => created' >= 1

AsksMore ==
  /\ ~isLoading /\ hasMore
  /\ UNCHANGED <<jobs, hasMore, skip, failures, pending, created>>
  /\ isLoading' = TRUE
  /\ Len(answers) < MaxRequests
  /\ answers' = Append(answers, Asked(created', state', "more", skip + PageSize, jobs, 0, FALSE))
  /\ lapses' = lapses \cup Moved(jobs, created)

Answered(i) == TickAnswered(i) \/ FetchAnswered(i) \/ MoreAnswered(i) \/ RequestFails(i)

ListMoves ==
  \/ Rests
  \/ \E i \in 1 .. Len(answers) : Answered(i)
  \/ AsksTick
  \/ \E w \in {answers, AllLate(answers)}, job \in Jobs \cup {0}, poll \in BOOLEAN :
       AsksFetch(w, job, poll)
  \/ AsksMore

\* The steps of the store.
LEMMA StoreListMoves ==
  ASSUME IInv, StoreStep
  PROVE  ListMoves
<1>0. created \in 0 .. MaxJobs BY DEF IInv, LiveTypeOK, FeedTypeOK
<1>1. ASSUME NEW i \in 1 .. MaxRequests, Answered(i) PROVE ListMoves
  <2>1. i \in 1 .. Len(answers)
    BY <1>1 DEF Answered, TickAnswered, FetchAnswered, MoreAnswered, RequestFails
  <2> QED BY <1>1, <2>1 DEF ListMoves
<1>2. ASSUME Tick, polling \/ refreshTimer PROVE ListMoves
  <2>1. CASE deadline = "passed"
    BY <1>2, <2>1 DEF Tick, ListMoves, Rests, requests, rows
  <2>2. CASE deadline # "passed"
    <3>1. AsksTick
      BY <1>2, <2>2 DEF Tick, AsksTick, Ask, PageAfter, Page, Asked
    <3> QED BY <3>1 DEF ListMoves
  <2> QED BY <2>1, <2>2
<1>3. CASE DeadlinePasses BY <1>3 DEF DeadlinePasses, ListMoves, Rests
<1>4. CASE Refresh
  <2>1. AsksFetch(answers, 0, FALSE)
    BY <1>4 DEF Refresh, FetchJobs, AsksFetch, Ask, PageAfter, Page, Asked
  <2> QED BY <2>1 DEF ListMoves
<1>5. CASE LoadMoreJobs
  <2>1. skip' = skip /\ created' = created
    BY <1>5 DEF LoadMoreJobs, feedVars, board
  <2>2. AsksMore
    BY <1>5, <2>1 DEF LoadMoreJobs, AsksMore, Ask, PageAfter, Page, Asked
  <2> QED BY <2>2 DEF ListMoves
<1>6. CASE SubmitJob
  <2>1. created' >= 1 BY <1>0, <1>6 DEF SubmitJob, CreateRow, NewRow
  <2>2. AsksFetch(answers, 0, TRUE)
    BY <1>6, <2>1 DEF SubmitJob, FetchJobs, AsksFetch, Ask, PageAfter, Page, Asked
  <2> QED BY <2>2 DEF ListMoves
<1>7. CASE RunAll
  <2>1. AsksFetch(AllLate(answers), 0, FALSE)
    BY <1>7 DEF RunAll, FetchJobs, AsksFetch, Ask, PageAfter, Page, Asked, AllLate
  <2> QED BY <2>1 DEF ListMoves
<1>8. ASSUME NEW j \in Jobs, CancelJob(j) PROVE ListMoves
  <2>1. {j} \ {0} = {j} BY DEF Jobs
  <2>2. AsksFetch(answers, j, FALSE)
    BY <1>8, <2>1 DEF CancelJob, FetchJobs, AsksFetch, Ask, PageAfter, Page, Asked
  <2> QED BY <2>2 DEF ListMoves
<1>9. ASSUME NEW j \in Jobs, RetryJob(j) PROVE ListMoves
  <2>1. {j} \ {0} = {j} BY DEF Jobs
  <2>2. created' >= 1 BY <1>0, <1>9 DEF RetryJob, CreateRow, NewRow
  <2>3. AsksFetch(answers, j, TRUE)
    BY <1>9, <2>1, <2>2 DEF RetryJob, FetchJobs, AsksFetch, Ask, PageAfter, Page, Asked
  <2> QED BY <2>3 DEF ListMoves
<1> QED BY <1>1, <1>2, <1>3, <1>4, <1>5, <1>6, <1>7, <1>8, <1>9
        DEF StoreStep, Answered, IntervalTick, RefreshTick

\* Only the store's own steps do more to the list than note a lapse.
LEMMA ListSteps ==
  ASSUME IInv, [LiveNext]_liveVars
  PROVE  ListMoves
<1> USE DEF Rests, storeVars
<1>1. CASE StoreStep BY <1>1, StoreListMoves
<1>2. CASE PollStep BY <1>2 DEF PollStep, ListMoves
<1>3. CASE RowGoes BY <1>3 DEF RowGoes, ListMoves
<1>4. CASE BackendStep BY <1>4 DEF BackendStep, ListMoves
<1>5. CASE Opens BY <1>5 DEF Opens, StoreHears, ListMoves
<1>6. CASE Drops \/ OldCloses \/ Retries BY <1>6 DEF Drops, OldCloses, Retries, ListMoves
<1>7. ASSUME NEW j \in Jobs, Hears(j) PROVE ListMoves BY <1>7 DEF Hears, StoreHears, ListMoves
<1>8. CASE UNCHANGED liveVars BY <1>8 DEF liveVars, ListMoves
<1> QED BY <1>1, <1>2, <1>3, <1>4, <1>5, <1>6, <1>7, <1>8 DEF LiveNext

\* The answer that Consume takes, and the others.
LEMMA Consumed ==
  ASSUME answers \in Seq(Answers), NEW i \in 1 .. Len(answers), NEW news \in BOOLEAN,
         Consume(i, news)
  PROVE  answers' = Left(answers, i, news)
BY DEF Consume, Left

\* Whatever the answer was for.
LEMMA AnsweredConsumes ==
  ASSUME answers \in Seq(Answers), NEW i \in 1 .. Len(answers), Answered(i)
  PROVE  \E news \in BOOLEAN : answers' = Left(answers, i, news)
<1>1. answers[i].poll \in BOOLEAN
  <2>1. answers[i] \in Answers OBVIOUS
  <2> QED BY <2>1 DEF Answers
<1>2. CASE TickAnswered(i) BY <1>2, Consumed DEF TickAnswered
<1>3. CASE FetchAnswered(i) BY <1>3, Consumed DEF FetchAnswered
<1>4. CASE MoreAnswered(i) BY <1>4, Consumed DEF MoreAnswered
<1>5. CASE RequestFails(i)
  <2>1. answers' = Left(answers, i, answers[i].poll) BY <1>5 DEF RequestFails, Consume, Left
  <2> QED BY <1>1, <2>1
<1> QED BY <1>2, <1>3, <1>4, <1>5 DEF Answered

\* The answers stay typed and bounded.
LEMMA AnswersTyped ==
  ASSUME IInv, [LiveNext]_liveVars
  PROVE  answers' \in Seq(Answers) /\ Len(answers') <= MaxRequests
<1>1. /\ answers \in Seq(Answers) /\ Len(answers) <= MaxRequests
      /\ jobs \in Seq(Row) /\ skip \in Nat
  BY DEF IInv, LiveTypeOK, StoreTypeOK
<1>2. /\ created' \in 0 .. MaxJobs /\ state' \in [Jobs -> States \cup {"none"}]
      /\ RowsExist(created', state')
  BY BoardTyped
<1>3. CASE Rests BY <1>1, <1>3 DEF Rests, requests
<1>4. ASSUME NEW i \in 1 .. Len(answers), Answered(i)
      PROVE  answers' \in Seq(Answers) /\ Len(answers') <= MaxRequests
  <2>1. PICK news \in BOOLEAN : answers' = Left(answers, i, news)
    BY <1>1, <1>4, AnsweredConsumes
  <2>2. answers' \in Seq(Answers) /\ Len(answers') = Len(answers) - 1
    BY <1>1, <2>1, LeftFacts
  <2> QED BY <1>1, <2>2, StoreAssumption
<1>5. CASE AsksTick
  <2>1. << >> \in Seq(Row) OBVIOUS
  <2> QED BY <1>1, <1>2, <1>5, <2>1, AskedTyped DEF AsksTick
<1>6. ASSUME NEW w \in {answers, AllLate(answers)}, NEW job \in Jobs \cup {0},
             NEW poll \in BOOLEAN, AsksFetch(w, job, poll)
      PROVE  answers' \in Seq(Answers) /\ Len(answers') <= MaxRequests
  <2>1. << >> \in Seq(Row) OBVIOUS
  <2>2. w \in Seq(Answers) BY <1>1, AllLateFacts
  <2> QED BY <1>2, <1>6, <2>1, <2>2, AskedTyped DEF AsksFetch
<1>7. CASE AsksMore
  <2>1. skip + PageSize \in Nat BY <1>1, FeedAssumption
  <2> QED BY <1>1, <1>2, <1>7, <2>1, AskedTyped DEF AsksMore
<1> QED BY <1>3, <1>4, <1>5, <1>6, <1>7, ListSteps DEF ListMoves

\* The list stays typed.
LEMMA RowsTyped ==
  ASSUME IInv, [LiveNext]_liveVars
  PROVE  /\ jobs' \in Seq(Row) /\ isLoading' \in BOOLEAN /\ hasMore' \in BOOLEAN /\ skip' \in Nat
         /\ pending' \subseteq Jobs /\ failures' \in 0 .. MaxFailures
<1> USE StoreAssumption
<1>1. /\ jobs \in Seq(Row) /\ isLoading \in BOOLEAN /\ hasMore \in BOOLEAN /\ skip \in Nat
      /\ pending \subseteq Jobs /\ failures \in 0 .. MaxFailures
      /\ answers \in Seq(Answers)
  BY DEF IInv, LiveTypeOK, StoreTypeOK
<1>2. CASE Rests BY <1>1, <1>2 DEF Rests, rows, requests
<1>3. ASSUME NEW i \in 1 .. Len(answers), Answered(i)
      PROVE  /\ jobs' \in Seq(Row) /\ isLoading' \in BOOLEAN /\ hasMore' \in BOOLEAN
             /\ skip' \in Nat /\ pending' \subseteq Jobs /\ failures' \in 0 .. MaxFailures
  <2>1. answers[i] \in Answers BY <1>1
  <2>2. /\ answers[i].page \in Seq(Row) /\ answers[i].captured \in Seq(Row)
        /\ answers[i].skip \in Nat
    BY <2>1 DEF Answers
  <2>3. CASE TickAnswered(i)
    <3>1. CASE Len(jobs) <= PageSize BY <1>1, <2>2, <2>3, <3>1 DEF TickAnswered
    <3>2. CASE ~(Len(jobs) <= PageSize)
      <4>1. SubSeq(jobs, PageSize + 1, Len(jobs)) \in Seq(Row)
        BY <1>1, <3>2, FeedAssumption
      <4> QED BY <1>1, <2>2, <2>3, <3>2, <4>1 DEF TickAnswered
    <3> QED BY <3>1, <3>2
  <2>4. CASE FetchAnswered(i) BY <1>1, <2>2, <2>4 DEF FetchAnswered, Continue
  <2>5. CASE MoreAnswered(i)
    <3>1. answers[i].captured \o answers[i].page \in Seq(Row) BY <2>2
    <3> QED BY <1>1, <2>2, <2>5, <3>1 DEF MoreAnswered
  <2>6. CASE RequestFails(i)
    <3>1. isLoading' \in BOOLEAN BY <2>6 DEF RequestFails
    <3> QED BY <1>1, <2>6, <3>1 DEF RequestFails, Continue
  <2> QED BY <1>3, <2>3, <2>4, <2>5, <2>6 DEF Answered
<1>4. CASE AsksTick BY <1>1, <1>4 DEF AsksTick, rows
<1>5. ASSUME NEW w \in {answers, AllLate(answers)}, NEW job \in Jobs \cup {0},
             NEW poll \in BOOLEAN, AsksFetch(w, job, poll)
      PROVE  /\ jobs' \in Seq(Row) /\ isLoading' \in BOOLEAN /\ hasMore' \in BOOLEAN
             /\ skip' \in Nat /\ pending' \subseteq Jobs /\ failures' \in 0 .. MaxFailures
  BY <1>1, <1>5 DEF AsksFetch
<1>6. CASE AsksMore BY <1>1, <1>6 DEF AsksMore
<1> QED BY <1>2, <1>3, <1>4, <1>5, <1>6, ListSteps DEF ListMoves

\* The loop runs, and is asked to run, only once a job exists.
Started == polling \/ refreshTimer \/ listening

LoopTyped ==
  /\ polling \in BOOLEAN /\ deadline \in {"none", "armed", "passed"}
  /\ listening \in BOOLEAN /\ refreshTimer \in BOOLEAN
  /\ mine \subseteq Jobs /\ lapses \subseteq Lapses

\* The loop stays typed.
LEMMA LoopStep ==
  ASSUME IInv, [LiveNext]_liveVars
  PROVE  LoopTyped'
<1> USE DEF LoopTyped, loop, storeVars
<1>1. LoopTyped /\ created \in 0 .. MaxJobs
  BY DEF IInv, LiveTypeOK, StoreTypeOK, FeedTypeOK
<1>2. Moved(jobs, created) \subseteq Lapses BY DEF Moved, Lapses
<1>3. CASE StoreStep
  <2>1. ASSUME NEW i \in 1 .. MaxRequests, Answered(i) PROVE LoopTyped'
    <3>1. Noted(answers[i]) \subseteq Lapses BY DEF Noted, Lapses
    <3>2. CASE TickAnswered(i)
      <4>1. lapses' \subseteq Lapses BY <1>1, <3>1, <3>2 DEF TickAnswered, Moved, Lapses
      <4> QED BY <1>1, <3>2, <4>1 DEF TickAnswered, StopPolling
    <3>3. CASE FetchAnswered(i)
      <4>1. lapses' \subseteq Lapses BY <1>1, <3>1, <3>3 DEF FetchAnswered, Lapses
      <4>2. refreshTimer' \in BOOLEAN
        BY <1>1, <3>3 DEF FetchAnswered, Continue, StartPolling
      <4> QED BY <1>1, <3>3, <4>1, <4>2 DEF FetchAnswered, Continue, StartPolling
    <3>4. CASE MoreAnswered(i) BY <1>1, <3>1, <3>4 DEF MoreAnswered
    <3>5. CASE RequestFails(i)
      <4>1. lapses' \subseteq Lapses BY <1>1, <3>5 DEF RequestFails, Lapses
      <4>2. refreshTimer' \in BOOLEAN
        BY <1>1, <3>5 DEF RequestFails, Continue, StartPolling
      <4> QED BY <1>1, <3>5, <4>1, <4>2 DEF RequestFails, Continue, StartPolling
    <3> QED BY <2>1, <3>2, <3>3, <3>4, <3>5 DEF Answered
  <2>2. CASE IntervalTick \/ RefreshTick
    BY <1>1, <2>2 DEF IntervalTick, RefreshTick, Tick, StopPolling
  <2>3. CASE DeadlinePasses BY <1>1, <2>3 DEF DeadlinePasses, Lapses
  <2>4. CASE Refresh BY <1>1, <2>4 DEF Refresh, FetchJobs, Lapses
  <2>5. CASE LoadMoreJobs BY <1>1, <1>2, <2>5 DEF LoadMoreJobs
  <2>6. CASE SubmitJob \/ RunAll
    <3>0. NewRow BY <2>6 DEF SubmitJob, RunAll, CreateRow
    <3>1. created + 1 \in Jobs BY <1>1, <3>0, FeedAssumption DEF NewRow, Jobs
    <3>2. mine' \subseteq Jobs BY <1>1, <2>6, <3>1 DEF SubmitJob, RunAll
    <3>3. lapses' \subseteq Lapses BY <1>1, <2>6 DEF SubmitJob, RunAll, FetchJobs, Lapses
    <3>4. refreshTimer' \in BOOLEAN BY <1>1, <2>6 DEF SubmitJob, RunAll, StartPolling
    <3> QED BY <1>1, <2>6, <3>2, <3>3, <3>4 DEF SubmitJob, RunAll, StartPolling
  <2>7. ASSUME NEW j \in Jobs, CancelJob(j) PROVE LoopTyped'
    BY <1>1, <2>7 DEF CancelJob, FetchJobs, Lapses
  <2>8. ASSUME NEW j \in Jobs, RetryJob(j) PROVE LoopTyped'
    <3>1. created + 1 \in Jobs
      BY <1>1, <2>8, FeedAssumption DEF RetryJob, CreateRow, NewRow, Jobs
    <3> QED BY <1>1, <2>8, <3>1 DEF RetryJob, FetchJobs, Lapses
  <2> QED BY <1>3, <2>1, <2>2, <2>3, <2>4, <2>5, <2>6, <2>7, <2>8 DEF StoreStep, Answered
<1>4. CASE RowGoes BY <1>1, <1>4 DEF RowGoes, Lapses
<1>5. CASE PollStep \/ BackendStep \/ Drops \/ OldCloses \/ Retries \/ UNCHANGED liveVars
  BY <1>1, <1>5 DEF PollStep, BackendStep, Drops, OldCloses, Retries, liveVars
<1>6. ASSUME StoreHears PROVE LoopTyped'
  <2>1. refreshTimer' \in BOOLEAN BY <1>6 DEF StoreHears
  <2> QED BY <1>1, <1>6, <2>1 DEF StoreHears
<1> QED BY <1>3, <1>4, <1>5, <1>6 DEF LiveNext, Opens, Hears

\* The polled jobs stay typed.
LEMMA PollStepTyped ==
  ASSUME IInv, [LiveNext]_liveVars
  PROVE  PollTypeOK'
<1> USE DEF PollTypeOK, pollVars, leftBehind
<1>1. PollTypeOK /\ created \in 0 .. MaxJobs BY DEF IInv, LiveTypeOK, FeedTypeOK
<1>2. CASE StoreStep \/ BackendStep \/ Retries \/ UNCHANGED liveVars
  BY <1>1, <1>2 DEF StoreStep, BackendStep, Retries, liveVars
<1>3. CASE RowGoes BY <1>1, <1>3 DEF RowGoes, DeleteRow
<1>4. ASSUME NEW open \in BOOLEAN, PollStatus(open) PROVE PollTypeOK'
  <2>1. timer' \in BOOLEAN BY <1>1, <1>4 DEF PollStatus
  <2> QED BY <1>1, <1>4, <2>1 DEF PollStatus
<1>5. ASSUME NEW j \in Jobs, PollHears(j) PROVE PollTypeOK'
  <2>1. timer' \in BOOLEAN BY <1>5 DEF PollHears
  <2> QED BY <1>1, <1>5, <2>1 DEF PollHears
\* A round's failures are counted.
<1>6. ASSUME NEW ids \in SUBSET Jobs, NEW answer \in Answer, Round(ids, answer)
      PROVE  errors' \in 0 .. MaxErrors
  <2> DEFINE failed == {j \in ids \ gone : answer[j] = "failed"}
  <2>1. IsFiniteSet(Jobs) BY FeedAssumption, FS_Interval DEF Jobs
  <2>2. failed \subseteq Jobs OBVIOUS
  <2>3. Cardinality(failed) \in Nat BY <2>1, <2>2, FS_Subset, FS_CardinalityType
  <2> HIDE DEF failed
  <2>4. errors' = errors + Cardinality(failed) /\ errors' <= MaxErrors BY <1>6 DEF Round, failed
  <2> QED BY <1>1, <2>3, <2>4, PollingAssumption
<1>7. CASE PollStep
  <2>1. ASSUME NEW ids \in SUBSET Jobs, MountPolling(ids) PROVE PollTypeOK'
    <3>1. PICK answer \in Answer : Round(ids, answer) /\ rounds' = <<answer>>
      BY <2>1 DEF MountPolling
    <3>2. rounds' \in Seq(Answer) BY <3>1
    <3>3. connected' \in BOOLEAN /\ timer' \in BOOLEAN BY <2>1 DEF MountPolling
    <3> QED BY <1>1, <1>6, <2>1, <3>1, <3>2, <3>3 DEF MountPolling
  <2>2. CASE UnmountPolling
    <3>1. << >> \in Seq(Answer) OBVIOUS
    <3>2. orphan' \in BOOLEAN /\ late' \in BOOLEAN BY <2>2 DEF UnmountPolling
    <3>3. aggregate' \in {"idle", "running", "over"} /\ misses' \in [Jobs -> Nat]
      BY <1>1, <2>2 DEF UnmountPolling
    <3>4. UNCHANGED <<gone, errors, lapsed>> BY <2>2 DEF UnmountPolling
    <3>5. /\ tracked' = {} /\ rounds' = << >>
          /\ interval' = FALSE /\ connected' = FALSE /\ timer' = FALSE
      BY <2>2 DEF UnmountPolling
    <3> QED BY <1>1, <3>1, <3>2, <3>3, <3>4, <3>5
  <2>3. CASE IntervalRound \/ TimerRound
    <3>1. StartRound /\ timer' \in BOOLEAN BY <1>1, <2>3 DEF IntervalRound, TimerRound
    <3>2. PICK answer \in Answer : Round(tracked, answer) /\ rounds' = Append(rounds, answer)
      BY <3>1 DEF StartRound
    <3>3. rounds' \in Seq(Answer) BY <1>1, <3>2
    <3>4. errors' \in 0 .. MaxErrors BY <1>1, <1>6, <3>2
    <3> QED BY <1>1, <3>1, <3>3, <3>4 DEF StartRound
  <2>4. ASSUME NEW k \in 1 .. MaxRounds, ShowRound(k) PROVE PollTypeOK'
    <3>1. k \in 1 .. Len(rounds) BY <2>4 DEF ShowRound
    <3>2. rounds' \in Seq(Answer) BY <1>1, <2>4, <3>1, RemoveAtFacts DEF ShowRound
    <3>3. misses' \in [Jobs -> Nat]
      <4>1. misses' = Missed(rounds[k]) BY <2>4 DEF ShowRound
      <4> QED BY <1>1, <4>1 DEF Missed
    <3>4. aggregate' \in {"idle", "running", "over"}
      <4>1. aggregate' \in Verdict(rounds[k]).says BY <2>4 DEF ShowRound
      <4>2. Verdict(rounds[k]).says \subseteq {"running", "over"} BY DEF Verdict
      <4> QED BY <4>1, <4>2
    <3>5. interval' \in BOOLEAN /\ lapsed' \in BOOLEAN BY <2>4 DEF ShowRound
    <3> HIDE DEF PollTypeOK
    <3>6. UNCHANGED <<tracked, connected, timer, gone, errors, orphan, late>> BY <2>4 DEF ShowRound
    <3> QED BY <1>1, <3>2, <3>3, <3>4, <3>5, <3>6 DEF PollTypeOK
  <2>5. ASSUME NEW read \in Answer PROVE Missed(read) \in [Jobs -> Nat] BY <1>1 DEF Missed
  <2>6. CASE OrphanRound
    <3>1. PICK answer \in Answer : Round(tracked, answer) /\ misses' = Missed(answer)
      BY <2>6 DEF OrphanRound
    <3>2. errors' \in 0 .. MaxErrors BY <1>1, <1>6, <3>1
    <3>3. misses' \in [Jobs -> Nat] BY <2>5, <3>1
    <3> QED BY <1>1, <2>6, <3>2, <3>3 DEF OrphanRound
  <2>7. CASE LateRound
    <3>1. misses' \in [Jobs -> Nat] BY <2>5, <2>7 DEF LateRound
    <3> QED BY <1>1, <2>7, <3>1 DEF LateRound
  <2> QED BY <1>7, <2>1, <2>2, <2>3, <2>4, <2>6, <2>7 DEF PollStep
<1> QED BY <1>2, <1>3, <1>4, <1>5, <1>7 DEF LiveNext, Opens, Drops, OldCloses, Hears

\* IInv is inductive.
LEMMA IInvStep == IInv /\ [LiveNext]_liveVars => IInv'
<1> SUFFICES ASSUME IInv, [LiveNext]_liveVars PROVE IInv' OBVIOUS
<1>1. LoopTyped' BY LoopStep
<1>2. FeedTypeOK' /\ SocketServesItsUsers' BY <1>1, SocketTyped DEF LoopTyped
<1>3. StoreTypeOK' BY <1>1, AnswersTyped, RowsTyped DEF StoreTypeOK, LoopTyped
<1> QED BY <1>2, <1>3, BoardTyped, PollStepTyped DEF IInv, LiveTypeOK

LEMMA InitIInv == LiveInit => IInv
<1> SUFFICES ASSUME LiveInit PROVE IInv OBVIOUS
<1> USE DEF LiveInit
<1>1. FeedTypeOK /\ RowsExist(created, state)
  <2>1. created \in 0 .. MaxJobs /\ drops \in 0 .. MaxDrops /\ refCount \in Nat
    BY FeedAssumption DEF FeedInit
  <2>2. state \in [Jobs -> States \cup {"none"}] BY DEF FeedInit, States
  <2>3. RowsExist(created, state) BY DEF FeedInit, RowsExist
  <2> QED BY <2>1, <2>2, <2>3 DEF FeedInit, FeedTypeOK
<1>2. StoreTypeOK
  <2>1. jobs \in Seq(Row) /\ answers \in Seq(Answers) /\ Len(answers) <= MaxRequests
    BY StoreAssumption DEF StoreInit
  <2>2. skip \in Nat /\ failures \in 0 .. MaxFailures BY StoreAssumption DEF StoreInit
  <2> QED BY <2>1, <2>2 DEF StoreInit, StoreTypeOK
<1>3. PollTypeOK
  <2>1. rounds \in Seq(Answer) /\ misses \in [Jobs -> Nat] BY DEF PollInit
  <2>2. errors \in 0 .. MaxErrors BY PollingAssumption DEF PollInit
  <2> QED BY <2>1, <2>2 DEF PollInit, PollTypeOK
<1>4. SocketServesItsUsers BY DEF SocketServesItsUsers, FeedInit, StoreInit, PollInit
<1> QED BY <1>1, <1>2, <1>3, <1>4 DEF IInv, LiveTypeOK

-----------------------------------------------------------------------------
(* What is waited for.                                                     *)

\* Only fetchJobs ends an action or starts the loop; the loop is for a job.
AskedInv(q, c) ==
  /\ q.kind # "fetch" => q.job = 0 /\ ~q.poll
  /\ q.poll => c >= 1
  /\ q.kind = "tick" => q.page # << >>

WaitInv ==
  /\ IInv /\ BusyWhileAwaited
  /\ Started => created >= 1
  /\ \A i \in 1 .. Len(answers) : AskedInv(answers[i], created)

\* Nothing starts the loop before a job exists.
LEMMA StartedStep ==
  ASSUME WaitInv, [LiveNext]_liveVars
  PROVE  Started' => created' >= 1
<1> USE DEF Started, loop, storeVars
<1>1. /\ IInv /\ created \in 0 .. MaxJobs
      /\ Started => created >= 1
      /\ \A i \in 1 .. Len(answers) : AskedInv(answers[i], created)
  BY DEF WaitInv, IInv, LiveTypeOK, FeedTypeOK
<1>2. created' \in Nat /\ created <= created' BY <1>1, BoardTyped
<1>3. ASSUME Started' => Started PROVE Started' => created' >= 1 BY <1>1, <1>2, <1>3
<1>4. ASSUME StoreHears PROVE Started' => created' >= 1
  <2>1. Started' => Started BY <1>4 DEF StoreHears
  <2> QED BY <1>3, <2>1
<1>5. CASE StoreStep
  <2>1. ASSUME NEW i \in 1 .. MaxRequests, TickAnswered(i) \/ MoreAnswered(i)
        PROVE  Started' => created' >= 1
    <3>1. Started' => Started BY <2>1 DEF TickAnswered, MoreAnswered, StopPolling
    <3> QED BY <1>3, <3>1
  <2>2. ASSUME NEW i \in 1 .. MaxRequests, FetchAnswered(i) \/ RequestFails(i)
        PROVE  Started' => created' >= 1
    <3>1. Continue(answers[i]) /\ i \in 1 .. Len(answers)
      BY <2>2 DEF FetchAnswered, RequestFails
    <3>2. CASE answers[i].poll BY <1>1, <1>2, <3>1, <3>2 DEF AskedInv
    <3>3. CASE ~answers[i].poll BY <1>3, <3>1, <3>3 DEF Continue
    <3> QED BY <3>2, <3>3
  <2>3. CASE IntervalTick \/ RefreshTick \/ DeadlinePasses
    <3>1. Started' => Started
      BY <2>3 DEF IntervalTick, RefreshTick, Tick, StopPolling, DeadlinePasses
    <3> QED BY <1>3, <3>1
  <2>4. CASE RunAll BY <1>1, <2>4 DEF RunAll, NewRow
  <2>5. ASSUME NEW j \in Jobs, CancelJob(j) \/ RetryJob(j) PROVE Started' => created' >= 1
    BY <1>3, <2>5 DEF CancelJob, RetryJob
  <2>6. ASSUME Refresh \/ LoadMoreJobs \/ SubmitJob PROVE Started' => created' >= 1
    BY <1>3, <2>6 DEF Refresh, LoadMoreJobs, SubmitJob
  <2> QED BY <1>5, <2>1, <2>2, <2>3, <2>4, <2>5, <2>6 DEF StoreStep
<1>6. CASE RowGoes BY <1>3, <1>6 DEF RowGoes
<1>7. CASE PollStep \/ BackendStep \/ Drops \/ OldCloses \/ Retries \/ UNCHANGED liveVars
  BY <1>3, <1>7 DEF PollStep, BackendStep, Drops, OldCloses, Retries, liveVars
<1> QED BY <1>4, <1>5, <1>6, <1>7 DEF LiveNext, Opens, Hears

\* An answer that is still on its way is one that was, or the one asked for now.
LEMMA AskedStep ==
  ASSUME WaitInv, [LiveNext]_liveVars
  PROVE  \A k \in 1 .. Len(answers') : AskedInv(answers'[k], created')
<1>1. /\ IInv /\ answers \in Seq(Answers) /\ jobs \in Seq(Row) /\ skip \in Nat
      /\ created \in 0 .. MaxJobs
      /\ Started => created >= 1
      /\ \A i \in 1 .. Len(answers) : AskedInv(answers[i], created)
  BY DEF WaitInv, IInv, LiveTypeOK, FeedTypeOK, StoreTypeOK
<1>2. /\ created' \in 0 .. MaxJobs /\ state' \in [Jobs -> States \cup {"none"}]
      /\ RowsExist(created', state') /\ created <= created'
  BY <1>1, BoardTyped
<1>3. ASSUME NEW p, NEW q, Same(p, q), AskedInv(q, created) PROVE AskedInv(p, created')
  BY <1>1, <1>2, <1>3 DEF Same, AskedInv
<1>4. \A i \in 1 .. Len(answers) : AskedInv(answers[i], created')
  BY <1>1, <1>2 DEF AskedInv
<1>5. CASE Rests BY <1>4, <1>5 DEF Rests, requests
<1>6. ASSUME NEW i \in 1 .. Len(answers), Answered(i)
      PROVE  \A k \in 1 .. Len(answers') : AskedInv(answers'[k], created')
  <2>1. PICK news \in BOOLEAN : answers' = Left(answers, i, news)
    BY <1>1, <1>6, AnsweredConsumes
  <2>2. /\ Len(answers') = Len(answers) - 1
        /\ \A k \in 1 .. Len(answers) - 1 :
             \E m \in 1 .. Len(answers) : m # i /\ Same(answers'[k], answers[m])
    BY <1>1, <2>1, LeftFacts
  <2> QED BY <1>1, <1>3, <2>2
<1>7. ASSUME NEW w \in Seq(Answers), \A k \in 1 .. Len(w) : AskedInv(w[k], created'),
             NEW q, AskedInv(q, created'), answers' = Append(w, q)
      PROVE  \A k \in 1 .. Len(answers') : AskedInv(answers'[k], created')
  BY <1>7
<1>8. CASE AsksTick
  <2>1. 0 \in Nat /\ created' >= 1 BY <1>1, <1>2, <1>8 DEF AsksTick, Started
  <2>2. Len(Page(created', state', 0)) # 0 BY <1>2, <2>1, PageFacts, FeedAssumption
  <2>3. Page(created', state', 0) # << >> BY <2>2
  <2>4. AskedInv(Asked(created', state', "tick", 0, << >>, 0, FALSE), created')
    BY <2>3 DEF AskedInv, Asked
  <2> QED BY <1>1, <1>4, <1>7, <1>8, <2>4 DEF AsksTick
<1>9. ASSUME NEW w \in {answers, AllLate(answers)}, NEW job \in Jobs \cup {0},
             NEW poll \in BOOLEAN, AsksFetch(w, job, poll)
      PROVE  \A k \in 1 .. Len(answers') : AskedInv(answers'[k], created')
  <2>1. w \in Seq(Answers) /\ \A k \in 1 .. Len(w) : AskedInv(w[k], created')
    BY <1>1, <1>3, <1>4, AllLateFacts
  <2>2. AskedInv(Asked(created', state', "fetch", 0, << >>, job, poll), created')
    BY <1>9 DEF AskedInv, Asked, AsksFetch
  <2> QED BY <1>7, <1>9, <2>1, <2>2 DEF AsksFetch
<1>10. CASE AsksMore
  <2>1. AskedInv(Asked(created', state', "more", skip + PageSize, jobs, 0, FALSE), created')
    BY DEF AskedInv, Asked
  <2> QED BY <1>1, <1>4, <1>7, <1>10, <2>1 DEF AsksMore
<1> QED BY <1>1, <1>5, <1>6, <1>8, <1>9, <1>10, ListSteps DEF ListMoves

\* A step that ends a wait ends no other, and one that begins it asks.
LEMMA BusyStep ==
  ASSUME WaitInv, [LiveNext]_liveVars
  PROVE  BusyWhileAwaited'
<1> DEFINE Rows(s) == \E k \in 1 .. Len(s) : s[k].kind # "tick"
           For(s, j) == \E k \in 1 .. Len(s) : s[k].job = j
<1>1. /\ IInv /\ answers \in Seq(Answers) /\ jobs \in Seq(Row) /\ skip \in Nat
      /\ pending \subseteq Jobs /\ BusyWhileAwaited
      /\ \A i \in 1 .. Len(answers) : AskedInv(answers[i], created)
  BY DEF WaitInv, IInv, LiveTypeOK, FeedTypeOK, StoreTypeOK
<1>2. (isLoading => Rows(answers)) /\ \A j \in pending : For(answers, j)
  BY <1>1 DEF BusyWhileAwaited
<1>3. SUFFICES (isLoading' => Rows(answers')) /\ \A j \in pending' : For(answers', j)
  BY DEF BusyWhileAwaited
<1>4. CASE Rests BY <1>2, <1>4 DEF Rests, rows, requests
<1>5. ASSUME NEW i \in 1 .. Len(answers), Answered(i)
      PROVE  (isLoading' => Rows(answers')) /\ \A j \in pending' : For(answers', j)
  <2>1. PICK news \in BOOLEAN : answers' = Left(answers, i, news)
    BY <1>1, <1>5, AnsweredConsumes
  <2>2. /\ Len(answers') = Len(answers) - 1
        /\ \A m \in 1 .. Len(answers) : m # i =>
             \E k \in 1 .. Len(answers) - 1 : Same(answers'[k], answers[m])
    BY <1>1, <2>1, LeftFacts
  <2>3. isLoading' => isLoading /\ answers[i].kind = "tick"
    BY <1>5 DEF Answered, TickAnswered, FetchAnswered, MoreAnswered, RequestFails
  <2>4. \A j \in pending' : j \in pending /\ j # answers[i].job
    <3>1. CASE TickAnswered(i) \/ MoreAnswered(i)
      <4>1. pending' = pending /\ answers[i].kind # "fetch"
        BY <3>1 DEF TickAnswered, MoreAnswered
      <4>2. answers[i].job = 0 BY <1>1, <4>1 DEF AskedInv
      <4> QED BY <1>1, <4>1, <4>2 DEF Jobs
    <3>2. CASE FetchAnswered(i) \/ RequestFails(i)
      BY <3>2 DEF FetchAnswered, RequestFails, Continue
    <3> QED BY <1>5, <3>1, <3>2 DEF Answered
  <2>5. ASSUME isLoading' PROVE Rows(answers')
    <3>1. PICK m \in 1 .. Len(answers) : answers[m].kind # "tick" BY <1>2, <2>3, <2>5
    <3>2. m # i BY <2>3, <2>5, <3>1
    <3>3. PICK k \in 1 .. Len(answers) - 1 : Same(answers'[k], answers[m]) BY <2>2, <3>2
    <3> QED BY <2>2, <3>1, <3>3 DEF Same
  <2>6. ASSUME NEW j \in pending' PROVE For(answers', j)
    <3>1. PICK m \in 1 .. Len(answers) : answers[m].job = j BY <1>2, <2>4
    <3>2. m # i BY <2>4, <3>1
    <3>3. PICK k \in 1 .. Len(answers) - 1 : Same(answers'[k], answers[m]) BY <2>2, <3>2
    <3> QED BY <2>2, <3>1, <3>3 DEF Same
  <2> QED BY <2>5, <2>6
\* An answer behind those that wait already.
<1>6. ASSUME NEW w \in Seq(Answers), NEW q, answers' = Append(w, q)
      PROVE  /\ Rows(w) \/ q.kind # "tick" => Rows(answers')
             /\ \A j : For(w, j) \/ q.job = j => For(answers', j)
  <2>1. Len(answers') = Len(w) + 1 /\ answers'[Len(w) + 1] = q BY <1>6
  <2>2. \A k \in 1 .. Len(w) : answers'[k] = w[k] /\ k \in 1 .. Len(answers') BY <1>6
  <2>3. Len(w) + 1 \in 1 .. Len(answers') BY <2>1
  <2> QED BY <2>1, <2>2, <2>3
<1>7. CASE AsksTick
  <2>1. isLoading' = isLoading /\ pending' = pending BY <1>7 DEF AsksTick, rows
  <2> QED BY <1>1, <1>2, <1>6, <1>7, <2>1 DEF AsksTick
<1>8. ASSUME NEW w \in {answers, AllLate(answers)}, NEW job \in Jobs \cup {0},
             NEW poll \in BOOLEAN, AsksFetch(w, job, poll)
      PROVE  (isLoading' => Rows(answers')) /\ \A j \in pending' : For(answers', j)
  <2>1. w \in Seq(Answers) /\ \A j \in pending : For(w, j)
    <3>1. CASE w = answers BY <1>1, <1>2, <3>1
    <3>2. CASE w = AllLate(answers)
      <4>1. /\ AllLate(answers) \in Seq(Answers) /\ Len(AllLate(answers)) = Len(answers)
            /\ \A k \in 1 .. Len(answers) : Same(AllLate(answers)[k], answers[k])
        BY <1>1, AllLateFacts
      <4> QED BY <1>2, <3>2, <4>1 DEF Same
    <3> QED BY <3>1, <3>2
  <2> DEFINE q == Asked(created', state', "fetch", 0, << >>, job, poll)
  <2>3. q.kind = "fetch" /\ q.job = job BY DEF Asked
  <2>4. answers' = Append(w, q) /\ pending' = pending \cup ({job} \ {0}) BY <1>8 DEF AsksFetch
  <2> HIDE DEF q
  <2>5. Rows(answers') BY <1>6, <2>1, <2>3, <2>4
  <2>6. \A j \in pending' : For(answers', j) BY <1>6, <2>1, <2>3, <2>4
  <2> QED BY <2>5, <2>6
<1>9. CASE AsksMore
  <2> DEFINE q == Asked(created', state', "more", skip + PageSize, jobs, 0, FALSE)
  <2>2. q.kind = "more" BY DEF Asked
  <2>3. answers' = Append(answers, q) /\ pending' = pending BY <1>9 DEF AsksMore
  <2> HIDE DEF q
  <2> QED BY <1>1, <1>2, <1>6, <2>2, <2>3
<1> QED BY <1>1, <1>4, <1>5, <1>7, <1>8, <1>9, ListSteps DEF ListMoves

LEMMA WaitInvStep == WaitInv /\ [LiveNext]_liveVars => WaitInv'
<1> SUFFICES ASSUME WaitInv, [LiveNext]_liveVars PROVE WaitInv' OBVIOUS
<1>1. IInv' BY IInvStep DEF WaitInv
<1> QED BY <1>1, StartedStep, AskedStep, BusyStep DEF WaitInv

LEMMA InitWaitInv == LiveInit => WaitInv
BY InitIInv DEF LiveInit, StoreInit, WaitInv, BusyWhileAwaited, Started

-----------------------------------------------------------------------------
(* The rows on display.                                                    *)

\* Row i is i - 1 below the first one.
Consecutive(s) == \A i \in 1 .. Len(s) : s[i].id + i = s[1].id + 1

\* A list that starts at the first page of its time fills a page, or goes down to
\* the first job.
FromFirst(s, c) ==
  /\ Consecutive(s)
  /\ s # << >> => s[1].id <= c /\ (Len(s) >= PageSize \/ Len(s) >= s[1].id)

AnswerInv(q, c) ==
  /\ q.kind # "more" => FromFirst(q.page, c) /\ Len(q.page) <= PageSize
  /\ q.kind = "more" => /\ q.captured # << >> /\ FromFirst(q.captured, c)
                        /\ Consecutive(q.captured \o q.page)
                        /\ q.page = << >> \/ Len(q.captured) = q.skip

\* The next page continues the list, unless skip was reset for a list to come.
Fit == hasMore => (skip = 0 /\ Len(jobs) <= PageSize) \/ Len(jobs) = skip + PageSize

Resets == isLoading /\ skip = 0 /\ ~LoadingMore

\* The list and the answers while offsets fit.
ListedInv ==
  /\ FromFirst(jobs, created)
  /\ \A i \in 1 .. Len(answers) : AnswerInv(answers[i], created)
  /\ Fit \/ Resets

ListInv == "moved" \notin lapses => ListedInv

\* Ids are positive.
LEMMA RowIds ==
  ASSUME NEW s \in Seq(Row), NEW i \in 1 .. Len(s)
  PROVE  s[i].id \in Nat /\ s[i].id >= 1
<1>1. s[i] \in Row OBVIOUS
<1> QED BY <1>1 DEF Row, Jobs

\* The invariant says what is claimed.
LEMMA ListInvImplies == IInv /\ ListInv => RowsAreContiguous
<1> SUFFICES ASSUME IInv, ListInv, "moved" \notin lapses, NEW i \in 1 .. Len(jobs) - 1
             PROVE  jobs[i].id = jobs[i + 1].id + 1
  BY DEF RowsAreContiguous
<1>1. jobs \in Seq(Row) BY DEF IInv, LiveTypeOK, StoreTypeOK
<1>2. i \in 1 .. Len(jobs) /\ i + 1 \in 1 .. Len(jobs) /\ 1 \in 1 .. Len(jobs) BY <1>1
<1>3. jobs[i].id \in Nat /\ jobs[i + 1].id \in Nat /\ jobs[1].id \in Nat
  BY <1>1, <1>2, RowIds
<1>4. jobs[i].id + i = jobs[1].id + 1 /\ jobs[i + 1].id + (i + 1) = jobs[1].id + 1
  BY <1>2 DEF ListInv, ListedInv, FromFirst, Consecutive
<1>5. i \in Nat BY <1>1
<1> QED BY <1>3, <1>4, <1>5

\* The first page of the rows 1 .. c.
LEMMA FirstPage ==
  ASSUME NEW c \in 0 .. MaxJobs, NEW st \in [Jobs -> States \cup {"none"}], RowsExist(c, st)
  PROVE  FromFirst(Page(c, st, 0), c) /\ Len(Page(c, st, 0)) <= PageSize
<1> DEFINE p == Page(c, st, 0)
<1>1. /\ p \in Seq(Row)
      /\ Len(p) = IF 0 >= c THEN 0 ELSE IF c - 0 < PageSize THEN c - 0 ELSE PageSize
      /\ \A i \in 1 .. Len(p) : p[i].id = c - 0 - i + 1
  BY PageFacts
<1> HIDE DEF p
<1>2. /\ Len(p) = IF 0 >= c THEN 0 ELSE IF c < PageSize THEN c ELSE PageSize
      /\ \A i \in 1 .. Len(p) : p[i].id = c - i + 1
  BY <1>1, FeedAssumption
<1>3. p # << >> => Len(p) >= 1 BY <1>1
<1>4. Consecutive(p) BY <1>1, <1>2 DEF Consecutive
<1>5. p # << >> => p[1].id = c BY <1>2, <1>3
<1> QED BY <1>2, <1>4, <1>5, FeedAssumption DEF FromFirst, p

\* A list stays what it is when more jobs come.
LEMMA FromFirstLater ==
  ASSUME NEW s \in Seq(Row), NEW c \in Nat, NEW d \in Nat, c <= d, FromFirst(s, c)
  PROVE  FromFirst(s, d)
<1>1. s # << >> => s[1].id \in Nat BY RowIds
<1> QED BY <1>1 DEF FromFirst

\* So does an answer.
LEMMA AnswerLater ==
  ASSUME NEW q \in Answers, NEW p, Same(p, q), NEW c \in Nat, NEW d \in Nat, c <= d,
         AnswerInv(q, c)
  PROVE  AnswerInv(p, d)
<1>1. q.page \in Seq(Row) /\ q.captured \in Seq(Row) BY DEF Answers
<1>2. /\ q.kind # "more" => FromFirst(q.page, d)
      /\ q.kind = "more" => FromFirst(q.captured, d)
  BY <1>1, FromFirstLater DEF AnswerInv
<1>3. p.kind = q.kind /\ p.page = q.page /\ p.captured = q.captured /\ p.skip = q.skip
  BY DEF Same
<1> QED BY <1>2, <1>3 DEF AnswerInv

\* A consecutive list in two parts.
LEMMA Joined ==
  ASSUME NEW s \in Seq(Row), s # << >>, NEW t \in Seq(Row), Consecutive(s),
         \A i \in 1 .. Len(t) : t[i].id + Len(s) + i = s[1].id + 1
  PROVE  Consecutive(s \o t) /\ (s \o t)[1] = s[1] /\ s \o t \in Seq(Row)
         /\ Len(s \o t) = Len(s) + Len(t)
<1>1. /\ s \o t \in Seq(Row) /\ Len(s \o t) = Len(s) + Len(t) /\ Len(s) >= 1
      /\ (s \o t)[1] = s[1]
  OBVIOUS
<1>2. ASSUME NEW i \in 1 .. Len(s) + Len(t)
      PROVE  (s \o t)[i].id + i = (s \o t)[1].id + 1
  <2>1. CASE i <= Len(s)
    <3>1. (s \o t)[i] = s[i] /\ i \in 1 .. Len(s) BY <2>1
    <3> QED BY <1>1, <3>1 DEF Consecutive
  <2>2. CASE i > Len(s)
    <3>1. (s \o t)[i] = t[i - Len(s)] /\ i - Len(s) \in 1 .. Len(t) BY <2>2
    <3>2. t[i - Len(s)].id + Len(s) + (i - Len(s)) = s[1].id + 1 BY <3>1
    <3>3. t[i - Len(s)].id \in Nat BY <3>1, RowIds
    <3> QED BY <1>1, <3>1, <3>2, <3>3
  <2> QED BY <2>1, <2>2
<1> QED BY <1>1, <1>2 DEF Consecutive

\* A tick's rows take the place of the first page.
LEMMA TickKeepsList ==
  ASSUME IInv, ListedInv, "moved" \notin lapses',
         NEW i \in 1 .. Len(answers), TickAnswered(i), AskedInv(answers[i], created)
  PROVE  /\ FromFirst(jobs', created)
         /\ IF Len(jobs) <= PageSize THEN Len(jobs') <= PageSize ELSE Len(jobs') = Len(jobs)
<1> DEFINE p == answers[i].page
           rest == SubSeq(jobs, PageSize + 1, Len(jobs))
<1>1. jobs \in Seq(Row) /\ answers[i] \in Answers /\ PageSize \in Nat \ {0}
  BY FeedAssumption DEF IInv, LiveTypeOK, StoreTypeOK
<1>2. p \in Seq(Row) /\ answers[i].kind = "tick" BY <1>1 DEF Answers, TickAnswered
<1>3. FromFirst(p, created) /\ Len(p) <= PageSize /\ p # << >>
  BY <1>2 DEF ListedInv, AnswerInv, AskedInv
<1>4. CASE Len(jobs) <= PageSize
  <2>1. jobs' = p BY <1>4 DEF TickAnswered
  <2> QED BY <1>3, <1>4, <2>1
<1>5. CASE ~(Len(jobs) <= PageSize)
  <2>1. jobs' = p \o rest BY <1>5 DEF TickAnswered
  <2>2. jobs # << >> /\ jobs[1].id = p[1].id
    <3>1. "moved" \notin Moved(jobs, p[1].id) BY <1>1, <1>5 DEF TickAnswered
    <3> QED BY <3>1 DEF Moved
  <2>3. FromFirst(jobs, created) BY DEF ListedInv
  <2>4. 1 \in 1 .. Len(jobs) /\ Len(jobs) \in 1 .. Len(jobs) BY <1>1, <1>5
  <2>5. jobs[1].id \in Nat /\ jobs[Len(jobs)].id \in Nat /\ jobs[Len(jobs)].id >= 1
    BY <1>1, <2>4, RowIds
  <2>6. jobs[Len(jobs)].id + Len(jobs) = jobs[1].id + 1
    BY <2>3, <2>4 DEF FromFirst, Consecutive
  <2>7. jobs[1].id >= Len(jobs) BY <1>1, <2>5, <2>6
  <2>8. Len(p) = PageSize BY <1>1, <1>2, <1>3, <1>5, <2>2, <2>5, <2>7 DEF FromFirst
  <2>9. /\ rest \in Seq(Row) /\ Len(rest) = Len(jobs) - PageSize
        /\ \A k \in 1 .. Len(jobs) - PageSize : rest[k] = jobs[PageSize + k]
    BY <1>1, <1>5
  <2>10. ASSUME NEW k \in 1 .. Len(rest) PROVE rest[k].id + Len(p) + k = p[1].id + 1
    <3>1. PageSize + k \in 1 .. Len(jobs) BY <1>1, <1>5, <2>9
    <3>2. jobs[PageSize + k].id + (PageSize + k) = jobs[1].id + 1
      BY <2>3, <3>1 DEF FromFirst, Consecutive
    <3>3. jobs[PageSize + k].id \in Nat BY <1>1, <3>1, RowIds
    <3> QED BY <1>1, <2>2, <2>8, <2>9, <3>2, <3>3
  <2> HIDE DEF p, rest
  <2>11. /\ Consecutive(p \o rest) /\ (p \o rest)[1] = p[1]
         /\ Len(p \o rest) = Len(p) + Len(rest)
    BY <1>2, <1>3, <2>9, <2>10, Joined DEF FromFirst
  <2>12. Len(p \o rest) = Len(jobs) BY <1>1, <1>5, <2>8, <2>9, <2>11
  <2>13. p[1].id <= created BY <1>3 DEF FromFirst
  <2> QED BY <1>1, <1>5, <2>1, <2>11, <2>12, <2>13 DEF FromFirst
<1> QED BY <1>4, <1>5

\* loadMoreJobs asks for the rows that follow those on display.
LEMMA MoreContinues ==
  ASSUME IInv, ListedInv, [LiveNext]_liveVars, AsksMore, "moved" \notin lapses'
  PROVE  AnswerInv(Asked(created', state', "more", skip + PageSize, jobs, 0, FALSE), created')
<1> DEFINE from == skip + PageSize
           p == Page(created', state', from)
<1>1. /\ jobs \in Seq(Row) /\ skip \in Nat /\ created \in 0 .. MaxJobs /\ MaxJobs \in Nat
      /\ PageSize \in Nat \ {0}
  BY FeedAssumption DEF IInv, LiveTypeOK, StoreTypeOK, FeedTypeOK
<1>2. created' = created /\ ~isLoading /\ hasMore BY DEF AsksMore
<1>3. FromFirst(jobs, created) /\ Fit BY <1>2 DEF ListedInv, Resets
<1>4. jobs # << >> /\ jobs[1].id = created
  <2>1. "moved" \notin Moved(jobs, created) BY DEF AsksMore
  <2> QED BY <2>1 DEF Moved
<1>5. /\ p \in Seq(Row)
      /\ Len(p) = IF from >= created THEN 0
                  ELSE IF created - from < PageSize THEN created - from ELSE PageSize
      /\ \A i \in 1 .. Len(p) : p[i].id = created - from - i + 1
  <2>1. from \in Nat BY <1>1
  <2>2. /\ created' \in 0 .. MaxJobs /\ state' \in [Jobs -> States \cup {"none"}]
        /\ RowsExist(created', state')
    BY BoardTyped
  <2> QED BY <1>2, <2>1, <2>2, PageFacts
<1> HIDE DEF p
<1>6. ASSUME p # << >> PROVE Len(jobs) = from
  <2>1. Len(p) >= 1 BY <1>5, <1>6
  <2>2. from < created BY <1>1, <1>5, <2>1
  <2>3. Len(jobs) >= PageSize \/ Len(jobs) >= created BY <1>3, <1>4 DEF FromFirst
  <2>4. (skip = 0 /\ Len(jobs) <= PageSize) \/ Len(jobs) = from BY <1>2, <1>3 DEF Fit
  <2> QED BY <1>1, <2>2, <2>3, <2>4
<1>7. Consecutive(jobs \o p)
  <2>1. ASSUME NEW i \in 1 .. Len(p) PROVE p[i].id + Len(jobs) + i = jobs[1].id + 1
    <3>1. p # << >> BY <1>5
    <3>2. Len(jobs) = from BY <1>6, <3>1
    <3>3. p[i].id = created - from - i + 1 BY <1>5
    <3>4. from < created /\ from \in Nat /\ i \in Nat BY <1>1, <1>5, <3>1
    <3> HIDE DEF from
    <3> QED BY <1>1, <1>4, <3>2, <3>3, <3>4
  <2> QED BY <1>1, <1>3, <1>4, <1>5, <2>1, Joined DEF FromFirst
<1> QED BY <1>2, <1>3, <1>4, <1>6, <1>7 DEF AnswerInv, Asked, p

\* While offsets fit, every step keeps list and answers as they are to be.
LEMMA ListedStep ==
  ASSUME WaitInv, ListedInv, [LiveNext]_liveVars, "moved" \notin lapses'
  PROVE  ListedInv'
<1>1. /\ IInv /\ answers \in Seq(Answers) /\ jobs \in Seq(Row) /\ skip \in Nat
      /\ created \in 0 .. MaxJobs /\ PageSize \in Nat \ {0}
      /\ \A i \in 1 .. Len(answers) : AskedInv(answers[i], created)
  BY FeedAssumption DEF WaitInv, IInv, LiveTypeOK, FeedTypeOK, StoreTypeOK
<1>2. /\ created' \in 0 .. MaxJobs /\ state' \in [Jobs -> States \cup {"none"}]
      /\ RowsExist(created', state') /\ created <= created'
  BY <1>1, BoardTyped
<1>3. created \in Nat /\ created' \in Nat BY <1>1, <1>2
<1>4. FromFirst(jobs, created') BY <1>1, <1>2, <1>3, FromFirstLater DEF ListedInv
<1>5. \A i \in 1 .. Len(answers) : AnswerInv(answers[i], created')
  <2>1. ASSUME NEW i \in 1 .. Len(answers) PROVE AnswerInv(answers[i], created')
    <3>1. answers[i] \in Answers /\ AnswerInv(answers[i], created) BY <1>1 DEF ListedInv
    <3>2. Same(answers[i], answers[i]) BY DEF Same
    <3> QED BY <1>2, <1>3, <3>1, <3>2, AnswerLater
  <2> QED BY <2>1
<1>6. Fit \/ Resets BY DEF ListedInv
<1>7. CASE Rests
  <2>1. UNCHANGED <<jobs, isLoading, hasMore, skip, answers>> BY <1>7 DEF Rests, rows, requests
  <2>2. (Fit \/ Resets)' BY <1>6, <2>1 DEF Fit, Resets, LoadingMore
  <2> QED BY <1>4, <1>5, <2>1, <2>2 DEF ListedInv
\* An answer is dealt with.
<1>8. ASSUME NEW i \in 1 .. Len(answers), Answered(i) PROVE ListedInv'
  <2> DEFINE q == answers[i]
  <2>1. q \in Answers /\ AnswerInv(q, created') /\ AskedInv(q, created) BY <1>1, <1>5
  <2>2. q.page \in Seq(Row) /\ q.captured \in Seq(Row) /\ q.skip \in Nat BY <2>1 DEF Answers
  <2>3. PICK news \in BOOLEAN : answers' = Left(answers, i, news)
    BY <1>1, <1>8, AnsweredConsumes
  <2>4. /\ Len(answers') = Len(answers) - 1
        /\ \A k \in 1 .. Len(answers) - 1 :
             \E m \in 1 .. Len(answers) : m # i /\ Same(answers'[k], answers[m])
    BY <1>1, <2>3, LeftFacts
  <2>5. \A k \in 1 .. Len(answers') : AnswerInv(answers'[k], created')
    <3>1. ASSUME NEW k \in 1 .. Len(answers') PROVE AnswerInv(answers'[k], created')
      <4>1. PICK m \in 1 .. Len(answers) : Same(answers'[k], answers[m]) BY <2>4
      <4> QED BY <1>1, <1>3, <1>5, <4>1, AnswerLater
    <3> QED BY <3>1
  <2>6. LoadingMore' => LoadingMore
    BY <2>4 DEF LoadingMore, Same
  <2>7. CASE TickAnswered(i)
    <3>1. UNCHANGED <<isLoading, hasMore, skip, created>>
      BY <2>7 DEF TickAnswered, feedVars, board
    <3>2. /\ FromFirst(jobs', created)
          /\ IF Len(jobs) <= PageSize THEN Len(jobs') <= PageSize ELSE Len(jobs') = Len(jobs)
      BY <1>1, <2>1, <2>7, TickKeepsList
    <3>3. jobs' \in Seq(Row) BY <1>1, RowsTyped
    <3>4. CASE Fit
      <4>1. ASSUME hasMore'
            PROVE  (skip' = 0 /\ Len(jobs') <= PageSize) \/ Len(jobs') = skip' + PageSize
        <5>1. (skip = 0 /\ Len(jobs) <= PageSize) \/ Len(jobs) = skip + PageSize
          BY <3>1, <3>4, <4>1 DEF Fit
        <5> QED BY <1>1, <3>1, <3>2, <3>3, <5>1
      <4>2. Fit' BY <4>1 DEF Fit
      <4> QED BY <2>5, <3>1, <3>2, <4>2 DEF ListedInv
    <3>5. CASE Resets
      <4>1. Resets' BY <2>6, <3>1, <3>5 DEF Resets
      <4> QED BY <2>5, <3>1, <3>2, <4>1 DEF ListedInv
    <3> QED BY <1>6, <3>4, <3>5
  <2>8. CASE FetchAnswered(i)
    <3>1. skip = 0 /\ skip' = skip /\ jobs' = q.page /\ q.kind = "fetch"
      BY <2>8 DEF FetchAnswered
    <3>2. FromFirst(jobs', created') /\ Len(jobs') <= PageSize BY <2>1, <3>1 DEF AnswerInv
    <3>3. Fit' BY <3>1, <3>2 DEF Fit
    <3> QED BY <2>5, <3>2, <3>3 DEF ListedInv
  <2>9. CASE MoreAnswered(i)
    <3>1. /\ jobs' = q.captured \o q.page /\ skip' = q.skip /\ q.kind = "more"
          /\ hasMore' = (Len(q.page) = PageSize)
      BY <2>9 DEF MoreAnswered
    <3>2. /\ q.captured # << >> /\ FromFirst(q.captured, created') /\ Consecutive(jobs')
          /\ q.page = << >> \/ Len(q.captured) = q.skip
      BY <2>1, <3>1 DEF AnswerInv
    <3>3. /\ Len(jobs') = Len(q.captured) + Len(q.page) /\ jobs'[1] = q.captured[1]
          /\ Len(q.captured) \in Nat /\ Len(q.page) \in Nat
      <4>1. ASSUME NEW c \in Seq(Row), NEW t \in Seq(Row), c # << >>
            PROVE  /\ Len(c \o t) = Len(c) + Len(t) /\ (c \o t)[1] = c[1]
                   /\ Len(c) \in Nat /\ Len(t) \in Nat
        BY <4>1
      <4> HIDE DEF q
      <4> QED BY <2>2, <3>1, <3>2, <4>1
    <3>4. FromFirst(jobs', created')
      <4> HIDE DEF q
      <4>1. q.captured[1].id \in Nat BY <2>2, <3>2, RowIds
      <4>2. /\ q.captured[1].id <= created'
            /\ Len(q.captured) >= PageSize \/ Len(q.captured) >= q.captured[1].id
        BY <3>2 DEF FromFirst
      <4>3. ASSUME NEW a \in Nat, NEW b \in Nat, NEW d \in Nat, a >= PageSize \/ a >= d
            PROVE  a + b >= PageSize \/ a + b >= d
        BY <1>1, <4>3
      <4>4. Len(jobs') >= PageSize \/ Len(jobs') >= jobs'[1].id
        <5>1. \/ Len(q.captured) + Len(q.page) >= PageSize
              \/ Len(q.captured) + Len(q.page) >= q.captured[1].id
          BY <3>3, <4>1, <4>2, <4>3
        <5> QED BY <3>3, <5>1, Zenon
      <4> QED BY <3>2, <3>3, <4>2, <4>4 DEF FromFirst
    <3>5. Fit'
      <4>1. ASSUME hasMore' PROVE Len(jobs') = skip' + PageSize
        <5>1. Len(q.page) = PageSize BY <3>1, <4>1
        <5>2. q.page # << >> BY <1>1, <5>1
        <5> QED BY <3>1, <3>2, <3>3, <5>1, <5>2
      <4> QED BY <4>1 DEF Fit
    <3> QED BY <2>5, <3>4, <3>5 DEF ListedInv
  <2>10. CASE RequestFails(i)
    <3>1. /\ UNCHANGED <<jobs, hasMore, skip, created>>
          /\ isLoading' = (isLoading /\ q.kind = "tick")
          /\ ~(q.kind = "fetch" /\ Len(jobs) > PageSize)
      BY <2>10 DEF RequestFails, board
    <3>2. CASE Fit
      <4>1. Fit' BY <3>1, <3>2 DEF Fit
      <4> QED BY <1>4, <2>5, <3>1, <4>1 DEF ListedInv
    <3>3. CASE Resets /\ q.kind = "tick"
      <4>1. Resets' BY <2>6, <3>1, <3>3 DEF Resets
      <4> QED BY <1>4, <2>5, <3>1, <4>1 DEF ListedInv
    <3>4. CASE Resets /\ q.kind = "fetch"
      <4>1. Fit' BY <1>1, <3>1, <3>4 DEF Fit, Resets
      <4> QED BY <1>4, <2>5, <3>1, <4>1 DEF ListedInv
    <3>5. ~(Resets /\ q.kind = "more") BY DEF Resets, LoadingMore
    <3>6. q.kind \in {"tick", "fetch", "more"} BY <2>1 DEF Answers
    <3> QED BY <1>6, <3>2, <3>3, <3>4, <3>5, <3>6
  <2> QED BY <1>8, <2>7, <2>8, <2>9, <2>10 DEF Answered
\* A request is sent.
<1>9. ASSUME NEW w \in Seq(Answers), \A k \in 1 .. Len(w) : AnswerInv(w[k], created'),
             NEW q, AnswerInv(q, created'), answers' = Append(w, q)
      PROVE  /\ \A k \in 1 .. Len(answers') : AnswerInv(answers'[k], created')
             /\ q.kind # "more" /\ (\A k \in 1 .. Len(w) : w[k].kind # "more") => ~LoadingMore'
  BY <1>9 DEF LoadingMore
<1>10. CASE AsksTick
  <2> DEFINE q == Asked(created', state', "tick", 0, << >>, 0, FALSE)
  <2>1. UNCHANGED <<jobs, isLoading, hasMore, skip>> /\ answers' = Append(answers, q)
    BY <1>10 DEF AsksTick, rows
  <2>2. FromFirst(Page(created', state', 0), created') /\ Len(Page(created', state', 0)) <= PageSize
    BY <1>2, FirstPage
  <2>3. AnswerInv(q, created') /\ q.kind = "tick" BY <2>2 DEF AnswerInv, Asked
  <2> HIDE DEF q
  <2>4. /\ \A k \in 1 .. Len(answers') : AnswerInv(answers'[k], created')
        /\ ~LoadingMore => ~LoadingMore'
    BY <1>1, <1>5, <1>9, <2>1, <2>3 DEF LoadingMore
  <2>5. (Fit \/ Resets)' BY <1>6, <2>1, <2>4 DEF Fit, Resets
  <2> QED BY <1>4, <2>1, <2>4, <2>5 DEF ListedInv
<1>11. ASSUME NEW w \in {answers, AllLate(answers)}, NEW job \in Jobs \cup {0},
              NEW poll \in BOOLEAN, AsksFetch(w, job, poll)
       PROVE  ListedInv'
  <2> DEFINE q == Asked(created', state', "fetch", 0, << >>, job, poll)
  <2>1. /\ isLoading' = TRUE /\ skip' = 0 /\ jobs' = jobs /\ answers' = Append(w, q)
        /\ ~LoadingMore
    BY <1>11 DEF AsksFetch
  <2>2. FromFirst(Page(created', state', 0), created') /\ Len(Page(created', state', 0)) <= PageSize
    BY <1>2, FirstPage
  <2>3. AnswerInv(q, created') /\ q.kind = "fetch" BY <2>2 DEF AnswerInv, Asked
  <2> HIDE DEF q
  <2>4. /\ w \in Seq(Answers) /\ Len(w) = Len(answers)
        /\ \A k \in 1 .. Len(answers) : Same(w[k], answers[k])
    BY <1>1, AllLateFacts DEF Same
  <2>5. \A k \in 1 .. Len(w) : AnswerInv(w[k], created') /\ w[k].kind # "more"
    <3>1. ASSUME NEW k \in 1 .. Len(w) PROVE AnswerInv(w[k], created') /\ w[k].kind # "more"
      <4>1. k \in 1 .. Len(answers) /\ Same(w[k], answers[k]) BY <2>4
      <4>2. answers[k].kind # "more" BY <2>1, <4>1 DEF LoadingMore
      <4> QED BY <1>1, <1>3, <1>5, <4>1, <4>2, AnswerLater DEF Same
    <3> QED BY <3>1
  <2>6. /\ \A k \in 1 .. Len(answers') : AnswerInv(answers'[k], created')
        /\ ~LoadingMore'
    BY <1>9, <2>1, <2>3, <2>4, <2>5
  <2>7. Resets' BY <2>1, <2>6 DEF Resets
  <2> QED BY <1>4, <2>1, <2>6, <2>7 DEF ListedInv
<1>12. CASE AsksMore
  <2> DEFINE q == Asked(created', state', "more", skip + PageSize, jobs, 0, FALSE)
  <2>1. ~isLoading /\ UNCHANGED <<jobs, hasMore, skip>> /\ answers' = Append(answers, q)
    BY <1>12 DEF AsksMore
  <2>2. AnswerInv(q, created') BY <1>1, <1>12, MoreContinues
  <2> HIDE DEF q
  <2>3. \A k \in 1 .. Len(answers') : AnswerInv(answers'[k], created')
    BY <1>1, <1>5, <1>9, <2>1, <2>2
  <2>4. Fit' BY <1>6, <2>1 DEF Fit, Resets
  <2> QED BY <1>4, <2>1, <2>3, <2>4 DEF ListedInv
<1> QED BY <1>1, <1>7, <1>8, <1>10, <1>11, <1>12, ListSteps DEF ListMoves

\* A lapse that was noted stays noted.
LEMMA LapsesStay ==
  ASSUME IInv, [LiveNext]_liveVars
  PROVE  lapses \subseteq lapses'
<1>1. CASE Rests BY <1>1 DEF Rests
<1>2. ASSUME NEW i \in 1 .. Len(answers), Answered(i) PROVE lapses \subseteq lapses'
  BY <1>2 DEF Answered, TickAnswered, FetchAnswered, MoreAnswered, RequestFails
<1>3. CASE AsksTick BY <1>3 DEF AsksTick
<1>4. ASSUME NEW w \in {answers, AllLate(answers)}, NEW job \in Jobs \cup {0},
             NEW poll \in BOOLEAN, AsksFetch(w, job, poll)
      PROVE  lapses \subseteq lapses'
  BY <1>4 DEF AsksFetch
<1>5. CASE AsksMore BY <1>5 DEF AsksMore
<1> QED BY <1>1, <1>2, <1>3, <1>4, <1>5, ListSteps DEF ListMoves

LEMMA ListInvStep == WaitInv /\ ListInv /\ [LiveNext]_liveVars => ListInv'
<1> SUFFICES ASSUME WaitInv, ListInv, [LiveNext]_liveVars, "moved" \notin lapses'
             PROVE  ListedInv'
  BY DEF ListInv
<1>1. "moved" \notin lapses BY LapsesStay DEF WaitInv
<1> QED BY <1>1, ListedStep DEF ListInv

LEMMA InitListInv == LiveInit => ListInv
<1> SUFFICES ASSUME LiveInit PROVE ListInv OBVIOUS
<1>1. jobs = << >> /\ answers = << >> /\ skip = 0 BY DEF LiveInit, StoreInit
<1>2. FromFirst(jobs, created) BY <1>1 DEF FromFirst, Consecutive
<1>3. Fit BY <1>1, FeedAssumption DEF Fit
<1> QED BY <1>1, <1>2, <1>3 DEF ListInv, ListedInv

-----------------------------------------------------------------------------
(* The theorems.                                                           *)

\* The type invariant of the live jobs.
THEOREM LiveJobsTyped == LiveSpec => []LiveTypeOK
<1>1. IInv => LiveTypeOK BY DEF IInv
<1> QED BY <1>1, InitIInv, IInvStep, PTL DEF LiveSpec

\* However often the connection drops and whoever comes and goes, the socket's
\* count is that of its users, and somebody is served exactly while it is wanted.
THEOREM UsersAreServed == LiveSpec => []SocketServesItsUsers
<1>1. IInv => SocketServesItsUsers BY DEF IInv
<1> QED BY <1>1, InitIInv, IInvStep, PTL DEF LiveSpec

\* No request that fails, or is overtaken, leaves the list loading or a button
\* disabled.
THEOREM NothingStaysBusy == LiveSpec => []BusyWhileAwaited
<1>1. WaitInv => BusyWhileAwaited BY DEF WaitInv
<1> QED BY <1>1, InitWaitInv, WaitInvStep, PTL DEF LiveSpec

\* The rows on display are consecutive while offsets fit, for any number of jobs
\* and requests, any page size and any order of the answers.
THEOREM RowsStayContiguous == LiveSpec => []RowsAreContiguous
<1>1. LiveInit => WaitInv /\ ListInv BY InitWaitInv, InitListInv
<1>2. WaitInv /\ ListInv /\ [LiveNext]_liveVars => (WaitInv /\ ListInv)'
  BY WaitInvStep, ListInvStep
<1>3. WaitInv /\ ListInv => RowsAreContiguous BY ListInvImplies DEF WaitInv
<1> QED BY <1>1, <1>2, <1>3, PTL DEF LiveSpec
=============================================================================
