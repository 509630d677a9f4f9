----------------------------- MODULE JobPolling -----------------------------
(***************************************************************************)
(* useJobPolling: a component that is mounted with some job ids reads each *)
(* of them at an interval and on every event about one of them, until all  *)
(* of them are terminal or have been given up after several failures in a  *)
(* row.  Several rounds (fetchAll) may be in flight.  An effect that is over *)
(* may leave an interval behind, which nobody clears.                      *)
(***************************************************************************)
EXTENDS JobFeed, SequencesExt

CONSTANTS
  GiveUp,     \* MAX_CONSECUTIVE_FETCH_FAILURES
  MaxRounds,  \* bound: rounds in flight
  MaxErrors   \* bound: failed reads of rows that exist

ASSUME PollingAssumption == GiveUp \in Nat \ {0} /\ MaxRounds \in Nat /\ MaxErrors \in Nat

VARIABLES
  tracked,    \* jobIds of the mounted component, {} if none is mounted
  aggregate,  \* aggregateStatus: "over" is any of completed, failed and error
  interval,   \* interval is set
  connected,  \* wsConnected
  timer,      \* refreshTimer
  rounds,     \* rounds in flight, by start: what has been read of each job
  misses,     \* failureCountsRef
  gone,       \* jobs whose row was deleted
  errors,
  orphan,     \* an interval set by an effect after its cleanup had cleared its own
  late,       \* a round of an effect that is over is in flight (bound: one)
  lapsed      \* history: jobs were found open, or a read failed, in a round shown
              \* after all of them had been found over

pollVars == <<tracked, aggregate, interval, connected, timer, rounds, misses, gone,
              errors, orphan, late, lapsed>>
leftBehind == <<orphan, late>>

Answer == [Jobs -> States \cup {"none", "failed"}]

PollTypeOK ==
  /\ tracked \subseteq Jobs
  /\ aggregate \in {"idle", "running", "over"}
  /\ interval \in BOOLEAN /\ connected \in BOOLEAN /\ timer \in BOOLEAN
  /\ rounds \in Seq(Answer)
  /\ misses \in [Jobs -> Nat]
  /\ gone \subseteq Jobs /\ errors \in 0 .. MaxErrors /\ lapsed \in BOOLEAN
  /\ orphan \in BOOLEAN /\ late \in BOOLEAN

PollInit ==
  /\ tracked = {} /\ aggregate = "idle"
  /\ interval = FALSE /\ connected = FALSE /\ timer = FALSE
  /\ rounds = << >> /\ misses = [j \in Jobs |-> 0]
  /\ gone = {} /\ errors = 0 /\ lapsed = FALSE
  /\ orphan = FALSE /\ late = FALSE

-----------------------------------------------------------------------------
\* fetchAll: the requests of a round for ids are sent together, and answered
\* together with what was read when they were sent; each may fail.
Round(ids, answer) ==
  /\ \A j \in Jobs : answer[j] \in IF j \notin ids THEN {"none"}
                                   ELSE IF j \in gone THEN {"failed"} ELSE {state[j], "failed"}
  /\ errors' = errors + Cardinality({j \in ids \ gone : answer[j] = "failed"})
  /\ errors' <= MaxErrors

\* The effect: counters reset, the first round, subscription, interval; if the
\* socket is open already, the status listener asks for one more round.
MountPolling(ids) ==
  /\ tracked = {} /\ ids # {} /\ ids \subseteq 1 .. created
  /\ tracked' = ids
  /\ misses' = [j \in Jobs |-> 0]
  /\ \E answer \in Answer : Round(ids, answer) /\ rounds' = <<answer>>
  /\ interval' = TRUE
  /\ connected' = (socket = "open") /\ timer' = (socket = "open")
  /\ Subscribe
  /\ UNCHANGED <<aggregate, gone, leftBehind, lapsed, board>>

\* Its cleanup clears interval and timer, and then unsubscribes: if that closes the
\* socket, close() tells the status listener, not removed yet, that the connection
\* is gone, and a listener that took it to be open sets the interval again.  Rounds in
\* flight will not be shown.  The next ids find the last aggregate, none an "idle".
\* The counters, which the next effect resets, are reset here.
UnmountPolling ==
  /\ tracked # {} /\ tracked' = {}
  /\ aggregate' \in {aggregate, "idle"}
  /\ interval' = FALSE /\ connected' = FALSE /\ timer' = FALSE
  /\ orphan' = (orphan \/ (connected /\ LastUser))
  /\ rounds' = << >> /\ late' = (late \/ rounds # << >>)
  /\ misses' = [j \in Jobs |-> 0]
  /\ Unsubscribe
  /\ UNCHANGED <<gone, errors, lapsed, board>>

StartRound ==
  /\ Len(rounds) < MaxRounds
  /\ \E answer \in Answer : Round(tracked, answer) /\ rounds' = Append(rounds, answer)
  /\ UNCHANGED <<tracked, aggregate, interval, connected, misses, gone, leftBehind, lapsed,
                 feedVars>>

IntervalRound == interval /\ StartRound /\ UNCHANGED timer
TimerRound == timer /\ timer' = FALSE /\ StartRound

\* failureCountsRef after a round.
Missed(read) == [j \in Jobs |-> IF read[j] = "none" THEN misses[j]
                                ELSE IF read[j] # "failed" THEN 0
                                ELSE IF misses[j] < GiveUp THEN misses[j] + 1 ELSE misses[j]]

\* What a round says of the jobs together.  A job that failed, or was given up,
\* makes all of them say so, whatever the others do.
Verdict(read) ==
  LET failed == {j \in tracked : read[j] = "failed"}
      givenUp == {j \in failed : Missed(read)[j] >= GiveUp}
      settled == givenUp = failed /\ \A j \in tracked \ failed : read[j] = "ended"
  IN [settled |-> settled,
      says |-> IF settled \/ givenUp # {} THEN {"over"}
               ELSE IF \E j \in tracked : read[j] = "ended" THEN {"running", "over"}
               ELSE {"running"}]

\* Mutant of ShowRound: a job whose reads fail keeps the interval alive.
ShowRoundNeverGivesUp(k) ==
  LET read == rounds[k]
      verdict == Verdict(read)
  IN
  /\ k \in 1 .. Len(rounds)
  /\ aggregate' \in verdict.says
  /\ interval' = (interval /\ \E j \in tracked : read[j] # "ended")
  /\ rounds' = RemoveAt(rounds, k)
  /\ lapsed' = (lapsed \/ (~interval /\ ~verdict.settled))
  /\ misses' = Missed(read)
  /\ UNCHANGED <<tracked, connected, timer, gone, errors, leftBehind, feedVars>>

\* The rest of fetchAll.
ShowRound(k) ==
  LET read == rounds[k]
      verdict == Verdict(read)
  IN
  /\ k \in 1 .. Len(rounds)
  /\ aggregate' \in verdict.says
  /\ interval' = (interval /\ ~verdict.settled)
  /\ rounds' = RemoveAt(rounds, k)
  /\ lapsed' = (lapsed \/ (~interval /\ ~verdict.settled))
  /\ misses' = Missed(read)
  /\ UNCHANGED <<tracked, connected, timer, gone, errors, leftBehind, feedVars>>

\* The interval left behind reads whatever ids the component has by now.  Its rounds
\* are cancelled and only count failures, in the ref that all effects share (bound:
\* answered at once) ...
OrphanRound ==
  /\ orphan /\ tracked # {}
  /\ \E answer \in Answer : Round(tracked, answer) /\ misses' = Missed(answer)
  /\ UNCHANGED <<tracked, aggregate, interval, connected, timer, rounds, gone, leftBehind,
                 lapsed, feedVars>>

\* ... and so does a round the cleanup found in flight, whatever it read.
LateRound ==
  /\ late /\ late' = FALSE
  /\ tracked # {}
  /\ \E answer \in Answer : misses' = Missed(answer)
  /\ UNCHANGED <<tracked, aggregate, interval, connected, timer, rounds, gone, errors,
                 orphan, lapsed, feedVars>>

\* The row is deleted (bound: of one job).
DeleteRow(j) ==
  /\ j \in tracked /\ gone = {}
  /\ gone' = gone \cup {j}
  /\ UNCHANGED <<tracked, aggregate, interval, connected, timer, rounds, misses, errors,
                 leftBehind, lapsed, feedVars>>

\* The event listener.
PollHears(j) ==
  /\ timer' = (timer \/ j \in tracked)
  /\ UNCHANGED <<tracked, aggregate, interval, connected, rounds, misses, gone, errors,
                 leftBehind, lapsed>>

\* The status listener: a change sets the interval anew, even one that had been
\* stopped; TRUE asks for a round.
PollStatus(open) ==
  /\ IF tracked # {} /\ connected # open
     THEN connected' = open /\ interval' = TRUE /\ timer' = (timer \/ open)
     ELSE UNCHANGED <<connected, interval, timer>>
  /\ UNCHANGED <<tracked, aggregate, rounds, misses, gone, errors, leftBehind, lapsed>>

-----------------------------------------------------------------------------
Over(j) == state[j] = "ended" \/ j \in gone

\* Once every tracked job has ended or vanished, the component says so and stops
\* asking, over lost events, failed reads and reconnects that set the interval
\* again, unless a round was shown after a later one.  An interval that an earlier
\* effect left behind neither keeps it from that nor stops.
PollingSettles ==
  []<>((\A j \in tracked : Over(j)) =>
         \/ tracked = {} \/ lapsed
         \/ ~interval /\ rounds = << >> /\ aggregate = "over")
=============================================================================
