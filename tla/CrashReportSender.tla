------------------------- MODULE CrashReportSender -------------------------
(***************************************************************************)
(* The Windows CrashReportSender: it uploads crash reports over HTTP and    *)
(* throttles itself to max_reports_per_day_ using a checkpoint file that    *)
(* survives the process.  Several uploader processes may share one file,    *)
(* and each of them can be killed between any two of its steps.             *)
(*                                                                          *)
(* Time is a clock of ticks, TicksPerDay of which make a UTC day.  The      *)
(* checkpoint is the sequence of lines the file holds: the signature, the   *)
(* date, the count.  "w" truncates it; a writer that is killed, or whose    *)
(* disk is full, may leave any prefix of the three lines, because stdio     *)
(* decides when to flush and nobody looks at what fputs, fprintf and fclose *)
(* return.  A date that has lost digits is of no day, as if it were absent; *)
(* a count that has is smaller.                                             *)
(***************************************************************************)
EXTENDS Integers, Sequences, FiniteSets

CONSTANTS
    Senders,      \* uploader processes that share one checkpoint file
    MaxReports,   \* max_reports_per_day_; -1 is no limit
    TicksPerDay,  \* resolution of the clock
    MaxTick,      \* bound: the clock stops here
    MaxAccepted,  \* bound: reports accepted in one behaviour
    MaxKills      \* bound: processes killed in one behaviour

ASSUME SenderAssumption ==
    /\ IsFiniteSet(Senders)
    /\ MaxReports \in Nat \cup {-1} /\ TicksPerDay \in Nat \ {0}
    /\ MaxTick \in Nat /\ MaxAccepted \in Nat /\ MaxKills \in Nat

VARIABLES
    tick,      \* the system clock
    file,      \* lines of the checkpoint file; <<>> is empty or absent
    pc,        \* per sender: where it is
    today,     \* per sender: the local of SendCrashReport
    last_sent_date_, reports_sent_,   \* per sender: the members
    accepted,  \* history: `today' of every report accepted
    throttled, \* history: the day of the last RESULT_THROTTLED, or -1
    kills,
    lost       \* history: days whose count a failure or a kill may have lost

vars == <<tick, file, pc, today, last_sent_date_, reports_sent_, accepted,
          throttled, kills, lost>>

Signature == "GBP1"
GetCurrentDate == tick \div TicksPerDay
AcceptedOn(d) == Cardinality({i \in DOMAIN accepted : accepted[i] = d})

\* What ReadCheckpoint makes of the lines it finds: a missing or foreign
\* signature changes nothing, a missing date is -1, a missing count is 0.
ReadCheckpoint(f) ==
    [date  |-> IF Len(f) >= 2 /\ f[1] = Signature THEN f[2] ELSE -1,
     count |-> IF Len(f) >= 3 /\ f[1] = Signature THEN f[3] ELSE 0]

Init ==
    /\ tick = 0
    /\ file = <<>>
    /\ pc = [s \in Senders |-> "down"]
    /\ today = [s \in Senders |-> -1]
    /\ last_sent_date_ = [s \in Senders |-> -1]
    /\ reports_sent_ = [s \in Senders |-> 0]
    /\ accepted = <<>>
    /\ throttled = -1
    /\ kills = 0
    /\ lost = {}

\* The constructor: members are set from the checkpoint, if it can be opened.
Construct(s) ==
    /\ pc[s] = "down"
    /\ \E opened \in BOOLEAN :
         LET cp == ReadCheckpoint(IF opened THEN file ELSE <<>>) IN
         /\ last_sent_date_' = [last_sent_date_ EXCEPT ![s] = cp.date]
         /\ reports_sent_' = [reports_sent_ EXCEPT ![s] = cp.count]
         /\ lost' = IF opened THEN lost ELSE lost \cup {GetCurrentDate}
    /\ pc' = [pc EXCEPT ![s] = "idle"]
    /\ UNCHANGED <<tick, file, today, accepted, throttled, kills>>

\* BUG (mutant): the comparison is off by one.
ThrottlesTooLate(s, date) ==
    /\ date = last_sent_date_[s]
    /\ MaxReports # -1
    /\ reports_sent_[s] > MaxReports

Throttles(s, date) ==
    /\ date = last_sent_date_[s]
    /\ MaxReports # -1
    /\ reports_sent_[s] >= MaxReports

\* SendCrashReport up to the upload: RESULT_THROTTLED returns at once.
SendCrashReport(s) ==
    /\ pc[s] = "idle"
    /\ today' = [today EXCEPT ![s] = GetCurrentDate]
    /\ IF Throttles(s, GetCurrentDate)
       THEN throttled' = GetCurrentDate /\ UNCHANGED pc
       ELSE pc' = [pc EXCEPT ![s] = "uploading"] /\ UNCHANGED throttled
    /\ UNCHANGED <<tick, file, last_sent_date_, reports_sent_, accepted, kills, lost>>

\* HTTPUpload::SendRequest fails or is rejected (RESULT_FAILED, RESULT_REJECTED),
\* and the server has not accepted the report.
UploadFails(s) ==
    /\ pc[s] = "uploading"
    /\ pc' = [pc EXCEPT ![s] = "idle"]
    /\ UNCHANGED <<tick, file, today, last_sent_date_, reports_sent_, accepted,
                   throttled, kills, lost>>

\* The server accepts the report; the sender has not looked at the answer yet.
UploadAccepted(s) ==
    /\ pc[s] = "uploading"
    /\ Len(accepted) < MaxAccepted
    /\ accepted' = Append(accepted, today[s])
    /\ pc' = [pc EXCEPT ![s] = "reporting"]
    /\ UNCHANGED <<tick, file, today, last_sent_date_, reports_sent_, throttled,
                   kills, lost>>

\* The server has accepted it, but its answer cannot be read to the end: SendRequest
\* returns false, and the report is RESULT_FAILED and not counted.
AnswerUnread(s) ==
    /\ pc[s] = "reporting"
    /\ lost' = lost \cup {today[s]}
    /\ pc' = [pc EXCEPT ![s] = "idle"]
    /\ UNCHANGED <<tick, file, today, last_sent_date_, reports_sent_, accepted,
                   throttled, kills>>

\* BUG (mutant): the count of the previous day is kept when the date changes.
CountReportKeepsOldDay(s) ==
    /\ last_sent_date_' = [last_sent_date_ EXCEPT ![s] = today[s]]
    /\ reports_sent_' = [reports_sent_ EXCEPT ![s] = @ + 1]

\* What ReportSent makes of the members.
CountReport(s) ==
    /\ last_sent_date_' = [last_sent_date_ EXCEPT ![s] = today[s]]
    /\ reports_sent_' = [reports_sent_ EXCEPT
         ![s] = (IF today[s] # last_sent_date_[s] THEN 0 ELSE @) + 1]

\* ReportSent up to the fopen: "w" truncates; if the file cannot be opened the
\* count stays in memory only.
ReportSent(s) ==
    /\ pc[s] = "reporting"
    /\ CountReport(s)
    /\ \/ /\ file' = <<>>
          /\ pc' = [pc EXCEPT ![s] = "writing"]
          /\ UNCHANGED lost
       \/ /\ pc' = [pc EXCEPT ![s] = "idle"]
          /\ lost' = lost \cup {today[s]}
          /\ UNCHANGED file
    /\ UNCHANGED <<tick, today, accepted, throttled, kills>>

CheckpointLines(s) == <<Signature, last_sent_date_[s], reports_sent_[s]>>

\* The rest of ReportSent: the lines reach the file at the latest at fclose.
CloseCheckpoint(s) ==
    /\ pc[s] = "writing"
    /\ file' = CheckpointLines(s)
    /\ pc' = [pc EXCEPT ![s] = "idle"]
    /\ UNCHANGED <<tick, today, last_sent_date_, reports_sent_, accepted,
                   throttled, kills, lost>>

\* What a number may become when its last digits are not written.
Shortened(n) == {m \in 1..n : \E digits \in 1..n : m = n \div 10^digits}

\* What the file may hold if not all of the lines reach it.
PartialCheckpoint(s) ==
    {SubSeq(CheckpointLines(s), 1, k) : k \in 0..3}
      \cup {<<Signature, last_sent_date_[s], n>> : n \in Shortened(reports_sent_[s])}

\* fputs, fprintf or fclose fails, and nobody looks.
CloseFails(s) ==
    /\ pc[s] = "writing"
    /\ file' \in PartialCheckpoint(s)
    /\ lost' = lost \cup {today[s]}
    /\ pc' = [pc EXCEPT ![s] = "idle"]
    /\ UNCHANGED <<tick, today, last_sent_date_, reports_sent_, accepted, throttled, kills>>

\* The process ends: orderly when it is idle, killed otherwise.
Exit(s) ==
    /\ pc[s] = "idle"
    /\ pc' = [pc EXCEPT ![s] = "down"]
    /\ UNCHANGED <<tick, file, today, last_sent_date_, reports_sent_, accepted,
                   throttled, kills, lost>>

Kill(s) ==
    /\ pc[s] \in {"uploading", "reporting", "writing"}
    /\ kills < MaxKills
    /\ kills' = kills + 1
    /\ IF pc[s] = "writing" THEN file' \in PartialCheckpoint(s) ELSE UNCHANGED file
    /\ lost' = IF pc[s] = "uploading" THEN lost ELSE lost \cup {today[s]}
    /\ pc' = [pc EXCEPT ![s] = "down"]
    /\ UNCHANGED <<tick, today, last_sent_date_, reports_sent_, accepted, throttled>>

Tick ==
    /\ tick < MaxTick
    /\ tick' = tick + 1
    /\ UNCHANGED <<file, pc, today, last_sent_date_, reports_sent_, accepted,
                   throttled, kills, lost>>

Next ==
    \/ Tick
    \/ \E s \in Senders :
         \/ Construct(s) \/ SendCrashReport(s) \/ UploadFails(s)
         \/ UploadAccepted(s) \/ AnswerUnread(s) \/ ReportSent(s)
         \/ CloseCheckpoint(s) \/ CloseFails(s) \/ Exit(s) \/ Kill(s)

Spec == Init /\ [][Next]_vars

-----------------------------------------------------------------------------
Day == 0..(MaxTick \div TicksPerDay)

\* The variables have their types: a checkpoint is a prefix of three lines.
TypeOK ==
    /\ tick \in 0..MaxTick
    /\ Len(file) \in 0..3
    /\ Len(file) >= 1 => file[1] = Signature
    /\ Len(file) >= 2 => file[2] \in Day
    /\ Len(file) >= 3 => file[3] \in Nat
    /\ pc \in [Senders -> {"down", "idle", "uploading", "reporting", "writing"}]
    /\ today \in [Senders -> Day \cup {-1}]
    /\ last_sent_date_ \in [Senders -> Day \cup {-1}]
    /\ reports_sent_ \in [Senders -> Nat]
    /\ accepted \in Seq(Day)
    /\ throttled \in Day \cup {-1}
    /\ kills \in 0..MaxKills
    /\ lost \subseteq Day

\* On a UTC day no more than max_reports_per_day_ reports are sent, over all
\* the processes that ran that day one after the other, unless the day's count
\* was lost: by a kill between the acceptance of a report and fclose, by a
\* checkpoint that could not be opened or written, or by an accepted report whose
\* answer the sender could not read, which it does not count.  (Senders at work at the same time each
\* have their own count; a limit of 0 lets the first report of a day through.)
DailyLimit ==
    MaxReports \notin {-1, 0} /\ Cardinality(Senders) = 1 =>
      \A d \in Day \ lost : AcceptedOn(d) <= MaxReports

\* RESULT_THROTTLED is never given before the day's reports were really sent,
\* whatever was killed, truncated or overwritten: damage to the checkpoint may
\* make a sender forget reports, never count one that was not accepted.
NoEarlyThrottle ==
    throttled # -1 => AcceptedOn(throttled) >= MaxReports

\* The throttle lets through exactly the reports of a day that it should: never too many,
\* and never too few.
ThrottlesExactly == DailyLimit /\ NoEarlyThrottle
=============================================================================
