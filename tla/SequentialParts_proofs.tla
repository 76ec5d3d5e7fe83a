------------------------ MODULE SequentialParts_proofs ------------------------
(***************************************************************************)
(* Theorems about parts that run alone.                                      *)
(*                                                                           *)
(* CrashReportSender, for any number of uploader processes on one checkpoint  *)
(* file, any clock and any limit: they never throttle a day too early, and   *)
(* one at a time never too late.                                             *)
(*                                                                           *)
(* MinidumpFileWriter, for any pages, objects and texts: the regions given    *)
(* out are in order and apart, and hold what was written there.              *)
(*                                                                           *)
(* RangeMap and AddressMap, for addresses of any width and any number of     *)
(* stores: what they hold is what they should, and every lookup answers as a *)
(* set of ranges or addresses would.                                         *)
(*                                                                           *)
(* DwarfCFI, for any registers, instructions and entries: the translator's   *)
(* records keep up with the interpreter's rules, and the assertions of       *)
(* HandleTransitionTo hold.                                                  *)
(*                                                                           *)
(* SymbolRules, for any entries that do not overrun their ends: the reader   *)
(* finds for every address the rules that the interpreter had there.         *)
(*                                                                           *)
(* DwarfLines, for any rows and functions: no assertion of the pass that     *)
(* gives lines to functions fails, and where neither rows nor functions      *)
(* overlap, the processor finds for every address what they say.             *)
(*                                                                           *)
(* SymbolLoading, in StackWalk, for any modules, code and number of loads:   *)
(* the modules of the fast resolver find the buffers they point into.        *)
(***************************************************************************)
EXTENDS CrashReportSender, MinidumpFileWriter, RangeMap, SymbolRules, DwarfLines, SymbolLoading,
        FiniteSetTheorems, TLAPS

-----------------------------------------------------------------------------
(* CrashReportSender: the days. *)

\* Division: what the day of a tick is.
LEMMA DivFacts ==
    ASSUME NEW a \in Nat, NEW n \in Nat \ {0}
    PROVE  a \div n \in Nat /\ n * (a \div n) <= a /\ a < n * (a \div n) + n
  OBVIOUS

\* Different days are a whole day apart.
LEMMA ProductGap ==
    ASSUME NEW n \in Nat \ {0}, NEW p \in Nat, NEW q \in Nat, p < q
    PROVE  n * p + n <= n * q
  <1>1. PICK d \in Nat : q = p + 1 + d
    <2>1. q - p - 1 \in Nat /\ q = p + 1 + (q - p - 1)
      OBVIOUS
    <2> QED
      BY <2>1
  <1>2. n * q = n * p + n + n * d
    BY <1>1
  <1>3. n * d \in Nat /\ n * p \in Nat /\ n * q \in Nat
    OBVIOUS
  <1> QED
    BY <1>2, <1>3

\* A later tick is of no earlier day.
LEMMA DivMonotonic ==
    ASSUME NEW a \in Nat, NEW b \in Nat, a <= b, NEW n \in Nat \ {0}
    PROVE  a \div n <= b \div n
  <1>1. /\ a \div n \in Nat /\ n * (a \div n) <= a
        /\ b \div n \in Nat /\ b < n * (b \div n) + n
    BY DivFacts
  <1>2. SUFFICES ASSUME b \div n < a \div n PROVE FALSE
    BY <1>1
  <1>3. n * (b \div n) + n <= n * (a \div n)
    BY <1>1, <1>2, ProductGap
  <1>4. n * (b \div n) \in Nat /\ n * (a \div n) \in Nat
    BY <1>1
  <1> QED
    BY <1>1, <1>3, <1>4

\* Dates do not go back while the clock does not.
LEMMA DaysPass ==
    ASSUME tick \in 0..MaxTick
    PROVE  /\ GetCurrentDate \in Day /\ Day \subseteq Nat
           /\ tick' \in 0..MaxTick => GetCurrentDate' \in Day
           /\ tick' \in 0..MaxTick /\ tick <= tick' => GetCurrentDate <= GetCurrentDate'
  <1>1. MaxTick \in Nat /\ TicksPerDay \in Nat \ {0}
    BY SenderAssumption DEF SenderAssumption
  <1>2. /\ tick \div TicksPerDay \in Nat /\ MaxTick \div TicksPerDay \in Nat
        /\ tick \div TicksPerDay <= MaxTick \div TicksPerDay
    BY <1>1, DivFacts, DivMonotonic
  <1>3. ASSUME tick' \in 0..MaxTick, tick <= tick'
        PROVE  GetCurrentDate <= GetCurrentDate'
    <2>0. tick \in Nat /\ tick' \in Nat
      BY <1>1, <1>3
    <2>1. tick \div TicksPerDay <= tick' \div TicksPerDay
      BY <1>1, <1>3, <2>0, DivMonotonic
    <2> QED
      BY <2>1 DEF GetCurrentDate
  <1>4. ASSUME tick' \in 0..MaxTick PROVE GetCurrentDate' \in Day
    <2>1. tick' \in Nat /\ tick' <= MaxTick
      BY <1>1, <1>4
    <2>2. tick' \div TicksPerDay \in Nat /\ tick' \div TicksPerDay <= MaxTick \div TicksPerDay
      BY <1>1, <2>1, DivFacts, DivMonotonic
    <2> QED
      BY <1>2, <2>2 DEF GetCurrentDate, Day
  <1> QED
    BY <1>2, <1>3, <1>4 DEF GetCurrentDate, Day

-----------------------------------------------------------------------------
(* CrashReportSender: the reports of a day. *)

\* The reports of one day are counted by a natural number.
LEMMA AcceptedIsNat ==
    ASSUME accepted \in Seq(Day), NEW d PROVE AcceptedOn(d) \in Nat
  <1>1. IsFiniteSet(1..Len(accepted))
    BY FS_Interval
  <1>2. IsFiniteSet({i \in DOMAIN accepted : accepted[i] = d})
    BY <1>1, FS_Subset
  <1> QED
    BY <1>2, FS_CardinalityType DEF AcceptedOn

\* One more report is one more on its day and on no other.
LEMMA AcceptedGrows ==
    ASSUME accepted \in Seq(Day), NEW d \in Day, accepted' = Append(accepted, d)
    PROVE  /\ accepted' \in Seq(Day)
           /\ AcceptedOn(d)' = AcceptedOn(d) + 1
           /\ \A e : e # d => AcceptedOn(e)' = AcceptedOn(e)
  <1> DEFINE of(e) == {i \in DOMAIN accepted : accepted[i] = e}
             now(e) == {i \in DOMAIN accepted' : accepted'[i] = e}
             n == Len(accepted) + 1
  <1>1. /\ Len(accepted) \in Nat /\ DOMAIN accepted = 1..Len(accepted)
        /\ accepted' \in Seq(Day) /\ DOMAIN accepted' = 1..n /\ accepted'[n] = d
        /\ \A i \in 1..Len(accepted) : accepted'[i] = accepted[i]
    OBVIOUS
  <1>2. 1..n = (1..Len(accepted)) \cup {n} /\ n \notin 1..Len(accepted)
    BY <1>1
  <1>3. now(d) = of(d) \cup {n} /\ n \notin of(d)
    BY <1>1, <1>2
  <1>4. \A e : e # d => now(e) = of(e)
    BY <1>1, <1>2
  <1>5. IsFiniteSet(of(d))
    <2>1. IsFiniteSet(1..Len(accepted)) /\ of(d) \subseteq 1..Len(accepted)
      BY <1>1, FS_Interval
    <2> QED
      BY <2>1, FS_Subset
  <1>6. \A e : AcceptedOn(e) = Cardinality(of(e)) /\ AcceptedOn(e)' = Cardinality(now(e))
    BY DEF AcceptedOn
  <1> HIDE DEF of, now, n
  <1>7. Cardinality(now(d)) = Cardinality(of(d)) + 1
    BY <1>3, <1>5, FS_AddElement
  <1> QED
    BY <1>1, <1>4, <1>6, <1>7

-----------------------------------------------------------------------------
(* CrashReportSender: what the members and the checkpoint count. *)

Lines == {Signature} \cup Day \cup Nat
Working(s) == pc[s] \in {"uploading", "reporting", "writing"}

\* The types, and the day a sender works for: that of its upload, and of the lines it
\* writes.
SenderInv ==
    /\ TypeOK /\ file \in Seq(Lines)
    /\ \A s \in Senders :
          /\ Working(s) => today[s] \in Day
          /\ pc[s] = "writing" => last_sent_date_[s] \in Day

\* Neither a member nor a line counts a report that was not accepted; one whose report
\* is not counted yet is one behind.
CountInv ==
    /\ \A s \in Senders :
          /\ last_sent_date_[s] # -1 => reports_sent_[s] <= AcceptedOn(last_sent_date_[s])
          /\ pc[s] = "reporting" =>
                /\ AcceptedOn(today[s]) >= 1
                /\ last_sent_date_[s] = today[s] =>
                      reports_sent_[s] + 1 <= AcceptedOn(today[s])
    /\ Len(file) >= 3 => file[3] <= AcceptedOn(file[2])
    /\ NoEarlyThrottle

\* The clock is within its days.
LEMMA ClockFacts ==
    ASSUME SenderInv
    PROVE  /\ TypeOK /\ GetCurrentDate \in Day /\ Day \subseteq Nat /\ -1 \notin Day
           /\ Day' = Day
  <1>1. TypeOK
    BY DEF SenderInv
  <1>2. tick \in 0..MaxTick
    BY <1>1 DEF TypeOK
  <1>3. GetCurrentDate \in Day /\ Day \subseteq Nat
    BY <1>2, DaysPass
  <1>4. -1 \notin Day /\ Day' = Day
    BY <1>3 DEF Day
  <1> QED
    BY <1>1, <1>3, <1>4

\* A prefix of the lines of a checkpoint.
LEMMA PrefixOfLines ==
    ASSUME NEW d \in Day, NEW n \in Nat, NEW k \in 0..3, NEW f,
           f = SubSeq(<<Signature, d, n>>, 1, k)
    PROVE  /\ f \in Seq(Lines) /\ Len(f) = k
           /\ k >= 1 => f[1] = Signature
           /\ k >= 2 => f[2] = d
           /\ k >= 3 => f[3] = n
  <1> DEFINE g == <<Signature, d, n>>
  <1>1. g \in Seq(Lines) /\ Len(g) = 3 /\ g[1] = Signature /\ g[2] = d /\ g[3] = n
    BY DEF Lines
  <1>2. f = SubSeq(g, 1, k)
    OBVIOUS
  <1> HIDE DEF g
  <1>3. f \in Seq(Lines) /\ Len(f) = k /\ \A i \in 1..k : f[i] = g[i]
    <2>1. f = [i \in 1..k |-> g[i]]
      BY <1>1, <1>2
    <2>2. ASSUME NEW i \in 1..k PROVE g[i] \in Lines
      <3>1. i \in 1..3
        OBVIOUS
      <3> QED BY <1>1, <3>1
    <2> DEFINE h == [i \in 1..k |-> g[i]]
    <2>3. h \in [1..k -> Lines] /\ \A i \in 1..k : h[i] = g[i]
      BY <2>2
    <2> HIDE DEF h
    <2>4. k \in Nat
      OBVIOUS
    <2>5. h \in Seq(Lines) /\ Len(h) = k
      BY <2>3, <2>4
    <2> QED BY <2>1, <2>3, <2>5 DEF h
  <1> QED
    BY <1>1, <1>3

\* What is left of a checkpoint that is not written to the end counts no more than it.
LEMMA PartialFacts ==
    ASSUME NEW s \in Senders, last_sent_date_[s] \in Day, reports_sent_[s] \in Nat,
           NEW f \in PartialCheckpoint(s)
    PROVE  /\ f \in Seq(Lines) /\ Len(f) \in 0..3
           /\ Len(f) >= 1 => f[1] = Signature
           /\ Len(f) >= 2 => f[2] = last_sent_date_[s]
           /\ Len(f) >= 3 => f[3] \in Nat /\ f[3] <= reports_sent_[s]
  <1> DEFINE d == last_sent_date_[s]
             n == reports_sent_[s]
  <1>0. d \in Day /\ n \in Nat
    OBVIOUS
  <1>1. \/ \E k \in 0..3 : f = SubSeq(<<Signature, d, n>>, 1, k)
        \/ \E m \in Shortened(n) : f = <<Signature, d, m>>
    BY DEF PartialCheckpoint, CheckpointLines
  <1> HIDE DEF d, n
  <1>2. CASE \E k \in 0..3 : f = SubSeq(<<Signature, d, n>>, 1, k)
    <2>1. PICK k \in 0..3 : f = SubSeq(<<Signature, d, n>>, 1, k)
      BY <1>2
    <2>2. /\ f \in Seq(Lines) /\ Len(f) = k /\ (k >= 1 => f[1] = Signature)
          /\ (k >= 2 => f[2] = d) /\ (k >= 3 => f[3] = n)
      BY <1>0, <2>1, PrefixOfLines
    <2> QED
      BY <1>0, <2>2 DEF d, n
  <1>3. CASE \E m \in Shortened(n) : f = <<Signature, d, m>>
    <2>1. PICK m \in Nat : m <= n /\ f = <<Signature, d, m>>
      <3>1. Shortened(n) \subseteq 1..n
        BY DEF Shortened
      <3> QED
        BY <1>0, <1>3, <3>1
    <2>2. f \in Seq(Lines) /\ Len(f) = 3 /\ f[1] = Signature /\ f[2] = d /\ f[3] = m
      BY <1>0, <2>1 DEF Lines
    <2> QED
      BY <2>1, <2>2 DEF d, n
  <1> QED
    BY <1>1, <1>2, <1>3

\* What the constructor finds.
LEMMA CheckpointFacts ==
    ASSUME SenderInv, NEW opened \in BOOLEAN
    PROVE  LET cp == ReadCheckpoint(IF opened THEN file ELSE <<>>) IN
           /\ cp.date \in Day \cup {-1} /\ cp.count \in Nat
           /\ cp.date = IF opened /\ Len(file) >= 2 THEN file[2] ELSE -1
           /\ cp.count = IF opened /\ Len(file) >= 3 THEN file[3] ELSE 0
  <1>1. /\ Len(file) \in 0..3 /\ (Len(file) >= 1 => file[1] = Signature)
        /\ (Len(file) >= 2 => file[2] \in Day) /\ (Len(file) >= 3 => file[3] \in Nat)
    BY DEF SenderInv, TypeOK
  <1>2. Len(<<>>) = 0
    OBVIOUS
  <1>3. CASE opened
    BY <1>1, <1>3 DEF ReadCheckpoint
  <1>4. CASE ~opened
    BY <1>2, <1>4 DEF ReadCheckpoint
  <1> QED
    BY <1>3, <1>4

\* Every step keeps the variables in their types.
LEMMA SenderSteps ==
    ASSUME SenderInv, [Next]_vars
    PROVE  SenderInv'
  <1> USE DEF Working
  <1>t. /\ SenderInv /\ TypeOK
        /\ GetCurrentDate \in Day /\ Day \subseteq Nat /\ -1 \notin Day
    BY ClockFacts
  <1>d. Day' = Day
    BY DEF Day
  <1>1. CASE Tick
    <2>1. tick' \in 0..MaxTick
      BY <1>t, <1>1, SenderAssumption DEF Tick, TypeOK, SenderAssumption
    <2> QED
      BY <1>t, <1>d, <1>1, <2>1 DEF Tick, SenderInv, TypeOK
  <1>2. ASSUME NEW s \in Senders, Construct(s) PROVE SenderInv'
    <2>1. PICK opened \in BOOLEAN :
             LET cp == ReadCheckpoint(IF opened THEN file ELSE <<>>) IN
             /\ last_sent_date_' = [last_sent_date_ EXCEPT ![s] = cp.date]
             /\ reports_sent_' = [reports_sent_ EXCEPT ![s] = cp.count]
             /\ lost' = IF opened THEN lost ELSE lost \cup {GetCurrentDate}
      BY <1>2 DEF Construct
    <2>2. /\ last_sent_date_' \in [Senders -> Day \cup {-1}]
          /\ reports_sent_' \in [Senders -> Nat] /\ lost' \subseteq Day
          /\ \A r \in Senders \ {s} : last_sent_date_'[r] = last_sent_date_[r]
      BY <1>t, <2>1, CheckpointFacts DEF TypeOK
    <2>3. /\ pc' = [pc EXCEPT ![s] = "idle"] /\ pc[s] = "down"
          /\ UNCHANGED <<tick, file, today, accepted, throttled, kills>>
      BY <1>2 DEF Construct
    <2> QED
      BY <1>t, <1>d, <2>2, <2>3 DEF SenderInv, TypeOK
  <1>3. ASSUME NEW s \in Senders, SendCrashReport(s) PROVE SenderInv'
    BY <1>t, <1>d, <1>3 DEF SendCrashReport, SenderInv, TypeOK
  <1>4. ASSUME NEW s \in Senders, UploadFails(s) PROVE SenderInv'
    BY <1>t, <1>d, <1>4 DEF UploadFails, SenderInv, TypeOK
  <1>5. ASSUME NEW s \in Senders, UploadAccepted(s) PROVE SenderInv'
    <2>1. today[s] \in Day
      BY <1>t, <1>5 DEF UploadAccepted, SenderInv
    <2>2. accepted' \in Seq(Day)
      BY <1>t, <1>5, <2>1 DEF UploadAccepted, TypeOK
    <2> QED
      BY <1>t, <1>d, <1>5, <2>1, <2>2 DEF UploadAccepted, SenderInv, TypeOK
  <1>6. ASSUME NEW s \in Senders, ReportSent(s) PROVE SenderInv'
    <2>1. today[s] \in Day /\ pc[s] = "reporting"
      BY <1>t, <1>6 DEF ReportSent, SenderInv
    <2>2. /\ last_sent_date_' = [last_sent_date_ EXCEPT ![s] = today[s]]
          /\ reports_sent_' \in [Senders -> Nat]
      BY <1>t, <1>6 DEF ReportSent, CountReport, TypeOK
    <2>3. /\ UNCHANGED <<tick, today, accepted, throttled, kills>>
          /\ \/ file' = <<>> /\ pc' = [pc EXCEPT ![s] = "writing"] /\ lost' = lost
             \/ /\ pc' = [pc EXCEPT ![s] = "idle"] /\ lost' = lost \cup {today[s]}
                /\ file' = file
      BY <1>6 DEF ReportSent
    <2>4. /\ file' \in Seq(Lines) /\ Len(file') \in 0..3
          /\ Len(file') >= 1 => file'[1] = Signature
          /\ Len(file') >= 2 => file'[2] \in Day
          /\ Len(file') >= 3 => file'[3] \in Nat
      <3>1. CASE file' = <<>>
        <4>1. Len(file') = 0
          BY <3>1
        <4> QED
          BY <3>1, <4>1
      <3>2. CASE file' = file
        BY <1>t, <3>2 DEF SenderInv, TypeOK
      <3> QED
        BY <2>3, <3>1, <3>2
    <2>5. last_sent_date_' \in [Senders -> Day \cup {-1}] /\ last_sent_date_'[s] \in Day
      BY <1>t, <2>1, <2>2 DEF TypeOK
    <2>6. /\ pc' \in [Senders -> {"down", "idle", "uploading", "reporting", "writing"}]
          /\ lost' \subseteq Day /\ pc'[s] # "reporting"
          /\ \A r \in Senders \ {s} : pc'[r] = pc[r]
      BY <1>t, <2>1, <2>3 DEF TypeOK
    <2>7. TypeOK'
      BY <1>t, <1>d, <2>2, <2>3, <2>4, <2>5, <2>6 DEF TypeOK, Signature
    <2>9. \A r \in Senders \ {s} : last_sent_date_'[r] = last_sent_date_[r]
      BY <1>t, <2>2 DEF TypeOK
    <2>10. ASSUME NEW r \in Senders
           PROVE  /\ Working(r)' => today'[r] \in Day
                  /\ pc'[r] = "writing" => last_sent_date_'[r] \in Day
      <3>1. CASE r = s
        BY <2>1, <2>3, <2>5, <3>1
      <3>2. CASE r # s
        <4>1. pc'[r] = pc[r] /\ last_sent_date_'[r] = last_sent_date_[r] /\ today' = today
          BY <2>3, <2>6, <2>9, <3>2
        <4> QED
          BY <1>t, <4>1 DEF SenderInv
      <3> QED
        BY <3>1, <3>2
    <2>8. Lines' = Lines
      BY <1>d DEF Lines, Signature
    <2> QED
      BY <1>d, <2>4, <2>7, <2>8, <2>10 DEF SenderInv
  <1>7. ASSUME NEW s \in Senders, CloseCheckpoint(s) PROVE SenderInv'
    <2>1. last_sent_date_[s] \in Day /\ reports_sent_[s] \in Nat
      BY <1>t, <1>7 DEF CloseCheckpoint, SenderInv, TypeOK
    <2>2. file' = <<Signature, last_sent_date_[s], reports_sent_[s]>>
      BY <1>7 DEF CloseCheckpoint, CheckpointLines
    <2>3. /\ file' \in Seq(Lines) /\ Len(file') = 3 /\ file'[1] = Signature
          /\ file'[2] \in Day /\ file'[3] \in Nat
      BY <2>1, <2>2 DEF Lines
    <2>4. /\ pc' = [pc EXCEPT ![s] = "idle"]
          /\ UNCHANGED <<tick, today, last_sent_date_, reports_sent_, accepted,
                         throttled, kills, lost>>
      BY <1>7 DEF CloseCheckpoint
    <2>5. TypeOK'
      <3>1. pc' \in [Senders -> {"down", "idle", "uploading", "reporting", "writing"}]
        BY <1>t, <2>4 DEF TypeOK
      <3>2. Len(file') \in 0..3 /\ file'[1] = Signature' /\ file'[2] \in Day' /\ file'[3] \in Nat
        BY <1>d, <2>3 DEF Signature
      <3> QED BY <1>t, <1>d, <2>4, <3>1, <3>2 DEF TypeOK
    <2>6. Lines' = Lines
      BY <1>d DEF Lines, Signature
    <2> QED
      BY <1>t, <1>d, <2>3, <2>4, <2>5, <2>6 DEF SenderInv, TypeOK
  <1>8. ASSUME NEW s \in Senders, Exit(s) PROVE SenderInv'
    BY <1>t, <1>d, <1>8 DEF Exit, SenderInv, TypeOK
  <1>9. ASSUME NEW s \in Senders, Kill(s) PROVE SenderInv'
    <2>1. /\ Working(s) /\ kills < MaxKills /\ kills' = kills + 1
          /\ pc' = [pc EXCEPT ![s] = "down"]
          /\ UNCHANGED <<tick, today, last_sent_date_, reports_sent_, accepted, throttled>>
          /\ today[s] \in Day
      BY <1>t, <1>9 DEF Kill, SenderInv
    <2>2. lost' \subseteq Day
      BY <1>t, <1>9, <2>1 DEF Kill, TypeOK
    <2>3. /\ file' \in Seq(Lines) /\ Len(file') \in 0..3
          /\ Len(file') >= 1 => file'[1] = Signature
          /\ Len(file') >= 2 => file'[2] \in Day
          /\ Len(file') >= 3 => file'[3] \in Nat
      <3>1. CASE pc[s] = "writing"
        <4>1. last_sent_date_[s] \in Day /\ reports_sent_[s] \in Nat
          BY <1>t, <3>1 DEF SenderInv, TypeOK
        <4>2. file' \in PartialCheckpoint(s)
          BY <1>9, <3>1 DEF Kill
        <4> QED
          BY <4>1, <4>2, PartialFacts
      <3>2. CASE pc[s] # "writing"
        <4>1. file' = file
          BY <1>9, <3>2 DEF Kill
        <4> QED
          BY <1>t, <4>1 DEF SenderInv, TypeOK
      <3> QED
        BY <3>1, <3>2
    <2>4. kills' \in 0..MaxKills
      BY <1>t, <2>1, SenderAssumption DEF TypeOK, SenderAssumption
    <2>5. TypeOK'
      BY <1>t, <1>d, <2>1, <2>2, <2>3, <2>4 DEF TypeOK, Signature
    <2>6. Lines' = Lines
      BY <1>d DEF Lines, Signature
    <2> QED
      BY <1>t, <1>d, <2>1, <2>3, <2>5, <2>6 DEF SenderInv, TypeOK
  <1>10. ASSUME NEW s \in Senders, AnswerUnread(s) PROVE SenderInv'
    BY <1>t, <1>d, <1>10 DEF AnswerUnread, SenderInv, TypeOK
  <1>11. ASSUME NEW s \in Senders, CloseFails(s) PROVE SenderInv'
    <2>1. last_sent_date_[s] \in Day /\ reports_sent_[s] \in Nat /\ today[s] \in Day
      BY <1>t, <1>11 DEF CloseFails, SenderInv, TypeOK
    <2>2. /\ file' \in PartialCheckpoint(s) /\ lost' = lost \cup {today[s]}
          /\ pc' = [pc EXCEPT ![s] = "idle"]
          /\ UNCHANGED <<tick, today, last_sent_date_, reports_sent_, accepted, throttled, kills>>
      BY <1>11 DEF CloseFails
    <2>3. /\ file' \in Seq(Lines) /\ Len(file') \in 0..3
          /\ Len(file') >= 1 => file'[1] = Signature
          /\ Len(file') >= 2 => file'[2] \in Day
          /\ Len(file') >= 3 => file'[3] \in Nat
      BY <2>1, <2>2, PartialFacts
    <2>4. TypeOK'
      BY <1>t, <1>d, <2>1, <2>2, <2>3 DEF TypeOK, Signature
    <2>5. Lines' = Lines
      BY <1>d DEF Lines, Signature
    <2> QED
      BY <1>t, <1>d, <2>2, <2>3, <2>4, <2>5 DEF SenderInv, TypeOK
  <1>12. CASE UNCHANGED vars
    BY <1>t, <1>d, <1>12 DEF vars, SenderInv, TypeOK
  <1> QED
    BY <1>1, <1>2, <1>3, <1>4, <1>5, <1>6, <1>7, <1>8, <1>9, <1>10, <1>11, <1>12 DEF Next

\* Nor does it count a report that was not accepted.
LEMMA PartialCounts ==
    ASSUME SenderInv, CountInv, NEW s \in Senders,
           last_sent_date_[s] \in Day, reports_sent_[s] \in Nat,
           NEW f \in PartialCheckpoint(s), Len(f) >= 3
    PROVE  f[3] <= AcceptedOn(f[2])
  <1>1. f[2] = last_sent_date_[s] /\ f[3] \in Nat /\ f[3] <= reports_sent_[s]
    BY PartialFacts
  <1>2. last_sent_date_[s] # -1 /\ AcceptedOn(last_sent_date_[s]) \in Nat
    <2>1. TypeOK /\ -1 \notin Day
      BY ClockFacts
    <2> QED
      BY <2>1, AcceptedIsNat DEF TypeOK
  <1>3. reports_sent_[s] <= AcceptedOn(last_sent_date_[s])
    BY <1>2 DEF CountInv
  <1> QED
    BY <1>1, <1>2, <1>3

\* No step counts a report that was not accepted.
LEMMA CountSteps ==
    ASSUME SenderInv, CountInv, [Next]_vars
    PROVE  CountInv'
  <1>t. /\ SenderInv /\ TypeOK /\ GetCurrentDate \in Day
        /\ Day \subseteq Nat /\ -1 \notin Day /\ Day' = Day
    BY ClockFacts
  <1>n. \A d : AcceptedOn(d) \in Nat
    BY <1>t, AcceptedIsNat DEF TypeOK
  <1>m. MaxReports \in Nat \cup {-1}
    BY SenderAssumption DEF SenderAssumption
  <1>a. ASSUME accepted' = accepted PROVE \A d : AcceptedOn(d)' = AcceptedOn(d)
    BY <1>a DEF AcceptedOn
  <1>0. ASSUME accepted' = accepted, file' = file, throttled' = throttled,
               last_sent_date_' = last_sent_date_, reports_sent_' = reports_sent_,
               \A s \in Senders : pc'[s] = "reporting" => pc[s] = "reporting"
                                                           /\ today'[s] = today[s]
        PROVE  CountInv'
    BY <1>a, <1>0 DEF CountInv, NoEarlyThrottle
  <1>1. CASE Tick
    BY <1>0, <1>1 DEF Tick
  <1>2. ASSUME NEW s \in Senders, Construct(s) PROVE CountInv'
    <2>1. PICK opened \in BOOLEAN :
             LET cp == ReadCheckpoint(IF opened THEN file ELSE <<>>) IN
             /\ last_sent_date_' = [last_sent_date_ EXCEPT ![s] = cp.date]
             /\ reports_sent_' = [reports_sent_ EXCEPT ![s] = cp.count]
      BY <1>2 DEF Construct
    <2>2. /\ last_sent_date_'[s] = IF opened /\ Len(file) >= 2 THEN file[2] ELSE -1
          /\ reports_sent_'[s] = IF opened /\ Len(file) >= 3 THEN file[3] ELSE 0
          /\ \A r \in Senders \ {s} : /\ last_sent_date_'[r] = last_sent_date_[r]
                                      /\ reports_sent_'[r] = reports_sent_[r]
      BY <1>t, <2>1, CheckpointFacts DEF TypeOK
    <2>3. /\ pc' = [pc EXCEPT ![s] = "idle"] /\ pc[s] = "down"
          /\ UNCHANGED <<tick, file, today, accepted, throttled, kills>>
      BY <1>2 DEF Construct
    <2>4. pc'[s] = "idle" /\ \A r \in Senders \ {s} : pc'[r] = pc[r]
      BY <1>t, <2>3 DEF TypeOK
    <2>5. \A d : AcceptedOn(d)' = AcceptedOn(d)
      BY <1>a, <2>3
    <2>6. last_sent_date_'[s] # -1 =>
             reports_sent_'[s] <= AcceptedOn(last_sent_date_'[s])
      BY <1>t, <1>n, <2>2 DEF CountInv, TypeOK
    <2> QED
      BY <1>t, <2>2, <2>3, <2>4, <2>5, <2>6 DEF CountInv, NoEarlyThrottle
  <1>3. ASSUME NEW s \in Senders, SendCrashReport(s) PROVE CountInv'
    <2>1. /\ UNCHANGED <<file, last_sent_date_, reports_sent_, accepted>>
          /\ pc[s] = "idle" /\ pc' \in {pc, [pc EXCEPT ![s] = "uploading"]}
          /\ today' = [today EXCEPT ![s] = GetCurrentDate]
      BY <1>3 DEF SendCrashReport
    <2>2. \A r \in Senders : pc'[r] = "reporting" => pc[r] = "reporting"
                                                     /\ today'[r] = today[r]
      BY <1>t, <2>1 DEF TypeOK
    <2>3. \A d : AcceptedOn(d)' = AcceptedOn(d)
      BY <1>a, <2>1
    <2>4. CASE throttled' = throttled
      BY <1>0, <2>1, <2>2, <2>4
    <2>5. CASE throttled' = GetCurrentDate /\ Throttles(s, GetCurrentDate)
      <3>1. /\ last_sent_date_[s] = GetCurrentDate /\ last_sent_date_[s] # -1
            /\ MaxReports <= reports_sent_[s]
            /\ reports_sent_[s] \in Nat
        BY <1>t, <1>m, <2>5 DEF Throttles, TypeOK
      <3>2. MaxReports <= AcceptedOn(GetCurrentDate)
        BY <1>n, <1>m, <3>1 DEF CountInv
      <3>3. AcceptedOn(throttled)' = AcceptedOn(throttled')
        BY <2>1 DEF AcceptedOn
      <3> QED
        BY <2>1, <2>2, <2>3, <2>5, <3>2, <3>3 DEF CountInv, NoEarlyThrottle
    <2> QED
      BY <1>3, <2>4, <2>5 DEF SendCrashReport
  <1>4. ASSUME NEW s \in Senders, UploadFails(s) PROVE CountInv'
    <2>1. \A r \in Senders : pc'[r] = "reporting" => pc[r] = "reporting"
      BY <1>t, <1>4 DEF UploadFails, TypeOK
    <2> QED
      BY <1>0, <1>4, <2>1 DEF UploadFails
  <1>5. ASSUME NEW s \in Senders, UploadAccepted(s) PROVE CountInv'
    <2>1. /\ today[s] \in Day /\ pc[s] = "uploading" /\ accepted' = Append(accepted, today[s])
          /\ pc' = [pc EXCEPT ![s] = "reporting"]
          /\ UNCHANGED <<file, today, last_sent_date_, reports_sent_, throttled>>
      BY <1>t, <1>5 DEF UploadAccepted, SenderInv, Working
    <2>2. pc'[s] = "reporting" /\ \A r \in Senders \ {s} : pc'[r] = pc[r]
      BY <1>t, <2>1 DEF TypeOK
    <2>3. PICK day \in Day : day = today[s]
      BY <2>1
    <2>4. /\ AcceptedOn(day)' = AcceptedOn(day) + 1
          /\ \A e : e # day => AcceptedOn(e)' = AcceptedOn(e)
      BY <1>t, <2>1, <2>3, AcceptedGrows DEF TypeOK
    <2>5. \A d : AcceptedOn(d)' \in Nat /\ AcceptedOn(d) <= AcceptedOn(d)'
      BY <1>n, <2>4
    <2>6. \A d : \A n \in Int : n <= AcceptedOn(d) => n <= AcceptedOn(d)'
      BY <1>n, <2>5
    <2>7. ASSUME NEW r \in Senders
          PROVE  /\ last_sent_date_'[r] # -1 =>
                       reports_sent_'[r] <= AcceptedOn(last_sent_date_[r])'
                 /\ pc'[r] = "reporting" =>
                       /\ AcceptedOn(today[r])' >= 1
                       /\ last_sent_date_'[r] = today'[r] =>
                             reports_sent_'[r] + 1 <= AcceptedOn(today[r])'
      <3>1. PICK date \in Day \cup {-1}, now \in Day \cup {-1}, n \in Nat :
               date = last_sent_date_[r] /\ now = today[r] /\ n = reports_sent_[r]
        BY <1>t DEF TypeOK
      <3>2. /\ date = last_sent_date_'[r] /\ now = today'[r] /\ n = reports_sent_'[r]
        BY <2>1, <3>1
      <3>3. date # -1 => n <= AcceptedOn(date)
        BY <3>1 DEF CountInv
      <3>4. /\ AcceptedOn(last_sent_date_[r])' = AcceptedOn(date)'
            /\ AcceptedOn(today[r])' = AcceptedOn(now)'
        BY <3>2
      <3>5. date # -1 => n <= AcceptedOn(date)'
        BY <2>6, <3>3
      <3>6. CASE r = s
        <4>1. now = day /\ now # -1
          BY <1>t, <2>3, <3>1, <3>6
        <4>2. AcceptedOn(now)' >= 1 /\ (date = now => n + 1 <= AcceptedOn(now)')
          BY <1>n, <2>4, <3>3, <4>1
        <4> QED
          BY <3>2, <3>4, <3>5, <4>2
      <3>7. CASE r # s /\ pc'[r] = "reporting"
        <4>1. AcceptedOn(now) >= 1 /\ (date = now => n + 1 <= AcceptedOn(now))
          BY <2>2, <3>1, <3>7 DEF CountInv
        <4>2. AcceptedOn(now)' >= 1 /\ (date = now => n + 1 <= AcceptedOn(now)')
          BY <1>n, <2>6, <4>1
        <4> QED
          BY <3>2, <3>4, <3>5, <4>2
      <3> QED
        BY <2>2, <3>2, <3>4, <3>5, <3>6, <3>7
    <2>8. (Len(file) >= 3 => file[3] <= AcceptedOn(file[2]))'
      <3>1. PICK date, n : date = file[2] /\ n = file[3]
        OBVIOUS
      <3>2. /\ date = file'[2] /\ n = file'[3] /\ file' = file
            /\ Len(file) >= 3 => n \in Nat /\ n <= AcceptedOn(date)
        BY <1>t, <2>1, <3>1 DEF TypeOK, CountInv
      <3>3. Len(file') >= 3 => n <= AcceptedOn(date)'
        BY <2>6, <3>2
      <3> QED
        BY <3>2, <3>3
    <2>9. NoEarlyThrottle'
      <3>1. PICK date : date = throttled /\ date = throttled'
        BY <2>1
      <3>2. date # -1 => MaxReports <= AcceptedOn(date)
        BY <1>n, <1>m, <3>1 DEF CountInv, NoEarlyThrottle
      <3>3. date # -1 => MaxReports <= AcceptedOn(date)'
        BY <1>m, <2>6, <3>2
      <3> QED
        BY <1>m, <2>5, <3>1, <3>3 DEF NoEarlyThrottle
    <2> QED
      BY <2>7, <2>8, <2>9 DEF CountInv
  <1>6. ASSUME NEW s \in Senders, ReportSent(s) PROVE CountInv'
    <2>1. /\ pc[s] = "reporting" /\ today[s] \in Day
          /\ pc' \in {[pc EXCEPT ![s] = "writing"], [pc EXCEPT ![s] = "idle"]}
          /\ file' = <<>> \/ file' = file
          /\ last_sent_date_' = [last_sent_date_ EXCEPT ![s] = today[s]]
          /\ reports_sent_' = [reports_sent_ EXCEPT
                ![s] = (IF today[s] # last_sent_date_[s] THEN 0 ELSE @) + 1]
          /\ UNCHANGED <<today, accepted, throttled>>
      BY <1>t, <1>6 DEF ReportSent, CountReport, SenderInv, Working
    <2>2. /\ pc'[s] # "reporting" /\ last_sent_date_'[s] = today[s]
          /\ reports_sent_'[s] = (IF today[s] # last_sent_date_[s] THEN 0
                                  ELSE reports_sent_[s]) + 1
          /\ \A r \in Senders \ {s} : /\ pc'[r] = pc[r]
                                      /\ last_sent_date_'[r] = last_sent_date_[r]
                                      /\ reports_sent_'[r] = reports_sent_[r]
      BY <1>t, <2>1 DEF TypeOK
    <2>3. \A d : AcceptedOn(d)' = AcceptedOn(d)
      BY <1>a, <2>1
    <2>4. reports_sent_'[s] <= AcceptedOn(today[s])
      BY <1>t, <1>n, <2>1, <2>2 DEF CountInv, TypeOK
    <2>5. Len(file') >= 3 => file'[3] <= AcceptedOn(file'[2])
      <3>1. CASE file' = <<>>
        <4>1. Len(file') = 0
          BY <3>1
        <4> QED
          BY <4>1
      <3>2. CASE file' = file
        BY <3>2 DEF CountInv
      <3> QED
        BY <2>1, <3>1, <3>2
    <2> QED
      BY <2>1, <2>2, <2>3, <2>4, <2>5 DEF CountInv, NoEarlyThrottle
  <1>7. ASSUME NEW s \in Senders, CloseCheckpoint(s) PROVE CountInv'
    <2>1. /\ file' = <<Signature, last_sent_date_[s], reports_sent_[s]>>
          /\ last_sent_date_[s] \in Day
          /\ pc' = [pc EXCEPT ![s] = "idle"]
          /\ UNCHANGED <<today, last_sent_date_, reports_sent_, accepted, throttled>>
      BY <1>t, <1>7 DEF CloseCheckpoint, CheckpointLines, SenderInv
    <2>2. \A r \in Senders : pc'[r] = "reporting" => pc[r] = "reporting"
      BY <1>t, <2>1 DEF TypeOK
    <2>3. \A d : AcceptedOn(d)' = AcceptedOn(d)
      BY <1>a, <2>1
    <2>4. file'[2] = last_sent_date_[s] /\ file'[3] = reports_sent_[s]
      BY <2>1
    <2>5. file'[3] <= AcceptedOn(file'[2])
      BY <1>t, <2>1, <2>4 DEF CountInv
    <2> QED
      BY <2>1, <2>2, <2>3, <2>5 DEF CountInv, NoEarlyThrottle
  <1>8. ASSUME NEW s \in Senders, Exit(s) PROVE CountInv'
    <2>1. \A r \in Senders : pc'[r] = "reporting" => pc[r] = "reporting"
      BY <1>t, <1>8 DEF Exit, TypeOK
    <2> QED
      BY <1>0, <1>8, <2>1 DEF Exit
  <1>9. ASSUME NEW s \in Senders, Kill(s) PROVE CountInv'
    <2>1. /\ pc' = [pc EXCEPT ![s] = "down"]
          /\ UNCHANGED <<today, last_sent_date_, reports_sent_, accepted, throttled>>
      BY <1>9 DEF Kill
    <2>2. \A r \in Senders : pc'[r] = "reporting" => pc[r] = "reporting"
      BY <1>t, <2>1 DEF TypeOK
    <2>3. \A d : AcceptedOn(d)' = AcceptedOn(d)
      BY <1>a, <2>1
    <2>4. Len(file') >= 3 => file'[3] <= AcceptedOn(file'[2])
      <3>1. CASE pc[s] = "writing"
        <4>1. last_sent_date_[s] \in Day /\ reports_sent_[s] \in Nat
          BY <1>t, <3>1 DEF SenderInv, TypeOK
        <4>2. file' \in PartialCheckpoint(s)
          BY <1>9, <3>1 DEF Kill
        <4> QED
          BY <1>t, <4>1, <4>2, PartialCounts
      <3>2. CASE pc[s] # "writing"
        <4>1. file' = file
          BY <1>9, <3>2 DEF Kill
        <4> QED
          BY <4>1 DEF CountInv
      <3> QED
        BY <3>1, <3>2
    <2> QED
      BY <2>1, <2>2, <2>3, <2>4 DEF CountInv, NoEarlyThrottle
  <1>10. ASSUME NEW s \in Senders, AnswerUnread(s) PROVE CountInv'
    <2>1. \A r \in Senders : pc'[r] = "reporting" => pc[r] = "reporting"
      BY <1>t, <1>10 DEF AnswerUnread, TypeOK
    <2> QED
      BY <1>0, <1>10, <2>1 DEF AnswerUnread
  <1>11. ASSUME NEW s \in Senders, CloseFails(s) PROVE CountInv'
    <2>1. /\ file' \in PartialCheckpoint(s) /\ pc' = [pc EXCEPT ![s] = "idle"]
          /\ UNCHANGED <<today, last_sent_date_, reports_sent_, accepted, throttled>>
          /\ last_sent_date_[s] \in Day /\ reports_sent_[s] \in Nat
      BY <1>t, <1>11 DEF CloseFails, SenderInv, TypeOK
    <2>2. \A r \in Senders : pc'[r] = "reporting" => pc[r] = "reporting"
      BY <1>t, <2>1 DEF TypeOK
    <2>3. \A d : AcceptedOn(d)' = AcceptedOn(d)
      BY <1>a, <2>1
    <2>4. Len(file') >= 3 => file'[3] <= AcceptedOn(file'[2])
      BY <1>t, <2>1, PartialCounts
    <2> QED
      BY <2>1, <2>2, <2>3, <2>4 DEF CountInv, NoEarlyThrottle
  <1>12. CASE UNCHANGED vars
    BY <1>0, <1>12 DEF vars
  <1> QED
    BY <1>1, <1>2, <1>3, <1>4, <1>5, <1>6, <1>7, <1>8, <1>9, <1>10, <1>11, <1>12 DEF Next

-----------------------------------------------------------------------------
(* CrashReportSender: a single sender counts every report of a day. *)

\* The earliest day a sender may still count a report for.
Present(s) == IF Working(s) THEN today[s] ELSE GetCurrentDate

\* The reports of a day, as the checkpoint and as the members have them.
InFile(d) == IF Len(file) >= 3 /\ file[2] = d THEN file[3] ELSE 0
InMemory(s, d) == IF last_sent_date_[s] = d THEN reports_sent_[s] ELSE 0

\* The report that was accepted and is not counted yet.
Uncounted(s, d) == IF pc[s] = "reporting" /\ today[s] = d THEN 1 ELSE 0

\* On a day whose count was not lost, the checkpoint is complete except while
\* it is written, and the members are once they were read; neither is ahead of the clock.
LimitInv ==
    /\ \A s \in Senders :
          /\ today[s] <= GetCurrentDate /\ last_sent_date_[s] <= Present(s)
          /\ Len(file) >= 2 => file[2] <= Present(s)
          /\ \A d \in Day \ lost : d >= Present(s) =>
                /\ pc[s] # "writing" => AcceptedOn(d) = InFile(d) + Uncounted(s, d)
                /\ pc[s] # "down" => AcceptedOn(d) = InMemory(s, d) + Uncounted(s, d)
          /\ pc[s] = "uploading" /\ today[s] \notin lost =>
                AcceptedOn(today[s]) < MaxReports
    /\ \A d \in Day \ lost : AcceptedOn(d) <= MaxReports

\* A step of the only sender, and of the clock, keeps the counts.
LEMMA LimitSteps ==
    ASSUME SenderInv, SenderInv', LimitInv, [Next]_vars,
           NEW s, Senders = {s}, MaxReports \in Nat \ {0}
    PROVE  LimitInv'
  <1>t. /\ SenderInv /\ TypeOK /\ GetCurrentDate \in Day
        /\ Day \subseteq Nat /\ -1 \notin Day /\ Day' = Day /\ s \in Senders
    BY ClockFacts
  <1>n. \A d : AcceptedOn(d) \in Nat
    BY <1>t, AcceptedIsNat DEF TypeOK
  <1>g. GetCurrentDate' \in Day /\ GetCurrentDate <= GetCurrentDate'
    <2>1. tick \in 0..MaxTick /\ tick' \in 0..MaxTick
      BY DEF SenderInv, TypeOK
    <2>2. tick <= tick'
      BY <2>1, SenderAssumption DEF SenderAssumption, Next, vars, Tick, Construct,
         SendCrashReport, UploadFails, UploadAccepted, AnswerUnread, ReportSent,
         CloseCheckpoint, CloseFails, Exit, Kill
    <2> QED
      BY <2>1, <2>2, DaysPass
  <1>a. ASSUME accepted' = accepted PROVE \A d : AcceptedOn(d)' = AcceptedOn(d)
    BY <1>a DEF AcceptedOn
  <1>d. /\ \A e \in Day : e \in Nat
        /\ today[s] \in Day \cup {-1} /\ last_sent_date_[s] \in Day \cup {-1}
        /\ reports_sent_[s] \in Nat /\ reports_sent_'[s] \in Nat
        /\ today'[s] \in Day \cup {-1} /\ last_sent_date_'[s] \in Day \cup {-1}
        /\ pc[s] \in {"down", "idle", "uploading", "reporting", "writing"}
        /\ Working(s) => today[s] \in Day
        /\ Len(file) \in 0..3 /\ Len(file') \in 0..3
        /\ Len(file) >= 2 => file[2] \in Day
        /\ Len(file) >= 3 => file[3] \in Nat
        /\ Len(file') >= 2 => file'[2] \in Day
        /\ Len(file') >= 3 => file'[3] \in Nat
    BY <1>t, SenderInv' DEF SenderInv, TypeOK
  <1>u. /\ today[s] <= GetCurrentDate /\ last_sent_date_[s] <= Present(s)
        /\ Len(file) >= 2 => file[2] <= Present(s)
        /\ \A d \in Day \ lost : d >= Present(s) =>
              /\ pc[s] # "writing" => AcceptedOn(d) = InFile(d) + Uncounted(s, d)
              /\ pc[s] # "down" => AcceptedOn(d) = InMemory(s, d) + Uncounted(s, d)
        /\ pc[s] = "uploading" /\ today[s] \notin lost =>
              AcceptedOn(today[s]) < MaxReports
        /\ \A d \in Day \ lost : AcceptedOn(d) <= MaxReports
    BY <1>t DEF LimitInv
  <1>q. SUFFICES
          /\ today'[s] <= GetCurrentDate' /\ last_sent_date_'[s] <= Present(s)'
          /\ Len(file') >= 2 => file'[2] <= Present(s)'
          /\ \A d \in Day \ lost' : d >= Present(s)' =>
                /\ pc'[s] # "writing" => AcceptedOn(d)' = InFile(d)' + Uncounted(s, d)'
                /\ pc'[s] # "down" => AcceptedOn(d)' = InMemory(s, d)' + Uncounted(s, d)'
          /\ pc'[s] = "uploading" /\ today'[s] \notin lost' =>
                AcceptedOn(today[s])' < MaxReports
          /\ \A d \in Day \ lost' : AcceptedOn(d)' <= MaxReports
    BY <1>t DEF LimitInv
  <1>w. /\ Working(s) => Present(s) = today[s] /\ today[s] \in Nat
        /\ ~Working(s) => Present(s) = GetCurrentDate
        /\ Working(s)' => Present(s)' = today'[s]
        /\ ~Working(s)' => Present(s)' = GetCurrentDate'
        /\ GetCurrentDate \in Nat /\ GetCurrentDate' \in Nat
    BY <1>d, <1>g, <1>t DEF Present
  <1>f. /\ \A d : InFile(d) \in Nat
        /\ file' = file => \A d : InFile(d)' = InFile(d)
    BY <1>d DEF InFile
  <1>m. /\ \A d : InMemory(s, d) \in Nat
        /\ last_sent_date_' = last_sent_date_ /\ reports_sent_' = reports_sent_ =>
              \A d : InMemory(s, d)' = InMemory(s, d)
    BY <1>d DEF InMemory
  <1>c. /\ pc[s] # "reporting" => \A d : Uncounted(s, d) = 0
        /\ \A d : d # today[s] => Uncounted(s, d) = 0
        /\ pc[s] = "reporting" => Uncounted(s, today[s]) = 1
        /\ pc'[s] # "reporting" => \A d : Uncounted(s, d)' = 0
        /\ \A d : d # today'[s] => Uncounted(s, d)' = 0
        /\ \A d : pc'[s] = "reporting" /\ d = today'[s] => Uncounted(s, d)' = 1
    BY DEF Uncounted
  <1>s. pc'[s] \in {"down", "idle", "uploading", "reporting", "writing"}
    BY <1>t, SenderInv' DEF SenderInv, TypeOK
  <1> USE DEF Working
  <1>1. CASE Tick
    <2>1. /\ UNCHANGED <<file, pc, today, accepted, last_sent_date_, reports_sent_, lost>>
          /\ \A d : AcceptedOn(d)' = AcceptedOn(d)
          /\ \A d : Uncounted(s, d)' = Uncounted(s, d)
      BY <1>1, <1>a DEF Tick, Uncounted
    <2>2. AcceptedOn(today[s])' = AcceptedOn(today[s])
      BY <2>1 DEF AcceptedOn
    <2>3. Present(s)' >= Present(s) /\ Present(s) \in Nat /\ Present(s)' \in Nat
      BY <1>w, <1>g, <1>d, <2>1
    <2>4. /\ today'[s] <= GetCurrentDate' /\ last_sent_date_'[s] <= Present(s)'
          /\ Len(file') >= 2 => file'[2] <= Present(s)'
      <3>1. today[s] <= GetCurrentDate'
        <4>1. /\ today[s] \in Int /\ GetCurrentDate \in Int /\ GetCurrentDate' \in Int
              /\ today[s] <= GetCurrentDate
          BY <1>u, <1>d, <1>w
        <4> QED
          BY <1>g, <4>1
      <3>2. /\ last_sent_date_[s] <= Present(s)'
            /\ Len(file) >= 2 => file[2] <= Present(s)'
        <4> DEFINE then == Present(s)
                   later == Present(s)'
        <4>1. then \in Nat /\ later \in Nat /\ then <= later
          BY <2>3
        <4>2. last_sent_date_[s] \in Int /\ (Len(file) >= 2 => file[2] \in Int)
          BY <1>d
        <4>3. last_sent_date_[s] <= then /\ (Len(file) >= 2 => file[2] <= then)
          BY <1>u
        <4> HIDE DEF then, later
        <4>4. last_sent_date_[s] <= later /\ (Len(file) >= 2 => file[2] <= later)
          BY <4>1, <4>2, <4>3
        <4> QED BY <4>4 DEF later
      <3> QED
        BY <2>1, <3>1, <3>2
    <2>5. \A d \in Day \ lost' : d >= Present(s)' => d >= Present(s)
      BY <1>d, <2>3
    <2> QED
      BY <1>u, <1>f, <1>m, <2>1, <2>2, <2>4, <2>5
  <1>2. CASE Construct(s)
    <2>1. PICK opened \in BOOLEAN :
             LET cp == ReadCheckpoint(IF opened THEN file ELSE <<>>) IN
             /\ last_sent_date_' = [last_sent_date_ EXCEPT ![s] = cp.date]
             /\ reports_sent_' = [reports_sent_ EXCEPT ![s] = cp.count]
             /\ lost' = IF opened THEN lost ELSE lost \cup {GetCurrentDate}
      BY <1>2 DEF Construct
    <2>2. /\ last_sent_date_'[s] = IF opened /\ Len(file) >= 2 THEN file[2] ELSE -1
          /\ reports_sent_'[s] = IF opened /\ Len(file) >= 3 THEN file[3] ELSE 0
      BY <1>t, <2>1, CheckpointFacts DEF TypeOK
    <2>3. /\ pc'[s] = "idle" /\ pc[s] = "down"
          /\ UNCHANGED <<tick, file, today, accepted>>
      BY <1>t, <1>2 DEF Construct, TypeOK
    <2>4. \A d : AcceptedOn(d)' = AcceptedOn(d)
      BY <1>a, <2>3
    <2>5. /\ GetCurrentDate' = GetCurrentDate
          /\ Present(s) = GetCurrentDate /\ Present(s)' = GetCurrentDate
      BY <2>3, <1>w DEF GetCurrentDate
    <2>6. CASE opened
      <3>1. \A d \in Day : InMemory(s, d)' = InFile(d)
        BY <1>d, <1>t, <2>2, <2>6 DEF InFile, InMemory
      <3>2. last_sent_date_'[s] <= GetCurrentDate
        BY <1>u, <1>w, <2>2, <2>5, <2>6
      <3> QED
        BY <1>u, <1>f, <1>c, <1>d, <2>1, <2>3, <2>4, <2>5, <2>6, <3>1, <3>2
    <2>7. CASE ~opened
      <3>1. \A d \in Day : InMemory(s, d)' = 0
        BY <1>t, <2>2, <2>7 DEF InMemory
      <3>2. ASSUME NEW d \in Day \ lost', d >= GetCurrentDate PROVE InFile(d) = 0
        <4>1. d # GetCurrentDate /\ d \in Nat /\ GetCurrentDate \in Nat
          BY <1>d, <1>w, <2>1, <2>5, <2>7, <3>2
        <4>2. Len(file) >= 2 => file[2] \in Nat /\ file[2] <= GetCurrentDate
          BY <1>u, <1>d, <2>5
        <4>3. ~(Len(file) >= 3 /\ file[2] = d)
          BY <1>d, <3>2, <4>1, <4>2
        <4> QED
          BY <4>3 DEF InFile
      <3> QED
        BY <1>u, <1>f, <1>c, <1>d, <1>w, <2>1, <2>2, <2>3, <2>4, <2>5, <2>7, <3>1, <3>2
    <2> QED
      BY <2>6, <2>7
  <1>3. CASE SendCrashReport(s)
    <2>1. /\ pc[s] = "idle" /\ today'[s] = GetCurrentDate
          /\ UNCHANGED <<tick, file, last_sent_date_, reports_sent_, accepted, lost>>
          /\ \/ pc'[s] = "idle"
             \/ pc'[s] = "uploading" /\ ~Throttles(s, GetCurrentDate)
      BY <1>t, <1>3 DEF SendCrashReport, TypeOK
    <2>2. \A d : AcceptedOn(d)' = AcceptedOn(d)
      BY <1>a, <2>1
    <2>3. /\ GetCurrentDate' = GetCurrentDate
          /\ Present(s) = GetCurrentDate /\ Present(s)' = GetCurrentDate
      BY <2>1, <1>w DEF GetCurrentDate
    <2>4. ASSUME pc'[s] = "uploading", GetCurrentDate \notin lost
          PROVE  AcceptedOn(GetCurrentDate) < MaxReports
      <3>1. AcceptedOn(GetCurrentDate) = InMemory(s, GetCurrentDate)
        BY <1>t, <1>u, <1>c, <1>w, <1>m, <2>1, <2>3, <2>4
      <3> QED
        BY <1>d, <2>1, <2>4, <3>1 DEF Throttles, InMemory
    <2>5. AcceptedOn(today[s])' = AcceptedOn(GetCurrentDate)
      BY <1>t, <2>1 DEF AcceptedOn, TypeOK
    <2> QED
      BY <1>u, <1>f, <1>m, <1>c, <1>d, <1>w, <2>1, <2>2, <2>3, <2>4, <2>5
  <1>4. CASE UploadFails(s)
    <2>1. /\ pc[s] = "uploading" /\ pc'[s] = "idle"
          /\ UNCHANGED <<tick, file, today, last_sent_date_, reports_sent_, accepted, lost>>
      BY <1>t, <1>4 DEF UploadFails, TypeOK
    <2>2. /\ \A d : AcceptedOn(d)' = AcceptedOn(d)
          /\ GetCurrentDate' = GetCurrentDate
          /\ Present(s) = today[s] /\ Present(s)' = GetCurrentDate
      BY <1>a, <1>w, <2>1 DEF GetCurrentDate
    <2> QED
      BY <1>u, <1>f, <1>m, <1>c, <1>d, <1>w, <2>1, <2>2
  <1>5. CASE UploadAccepted(s)
    <2>1. /\ pc[s] = "uploading" /\ pc'[s] = "reporting" /\ today[s] \in Day
          /\ accepted' = Append(accepted, today[s])
          /\ UNCHANGED <<tick, file, today, last_sent_date_, reports_sent_, lost>>
      BY <1>t, <1>d, <1>5 DEF UploadAccepted, TypeOK
    <2>2. PICK day \in Day : day = today[s]
      BY <2>1
    <2>3. /\ AcceptedOn(day)' = AcceptedOn(day) + 1
          /\ \A e : e # day => AcceptedOn(e)' = AcceptedOn(e)
      BY <1>t, <2>1, <2>2, AcceptedGrows DEF TypeOK
    <2>4. /\ GetCurrentDate' = GetCurrentDate
          /\ Present(s) = day /\ Present(s)' = day
      BY <2>1, <2>2, <1>w DEF GetCurrentDate
    <2>5. /\ \A d \in Day \ lost : d >= day =>
                /\ AcceptedOn(d) = InFile(d)
                /\ AcceptedOn(d) = InMemory(s, d)
          /\ day \notin lost => AcceptedOn(day) < MaxReports
          /\ \A d \in Day \ lost : AcceptedOn(d) <= MaxReports
      BY <1>u, <1>f, <1>m, <1>c, <1>d, <2>1, <2>2, <2>4
    <2>6. ASSUME NEW d \in Day \ lost, d >= day
          PROVE  /\ AcceptedOn(d)' = InFile(d) + Uncounted(s, d)'
                 /\ AcceptedOn(d)' = InMemory(s, d) + Uncounted(s, d)'
      <3>1. CASE d = day
        BY <1>n, <1>c, <2>1, <2>2, <2>3, <2>5, <2>6, <3>1
      <3>2. CASE d # day
        BY <1>n, <1>c, <2>1, <2>2, <2>3, <2>5, <2>6, <3>2
      <3> QED
        BY <3>1, <3>2
    <2>7. \A d \in Day \ lost : AcceptedOn(d)' <= MaxReports
      BY <1>n, <2>3, <2>5
    <2> QED
      BY <1>u, <1>f, <1>m, <1>d, <2>1, <2>2, <2>4, <2>6, <2>7
  <1>6. CASE ReportSent(s)
    <2>1. /\ pc[s] = "reporting" /\ today[s] \in Day /\ last_sent_date_'[s] = today[s]
          /\ reports_sent_'[s] =
                (IF today[s] # last_sent_date_[s] THEN 0 ELSE reports_sent_[s]) + 1
          /\ UNCHANGED <<tick, today, accepted>>
          /\ \/ file' = <<>> /\ pc'[s] = "writing" /\ lost' = lost
             \/ file' = file /\ pc'[s] = "idle" /\ lost' = lost \cup {today[s]}
      BY <1>t, <1>d, <1>6 DEF ReportSent, CountReport, TypeOK
    <2>2. /\ \A d : AcceptedOn(d)' = AcceptedOn(d)
          /\ GetCurrentDate' = GetCurrentDate /\ Present(s) = today[s]
      BY <1>a, <1>w, <2>1 DEF GetCurrentDate
    <2>3. ASSUME NEW d \in Day \ lost, d >= today[s]
          PROVE  AcceptedOn(d) = InMemory(s, d)'
      <3>1. AcceptedOn(d) = InMemory(s, d) + Uncounted(s, d)
        BY <1>u, <2>1, <2>2, <2>3
      <3>2. CASE d = today[s]
        BY <1>d, <1>c, <2>1, <3>1, <3>2 DEF InMemory
      <3>3. CASE d # today[s]
        <4>1. d # last_sent_date_[s] /\ d # last_sent_date_'[s] /\ Uncounted(s, d) = 0
          BY <1>u, <1>d, <1>c, <2>1, <2>2, <2>3, <3>3
        <4> QED
          BY <3>1, <4>1 DEF InMemory
      <3> QED
        BY <3>2, <3>3
    <2>4. CASE file' = <<>> /\ pc'[s] = "writing" /\ lost' = lost
      <3>1. Len(file') = 0 /\ Present(s)' = today[s]
        BY <1>w, <2>1, <2>4
      <3> QED
        BY <1>u, <1>n, <1>c, <1>d, <1>w, <2>1, <2>2, <2>3, <2>4, <3>1
    <2>5. CASE file' = file /\ pc'[s] = "idle" /\ lost' = lost \cup {today[s]}
      <3>1. Present(s)' = GetCurrentDate
        BY <1>w, <2>2, <2>5
      <3>2. ASSUME NEW d \in Day \ lost', d >= GetCurrentDate
            PROVE  AcceptedOn(d) = InFile(d) /\ AcceptedOn(d) = InMemory(s, d)'
        <4>1. d >= today[s] /\ d \notin lost /\ d # today[s]
          BY <1>u, <1>d, <1>w, <2>1, <2>5, <3>2
        <4> QED
          BY <1>u, <1>f, <1>c, <2>1, <2>2, <2>3, <4>1
      <3>3. \A d \in Day \ lost' : AcceptedOn(d)' <= MaxReports
        BY <1>u, <2>2, <2>5
      <3>4. \A d \in Day \ lost' : d >= GetCurrentDate =>
                /\ AcceptedOn(d)' = InFile(d)' + Uncounted(s, d)'
                /\ AcceptedOn(d)' = InMemory(s, d)' + Uncounted(s, d)'
        BY <1>f, <1>n, <1>c, <2>2, <2>5, <3>2
      <3>5. /\ today'[s] <= GetCurrentDate /\ last_sent_date_'[s] <= GetCurrentDate
            /\ Len(file') >= 2 => file'[2] <= GetCurrentDate
        BY <1>u, <1>d, <1>w, <2>1, <2>2, <2>5
      <3> QED
        BY <2>2, <2>5, <3>1, <3>3, <3>4, <3>5
    <2> QED
      BY <2>1, <2>4, <2>5
  <1>7. CASE CloseCheckpoint(s)
    <2>1. /\ pc[s] = "writing" /\ pc'[s] = "idle"
          /\ file' = <<Signature, last_sent_date_[s], reports_sent_[s]>>
          /\ UNCHANGED <<tick, today, last_sent_date_, reports_sent_, accepted, lost>>
      BY <1>t, <1>7 DEF CloseCheckpoint, CheckpointLines, TypeOK
    <2>2. Len(file') = 3 /\ file'[2] = last_sent_date_[s] /\ file'[3] = reports_sent_[s]
      BY <2>1
    <2>3. /\ \A d : AcceptedOn(d)' = AcceptedOn(d)
          /\ GetCurrentDate' = GetCurrentDate
          /\ Present(s) = today[s] /\ Present(s)' = GetCurrentDate
      BY <1>a, <1>w, <2>1 DEF GetCurrentDate
    <2>4. \A d : InFile(d)' = InMemory(s, d)
      BY <2>2 DEF InFile, InMemory
    <2>5. \A d \in Day \ lost : d >= GetCurrentDate => AcceptedOn(d) = InMemory(s, d)
      BY <1>u, <1>m, <1>c, <1>d, <1>w, <2>1, <2>3
    <2> QED
      BY <1>u, <1>m, <1>n, <1>c, <1>d, <1>w, <2>1, <2>2, <2>3, <2>4, <2>5
  <1>8. CASE Exit(s)
    <2>1. /\ pc[s] = "idle" /\ pc'[s] = "down"
          /\ UNCHANGED <<tick, file, today, last_sent_date_, reports_sent_, accepted, lost>>
      BY <1>t, <1>8 DEF Exit, TypeOK
    <2>2. /\ \A d : AcceptedOn(d)' = AcceptedOn(d)
          /\ GetCurrentDate' = GetCurrentDate
          /\ Present(s) = GetCurrentDate /\ Present(s)' = GetCurrentDate
      BY <1>a, <1>w, <2>1 DEF GetCurrentDate
    <2> QED
      BY <1>u, <1>f, <1>c, <1>d, <2>1, <2>2
  <1>9. CASE Kill(s)
    <2>1. /\ Working(s) /\ pc'[s] = "down" /\ today[s] \in Day
          /\ lost' = IF pc[s] = "uploading" THEN lost ELSE lost \cup {today[s]}
          /\ UNCHANGED <<tick, today, last_sent_date_, reports_sent_, accepted>>
      BY <1>t, <1>d, <1>9 DEF Kill, TypeOK
    <2>2. /\ \A d : AcceptedOn(d)' = AcceptedOn(d)
          /\ GetCurrentDate' = GetCurrentDate
          /\ Present(s) = today[s] /\ Present(s)' = GetCurrentDate
          /\ today[s] <= GetCurrentDate
      BY <1>a, <1>w, <1>u, <2>1 DEF GetCurrentDate
    <2>3. \A d \in Day \ lost' : AcceptedOn(d)' <= MaxReports
      BY <1>u, <2>1, <2>2
    <2>4. CASE pc[s] # "writing"
      <3>1. file' = file
        BY <1>9, <2>4 DEF Kill
      <3>2. ASSUME NEW d \in Day \ lost', d >= GetCurrentDate
            PROVE  AcceptedOn(d) = InFile(d)
        <4>1. d >= today[s] /\ d \notin lost /\ Uncounted(s, d) = 0
          BY <1>d, <1>w, <1>c, <1>s, <2>1, <2>2, <2>4, <3>2
        <4> QED
          BY <1>u, <1>f, <2>2, <2>4, <4>1
      <3> QED
        BY <1>u, <1>f, <1>n, <1>c, <1>d, <1>w, <2>1, <2>2, <2>3, <3>1, <3>2
    <2>5. CASE pc[s] = "writing"
      <3>1. last_sent_date_[s] \in Day
        BY <1>t, <2>5 DEF SenderInv
      <3>2. file' \in PartialCheckpoint(s)
        BY <1>9, <2>5 DEF Kill
      <3>3. Len(file') \in 0..3 /\ (Len(file') >= 2 => file'[2] = last_sent_date_[s])
        BY <1>d, <3>1, <3>2, PartialFacts
      <3>4. /\ last_sent_date_[s] <= today[s]
            /\ \A d \in Day \ lost : d >= today[s] =>
                  AcceptedOn(d) = InMemory(s, d) + Uncounted(s, d)
        BY <1>u, <2>2, <2>5
      <3>5. ASSUME NEW d \in Day \ lost', d >= GetCurrentDate
            PROVE  AcceptedOn(d)' = InFile(d)' + Uncounted(s, d)'
        <4>1. d \notin lost /\ d # today[s] /\ d >= today[s] /\ d # last_sent_date_[s]
          BY <1>d, <1>w, <2>1, <2>2, <2>5, <3>4, <3>5
        <4>2. AcceptedOn(d) = 0
          BY <1>c, <3>4, <4>1 DEF InMemory
        <4>3. InFile(d)' = 0
          BY <3>3, <4>1 DEF InFile
        <4> QED
          BY <1>c, <2>1, <2>2, <4>2, <4>3
      <3>6. /\ last_sent_date_'[s] <= GetCurrentDate
            /\ Len(file') >= 2 => file'[2] <= GetCurrentDate
        BY <1>d, <1>w, <2>1, <2>2, <3>3, <3>4
      <3> QED
        BY <2>1, <2>2, <2>3, <3>5, <3>6
    <2> QED
      BY <2>4, <2>5
  <1>10. CASE AnswerUnread(s)
    <2>1. /\ pc[s] = "reporting" /\ pc'[s] = "idle" /\ today[s] \in Day
          /\ lost' = lost \cup {today[s]}
          /\ UNCHANGED <<tick, file, today, last_sent_date_, reports_sent_, accepted>>
      BY <1>t, <1>d, <1>10 DEF AnswerUnread, TypeOK
    <2>2. /\ \A d : AcceptedOn(d)' = AcceptedOn(d)
          /\ GetCurrentDate' = GetCurrentDate
          /\ Present(s) = today[s] /\ Present(s)' = GetCurrentDate
          /\ today[s] <= GetCurrentDate
      BY <1>a, <1>w, <1>u, <2>1 DEF GetCurrentDate
    <2>3. \A d \in Day \ lost' : AcceptedOn(d)' <= MaxReports
      BY <1>u, <2>1, <2>2
    <2>4. ASSUME NEW d \in Day \ lost', d >= GetCurrentDate
          PROVE  AcceptedOn(d) = InFile(d) /\ AcceptedOn(d) = InMemory(s, d)
      <3>1. d >= today[s] /\ d \notin lost /\ Uncounted(s, d) = 0
        BY <1>d, <1>w, <1>c, <2>1, <2>2, <2>4
      <3>2. /\ AcceptedOn(d) = InFile(d) + Uncounted(s, d)
            /\ AcceptedOn(d) = InMemory(s, d) + Uncounted(s, d)
        BY <1>u, <2>1, <2>2, <3>1
      <3> QED
        BY <1>f, <1>m, <3>1, <3>2
    <2>5. /\ last_sent_date_[s] <= GetCurrentDate
          /\ Len(file) >= 2 => file[2] <= GetCurrentDate
      BY <1>u, <1>d, <1>w, <2>1, <2>2
    <2> QED
      BY <1>u, <1>f, <1>m, <1>n, <1>c, <2>1, <2>2, <2>3, <2>4, <2>5
  <1>11. CASE CloseFails(s)
    <2>1. /\ pc[s] = "writing" /\ pc'[s] = "idle" /\ today[s] \in Day
          /\ lost' = lost \cup {today[s]} /\ file' \in PartialCheckpoint(s)
          /\ UNCHANGED <<tick, today, last_sent_date_, reports_sent_, accepted>>
      BY <1>t, <1>d, <1>11 DEF CloseFails, TypeOK
    <2>2. /\ \A d : AcceptedOn(d)' = AcceptedOn(d)
          /\ GetCurrentDate' = GetCurrentDate
          /\ Present(s) = today[s] /\ Present(s)' = GetCurrentDate
          /\ today[s] <= GetCurrentDate
      BY <1>a, <1>w, <1>u, <2>1 DEF GetCurrentDate
    <2>3. \A d \in Day \ lost' : AcceptedOn(d)' <= MaxReports
      BY <1>u, <2>1, <2>2
    <2>4. last_sent_date_[s] \in Day
      BY <1>t, <2>1 DEF SenderInv
    <2>5. Len(file') \in 0..3 /\ (Len(file') >= 2 => file'[2] = last_sent_date_[s])
      BY <1>d, <2>1, <2>4, PartialFacts
    <2>6. /\ last_sent_date_[s] <= today[s]
          /\ \A d \in Day \ lost : d >= today[s] =>
                AcceptedOn(d) = InMemory(s, d) + Uncounted(s, d)
      BY <1>u, <2>1, <2>2
    <2>7. ASSUME NEW d \in Day \ lost', d >= GetCurrentDate
          PROVE  AcceptedOn(d) = InFile(d)' /\ AcceptedOn(d) = InMemory(s, d)
      <3>1. d \notin lost /\ d # today[s] /\ d >= today[s] /\ d # last_sent_date_[s]
        BY <1>d, <1>w, <2>1, <2>2, <2>6, <2>7
      <3>2. InMemory(s, d) = 0 /\ AcceptedOn(d) = 0
        BY <1>c, <2>1, <2>6, <3>1 DEF InMemory
      <3>3. InFile(d)' = 0
        BY <2>5, <3>1 DEF InFile
      <3> QED
        BY <3>2, <3>3
    <2>8. /\ last_sent_date_'[s] <= GetCurrentDate
          /\ Len(file') >= 2 => file'[2] <= GetCurrentDate
      BY <1>d, <1>w, <2>1, <2>2, <2>5, <2>6
    <2>9. \A d \in Day \ lost' : d >= GetCurrentDate =>
             /\ AcceptedOn(d)' = InFile(d)' + Uncounted(s, d)'
             /\ AcceptedOn(d)' = InMemory(s, d)' + Uncounted(s, d)'
      <3>1. /\ \A d : Uncounted(s, d)' = 0
            /\ \A d : InMemory(s, d)' = InMemory(s, d) /\ InMemory(s, d) \in Nat
        BY <1>c, <1>m, <2>1
      <3> QED
        BY <1>n, <2>2, <2>7, <3>1
    <2> QED
      BY <1>u, <2>1, <2>2, <2>3, <2>8, <2>9
  <1>12. CASE UNCHANGED vars
    <2>1. /\ \A d : AcceptedOn(d)' = AcceptedOn(d)
          /\ AcceptedOn(today[s])' = AcceptedOn(today[s])
          /\ Present(s)' = Present(s)
          /\ \A d : Uncounted(s, d)' = Uncounted(s, d)
          /\ UNCHANGED <<tick, file, pc, today, last_sent_date_, reports_sent_, lost>>
          /\ GetCurrentDate' = GetCurrentDate
      BY <1>a, <1>12 DEF vars, AcceptedOn, Present, Uncounted, GetCurrentDate
    <2> QED
      BY <1>u, <1>f, <1>m, <2>1
  <1> QED
    BY <1>1, <1>2, <1>3, <1>4, <1>5, <1>6, <1>7, <1>8, <1>9, <1>10, <1>11, <1>12
    DEF Next

-----------------------------------------------------------------------------
(* CrashReportSender: the theorems. *)

\* Nothing was sent yet.
LEMMA SenderBegins == Init => SenderInv /\ CountInv
  <1> SUFFICES ASSUME Init PROVE SenderInv /\ CountInv
    OBVIOUS
  <1>1. MaxTick \in Nat /\ TicksPerDay \in Nat \ {0} /\ MaxKills \in Nat
    BY SenderAssumption DEF SenderAssumption
  <1>2. tick \in 0..MaxTick /\ Len(<<>>) = 0 /\ <<>> \in Seq(Lines) /\ <<>> \in Seq(Day)
    BY <1>1 DEF Init
  <1>3. SenderInv
    BY <1>1, <1>2 DEF Init, SenderInv, TypeOK, Working
  <1>4. CountInv
    BY <1>2 DEF Init, CountInv, NoEarlyThrottle
  <1> QED
    BY <1>3, <1>4

\* Before anything is sent the only sender has nothing to count.
LEMMA LimitBegins ==
    ASSUME Init, MaxReports \in Nat \ {0} PROVE LimitInv
  <1>1. GetCurrentDate \in Nat /\ tick = 0
    <2>1. MaxTick \in Nat
      BY SenderAssumption DEF SenderAssumption
    <2>2. tick \in 0..MaxTick
      BY <2>1 DEF Init
    <2> QED
      BY <2>2, DaysPass DEF Init
  <1>2. \A d : AcceptedOn(d) = 0
    <2>1. \A d : {i \in DOMAIN accepted : accepted[i] = d} = {}
      BY DEF Init
    <2> QED
      BY <2>1, FS_EmptySet DEF AcceptedOn
  <1>3. \A d \in Day : d # -1
    BY DaysPass, SenderBegins DEF SenderInv, TypeOK
  <1>4. Len(file) = 0
    BY DEF Init
  <1>5. \A s \in Senders : /\ pc[s] = "down" /\ today[s] = -1 /\ last_sent_date_[s] = -1
                           /\ Present(s) = GetCurrentDate
                           /\ \A d : InFile(d) = 0 /\ Uncounted(s, d) = 0
    BY <1>4 DEF Init, Present, Working, InFile, Uncounted
  <1> QED
    BY <1>1, <1>2, <1>4, <1>5 DEF LimitInv

\* Everything stays in its type, for any number of senders, clock and limit.
THEOREM SenderTypes == Spec => []TypeOK
  <1>1. SenderInv => TypeOK
    BY DEF SenderInv
  <1> QED
    BY SenderBegins, SenderSteps, <1>1, PTL DEF Spec

\* The throttle never starves anybody: however many senders share the checkpoint, and
\* whatever is killed, truncated or overwritten, a sender that answers RESULT_THROTTLED
\* does so on a day on which max_reports_per_day_ reports were really accepted.
THEOREM NeverTooEarly == Spec => []NoEarlyThrottle
  <1>1. SenderInv /\ CountInv /\ [Next]_vars => SenderInv' /\ CountInv'
    BY SenderSteps, CountSteps
  <1>2. CountInv => NoEarlyThrottle
    BY DEF CountInv
  <1> QED
    BY SenderBegins, <1>1, <1>2, PTL DEF Spec

\* And with one sender at a time it lets through no report too many on a day whose count
\* was not lost: by a kill, a failed open or write, or an answer that was not read.
THEOREM SenderThrottles == Spec => []ThrottlesExactly
  <1>1. CASE ~(MaxReports \notin {-1, 0} /\ Cardinality(Senders) = 1)
    <2>1. NoEarlyThrottle => ThrottlesExactly
      BY <1>1 DEF ThrottlesExactly, DailyLimit
    <2> QED
      BY <2>1, NeverTooEarly, PTL
  <1>2. CASE MaxReports \notin {-1, 0} /\ Cardinality(Senders) = 1
    <2>1. MaxReports \in Nat \ {0} /\ \E s : Senders = {s}
      <3>1. \E s : Senders = {s}
        BY <1>2, FS_Singleton, SenderAssumption DEF SenderAssumption
      <3> QED
        BY <1>2, <3>1, SenderAssumption DEF SenderAssumption
    <2>2. Init => SenderInv /\ LimitInv
      BY <2>1, SenderBegins, LimitBegins
    <2>3. SenderInv /\ LimitInv /\ [Next]_vars => SenderInv' /\ LimitInv'
      BY <2>1, SenderSteps, LimitSteps
    <2>4. LimitInv => DailyLimit
      BY DEF LimitInv, DailyLimit
    <2>5. Spec => []DailyLimit
      BY <2>2, <2>3, <2>4, PTL DEF Spec
    <2>6. DailyLimit /\ NoEarlyThrottle => ThrottlesExactly
      BY DEF ThrottlesExactly
    <2> QED
      BY <2>5, <2>6, NeverTooEarly, PTL
  <1> QED
    BY <1>1, <1>2

-----------------------------------------------------------------------------
(* MinidumpFileWriter: recursion.  Width and Before add numbers up; that the sums exist,
   and what they are, is shown of the least counterexample. *)

\* A set of natural numbers that is not empty has a least one.
LEMMA LeastNumber ==
    ASSUME NEW S, S \subseteq Nat, S # {}
    PROVE  \E x \in S : \A y \in S : x <= y
<1> DEFINE R == OpToRel(<, Nat)
<1>1. \A x, y \in Nat : <<y, x>> \in R <=> y < x
  BY DEF OpToRel
<1>2. IsWellFoundedOn(R, Nat)
  BY NatLessThanWellFounded
<1> HIDE DEF R
<1>3. PICK x \in S : \A y \in S : ~(<<y, x>> \in R)
  BY <1>2, WFMin
<1>4. ASSUME NEW y \in S PROVE x <= y
  <2>1. x \in Nat /\ y \in Nat /\ ~(y < x)
    BY <1>1, <1>3
  <2> QED BY <2>1
<1> QED BY <1>4

\* Adding up the numbers g[1], g[2], ... one by one.
SumsUpTo(f, g, n) == f = [k \in 0..n |-> IF k = 0 THEN 0 ELSE f[k - 1] + g[k]]

\* Such sums exist, for as many numbers as there are.
LEMMA SumsExist ==
    ASSUME NEW g, NEW n \in Nat
    PROVE  \E f : SumsUpTo(f, g, n)
<1> DEFINE T == {m \in Nat : ~\E f : SumsUpTo(f, g, m)}
<1> SUFFICES ASSUME T # {} PROVE FALSE
  OBVIOUS
<1>1. PICK m \in T : \A y \in T : m <= y
  BY LeastNumber
<1>2. m # 0
  <2> DEFINE f == [k \in 0..0 |-> 0]
  <2>1. f = [k \in 0..0 |-> IF k = 0 THEN 0 ELSE f[k - 1] + g[k]]
    OBVIOUS
  <2>2. \E h : SumsUpTo(h, g, 0)
    BY <2>1 DEF SumsUpTo
  <2> QED BY <2>2
<1>3. m - 1 \in Nat /\ m - 1 \notin T
  BY <1>1, <1>2
<1>4. PICK f : SumsUpTo(f, g, m - 1)
  BY <1>3
<1> DEFINE h == [k \in 0..m |-> IF k = m THEN f[m - 1] + g[m] ELSE f[k]]
<1>5. \A k \in 0..m : h[k] = IF k = 0 THEN 0 ELSE h[k - 1] + g[k]
  <2> SUFFICES ASSUME NEW k \in 0..m PROVE h[k] = IF k = 0 THEN 0 ELSE h[k - 1] + g[k]
    OBVIOUS
  <2>1. CASE k = m
    <3>1. h[k] = f[m - 1] + g[m] /\ h[k - 1] = f[m - 1]
      BY <2>1, <1>3
    <3> QED BY <3>1, <2>1, <1>2
  <2>2. CASE k # m
    <3>1. k \in 0..m - 1
      BY <2>2
    <3>2. f[k] = IF k = 0 THEN 0 ELSE f[k - 1] + g[k]
      BY <1>4, <3>1, Zenon DEF SumsUpTo
    <3>3. h[k] = f[k] /\ (k # 0 => h[k - 1] = f[k - 1])
      BY <2>2
    <3> QED BY <3>2, <3>3
  <2> QED BY <2>1, <2>2
<1>6. SumsUpTo(h, g, m)
  <2> DEFINE r == [k \in 0..m |-> IF k = 0 THEN 0 ELSE h[k - 1] + g[k]]
  <2>1. h = [k \in 0..m |-> h[k]]
    OBVIOUS
  <2> HIDE DEF h
  <2>2. h = r
    BY <1>5, <2>1
  <2> QED BY <2>2 DEF SumsUpTo
<1> HIDE DEF h
<1> QED BY <1>6, <1>1

\* Sums of numbers that are not 0 are numbers, and grow.
LEMMA SumsGrow ==
    ASSUME NEW f, NEW g, NEW n \in Nat, SumsUpTo(f, g, n), \A k \in 1..n : g[k] \in Nat \ {0}
    PROVE  \A k \in 0..n : f[k] \in Nat /\ f[k] >= k
<1> DEFINE T == {m \in 0..n : ~(f[m] \in Nat /\ f[m] >= m)}
<1> SUFFICES ASSUME T # {} PROVE FALSE
  OBVIOUS
<1>0. T \subseteq Nat
  OBVIOUS
<1>1. PICK m \in T : \A y \in T : m <= y
  BY <1>0, LeastNumber
<1>2. \A k \in 0..n : f[k] = IF k = 0 THEN 0 ELSE f[k - 1] + g[k]
  BY Zenon DEF SumsUpTo
<1>3. m # 0
  BY <1>1, <1>2
<1>4. m - 1 \in 0..n /\ m - 1 \notin T
  BY <1>1, <1>3
<1>5. f[m] = f[m - 1] + g[m] /\ g[m] \in Nat \ {0}
  BY <1>2, <1>3, <1>1
<1> QED BY <1>1, <1>4, <1>5

\* Sums of ones count them.
LEMMA SumsOfOnes ==
    ASSUME NEW f, NEW g, NEW n \in Nat, SumsUpTo(f, g, n), \A k \in 1..n : g[k] = 1
    PROVE  \A k \in 0..n : f[k] = k
<1> DEFINE T == {m \in 0..n : f[m] # m}
<1> SUFFICES ASSUME T # {} PROVE FALSE
  OBVIOUS
<1>0. T \subseteq Nat
  OBVIOUS
<1>1. PICK m \in T : \A y \in T : m <= y
  BY <1>0, LeastNumber
<1>2. \A k \in 0..n : f[k] = IF k = 0 THEN 0 ELSE f[k - 1] + g[k]
  BY Zenon DEF SumsUpTo
<1>3. m # 0
  BY <1>1, <1>2
<1>4. m - 1 \in 0..n /\ m - 1 \notin T
  BY <1>1, <1>3
<1>5. f[m] = f[m - 1] + g[m] /\ g[m] = 1
  BY <1>2, <1>3, <1>1
<1> QED BY <1>1, <1>4, <1>5

\* What Strings may hold.
LEMMA TextIs ==
    ASSUME NEW text \in Strings
    PROVE  /\ text \in Seq((Nat \ {0}) \X {1, 2}) /\ Len(text) \in Nat
           /\ text # NoText
           /\ \A k \in 1..Len(text) : text[k][1] \in Nat \ {0} /\ text[k][2] \in {1, 2}
<1>1. text \in Seq((Nat \ {0}) \X {1, 2})
  BY MinidumpFileWriterAssumption
<1>2. \A k \in 1..Len(text) : text[k] \in (Nat \ {0}) \X {1, 2}
  BY <1>1
<1>3. \A k \in 1..Len(text) : text[k][1] \in Nat \ {0} /\ text[k][2] \in {1, 2}
  BY <1>2
<1>4. Len(NoText) = 1 /\ NoText[1][1] = 0
  BY DEF NoText
<1>5. text # NoText
  <2>1. CASE Len(text) = 1
    <3>1. text[1][1] # 0
      BY <1>3, <2>1
    <3> QED BY <3>1, <1>4
  <2>2. CASE Len(text) # 1
    BY <1>4, <2>2
  <2> QED BY <2>1, <2>2
<1>6. Len(text) \in Nat
  BY <1>1
<1> QED BY <1>1, <1>3, <1>5, <1>6

\* The length of a text in the source is that of its characters, at least.
LEMMA WidthIs ==
    ASSUME NEW text \in Strings
    PROVE  Width(text) \in Nat /\ Width(text) >= Len(text)
<1> DEFINE g == [k \in 1..Len(text) |-> text[k][1]]
           Def(f) == f = [k \in 0..Len(text) |-> IF k = 0 THEN 0 ELSE f[k - 1] + text[k][1]]
<1>1. Len(text) \in Nat /\ \A k \in 1..Len(text) : g[k] \in Nat \ {0}
  BY TextIs
<1>2. ASSUME NEW f PROVE Def(f) <=> SumsUpTo(f, g, Len(text))
  <2>1. [k \in 0..Len(text) |-> IF k = 0 THEN 0 ELSE f[k - 1] + text[k][1]]
         = [k \in 0..Len(text) |-> IF k = 0 THEN 0 ELSE f[k - 1] + g[k]]
    BY <1>1
  <2> QED BY <2>1 DEF SumsUpTo
<1>3. \E f : Def(f)
  BY <1>1, <1>2, SumsExist
<1> DEFINE w == CHOOSE f : Def(f)
<1>4. Def(w)
  BY <1>3, Zenon
<1>5. Width(text) = w[Len(text)]
  BY DEF Width
<1> HIDE DEF g, Def, w
<1>6. SumsUpTo(w, g, Len(text))
  BY <1>2, <1>4
<1>7. w[Len(text)] \in Nat /\ w[Len(text)] >= Len(text)
  BY <1>1, <1>6, SumsGrow
<1> QED BY <1>5, <1>7

\* The units before a character are a number; in a text of the basic plane, that of the
\* characters before it.
LEMMA BeforeIs ==
    ASSUME NEW text \in Strings
    PROVE  /\ \A k \in 1..Len(text) + 1 : Before(text)[k] \in Nat
           /\ Plain(text) => \A k \in 1..Len(text) + 1 : Before(text)[k] = k - 1
<1> DEFINE g == [k \in 1..Len(text) |-> text[k][2]]
           Def(f) == f = [k \in 1..Len(text) + 1 |-> IF k = 1 THEN 0 ELSE f[k - 1] + text[k - 1][2]]
<1>1. Len(text) \in Nat /\ \A k \in 1..Len(text) : g[k] \in Nat \ {0}
  BY TextIs
<1>2. ASSUME NEW f, Def(f)
      PROVE  SumsUpTo([k \in 0..Len(text) |-> f[k + 1]], g, Len(text))
  <2> DEFINE h == [k \in 0..Len(text) |-> f[k + 1]]
  <2>1. \A k \in 1..Len(text) + 1 : f[k] = IF k = 1 THEN 0 ELSE f[k - 1] + text[k - 1][2]
    BY <1>2, Zenon
  <2>2. \A k \in 0..Len(text) : h[k] = IF k = 0 THEN 0 ELSE h[k - 1] + g[k]
    <3> SUFFICES ASSUME NEW k \in 0..Len(text)
                 PROVE  h[k] = IF k = 0 THEN 0 ELSE h[k - 1] + g[k]
      OBVIOUS
    <3>1. k + 1 \in 1..Len(text) + 1 /\ (k # 0 => k - 1 \in 0..Len(text) /\ k \in 1..Len(text))
      BY <1>1
    <3>2. h[k] = f[k + 1] /\ (k # 0 => h[k - 1] = f[k])
      BY <3>1
    <3>3. f[k + 1] = IF k = 0 THEN 0 ELSE f[k] + text[k][2]
      BY <2>1, <3>1
    <3> QED BY <3>1, <3>2, <3>3
  <2>3. h = [k \in 0..Len(text) |-> IF k = 0 THEN 0 ELSE h[k - 1] + g[k]]
    <3>1. h = [k \in 0..Len(text) |-> h[k]]
      OBVIOUS
    <3> HIDE DEF h
    <3> QED BY <2>2, <3>1
  <2> QED BY <2>3 DEF SumsUpTo
<1>3. \E f : Def(f)
  <2>1. PICK h : SumsUpTo(h, g, Len(text))
    BY <1>1, SumsExist
  <2>2. \A k \in 0..Len(text) : h[k] = IF k = 0 THEN 0 ELSE h[k - 1] + g[k]
    BY <2>1, Zenon DEF SumsUpTo
  <2> DEFINE f == [k \in 1..Len(text) + 1 |-> h[k - 1]]
  <2>3. \A k \in 1..Len(text) + 1 : f[k] = IF k = 1 THEN 0 ELSE f[k - 1] + text[k - 1][2]
    <3> SUFFICES ASSUME NEW k \in 1..Len(text) + 1
                 PROVE  f[k] = IF k = 1 THEN 0 ELSE f[k - 1] + text[k - 1][2]
      OBVIOUS
    <3>1. k - 1 \in 0..Len(text) /\ (k # 1 => k - 1 \in 1..Len(text) /\ k - 1 \in 1..Len(text) + 1)
      BY <1>1
    <3>2. f[k] = h[k - 1] /\ (k # 1 => f[k - 1] = h[k - 1 - 1])
      BY <3>1
    <3>3. h[k - 1] = IF k - 1 = 0 THEN 0 ELSE h[k - 1 - 1] + g[k - 1]
      BY <2>2, <3>1
    <3> QED BY <3>1, <3>2, <3>3, <1>1
  <2>4. Def(f)
    <3>1. f = [k \in 1..Len(text) + 1 |-> f[k]]
      OBVIOUS
    <3> HIDE DEF f
    <3> QED BY <2>3, <3>1
  <2> QED BY <2>4
<1> DEFINE w == CHOOSE f : Def(f)
           h == [k \in 0..Len(text) |-> w[k + 1]]
<1>4. Def(w)
  BY <1>3, Zenon
<1>5. Before(text) = w
  BY DEF Before
<1>6. \A k \in 1..Len(text) + 1 : k - 1 \in 0..Len(text) /\ Before(text)[k] = h[k - 1]
  BY <1>1, <1>5
<1>7. SumsUpTo(h, g, Len(text))
  BY <1>2, <1>4
<1> HIDE DEF Def, w
<1>8. \A k \in 0..Len(text) : h[k] \in Nat
  <2> HIDE DEF h, g
  <2> QED BY <1>1, <1>7, SumsGrow
<1>9. Plain(text) => \A k \in 0..Len(text) : h[k] = k
  <2>1. Plain(text) => \A k \in 1..Len(text) : g[k] = 1
    BY DEF Plain
  <2> HIDE DEF h, g
  <2> QED BY <1>1, <1>7, <2>1, SumsOfOnes
<1> HIDE DEF h, g
<1> QED BY <1>6, <1>8, <1>9

-----------------------------------------------------------------------------
(* MinidumpFileWriter: the regions and what they hold *)

\* What a caller has of the file: a place in it.
Objects == [pos : Nat, size : Nat \ {0}, text : Strings \cup {NoText}]
RegionEnd(o) == o.pos + Aligned(o.size)

\* The objects that were given a region.
Placed(objs) == {i \in DOMAIN objs : objs[i].pos # kInvalidMDRVA}

\* The regions follow each other, in the order of the objects, up to the position, and
\* no file is as long as a position can be.
RegionsApart ==
    /\ \A i \in Placed(objects) : RegionEnd(objects[i]) <= position
    /\ \A i, j \in Placed(objects) : i < j => RegionEnd(objects[i]) <= objects[j].pos
    /\ position <= size /\ size < kInvalidMDRVA

\* The region of a string has room for its characters, as the source counts them.
TextsFit == \A i \in DOMAIN objects : objects[i].text # NoText =>
                objects[i].size = TextSize(objects[i].text)

\* An object with a region is told when it has been flushed; all are when the file is
\* closed.
NotYetTold ==
    /\ live \cap told = {} /\ \A id \in live : objects[id].text = NoText
    /\ told \subseteq Placed(objects)
    /\ file_ = "closed" => length = position /\ live = {}

\* What a byte of the k-th character of object id holds.
Unit(id, k) == <<id, k>>

\* Bytes b hold what was written for object o.
Held(b, id, o) ==
    /\ o.text = NoText => \A x \in Span(o.pos, o.size) : x \in DOMAIN b /\ b[x] = <<id, 0>>
    /\ o.text # NoText /\ Plain(o.text) =>
           /\ \A x \in Span(o.pos, HeaderSize) : x \in DOMAIN b /\ b[x] = <<id, 0>>
           /\ \A k \in 1..Len(o.text), x \in {0, 1} :
                  /\ o.pos + HeaderSize + 2 * (k - 1) + x \in DOMAIN b
                  /\ b[o.pos + HeaderSize + 2 * (k - 1) + x] = Unit(id, k)

WriterInv ==
    /\ WriterTypeOK /\ RegionsApart /\ TextsFit /\ NotYetTold
    /\ \A id \in told \ spoilt : Held(bytes, id, objects[id])
    /\ ~wraps => spoilt = {}

-----------------------------------------------------------------------------
(* MinidumpFileWriter: what the operations do to them *)

\* Rounding up to eight bytes.
LEMMA AlignedIs ==
    ASSUME NEW n \in Nat
    PROVE  Aligned(n) \in Nat /\ n <= Aligned(n)
BY DEF Aligned

\* The size of a string's region.
LEMMA TextSizeIs ==
    ASSUME NEW text \in Strings
    PROVE  /\ TextSize(text) \in Nat \ {0} /\ Width(text) \in Nat /\ Len(text) \in Nat
           /\ TextSize(text) >= HeaderSize + 2 * Len(text) + 2
BY WidthIs, TextIs DEF TextSize, HeaderSize

\* Bytes written over others: they are there, and those beside them are as before.
LEMMA WrittenIs ==
    ASSUME NEW b, NEW p \in Nat, NEW n \in Nat, NEW item, NEW c, c = Written(b, p, n, item)
    PROVE  /\ \A x \in Span(p, n) : x \in DOMAIN c /\ c[x] = item
           /\ \A x \in DOMAIN b : x \in DOMAIN c
           /\ \A x \in DOMAIN b \ Span(p, n) : c[x] = b[x]
BY DEF Written

\* The characters of a string, written over other bytes: none below the string's region is touched.
LEMMA CharactersAbove ==
    ASSUME NEW b, NEW p \in Nat, NEW text \in Strings, NEW k \in 0..Len(text), NEW id
    PROVE  /\ \A x \in DOMAIN b : x \in DOMAIN Characters(b, p, text, id, k)
           /\ \A x \in DOMAIN b : x \notin Int \/ x < p => Characters(b, p, text, id, k)[x] = b[x]
<1> DEFINE reach == p + HeaderSize + 8 * Before(text)[k + 1]
           touched(S) == {x \in p .. reach : x \in S}
<1>1. Before(text)[k + 1] \in Nat
  BY BeforeIs, TextIs
<1>2. reach \in Nat
  BY <1>1 DEF HeaderSize
<1>3. ASSUME NEW x, x \notin Int \/ x < p PROVE x \notin p .. reach
  BY <1>2, <1>3
<1> HIDE DEF reach
<1> QED BY <1>3 DEF Characters, reach

\* The characters of a text of the basic plane, all of them: each is at its place.
LEMMA CharactersAre ==
    ASSUME NEW b, NEW p \in Nat, NEW text \in Strings, Plain(text), NEW id,
           NEW c, c = Characters(b, p, text, id, Len(text))
    PROVE  \A k \in 1..Len(text), e \in {0, 1} :
              /\ p + HeaderSize + 2 * (k - 1) + e \in DOMAIN c
              /\ c[p + HeaderSize + 2 * (k - 1) + e] = Unit(id, k)
<1> SUFFICES ASSUME NEW k \in 1..Len(text), NEW e \in {0, 1},
                    NEW y, y = p + HeaderSize + 2 * (k - 1) + e
             PROVE  y \in DOMAIN c /\ c[y] = Unit(id, k)
  OBVIOUS
<1> DEFINE n == Len(text)
           covers(x) == {j \in 1..n : x \in Span(p + Place(text, j), 2 * text[j][2])}
           last(x) == CHOOSE j \in covers(x) : \A i \in covers(x) : i <= j
           unit(x, j) == Before(text)[j] + 1 + ((x - p - Place(text, j)) \div 2)
           touched == {x \in p .. p + HeaderSize + 8 * Before(text)[n + 1] : covers(x) # {}}
<1>1. n \in Nat /\ Before(text)[n + 1] = n
  BY BeforeIs, TextIs
<1>2. \A j \in 1..n : Before(text)[j] = j - 1 /\ text[j][2] = 1
  BY BeforeIs, <1>1 DEF Plain
<1>3. \A j \in 1..n : Place(text, j) = HeaderSize + 2 * (j - 1)
  BY <1>2 DEF Place, HeaderSize
<1>4. y \in Nat /\ y \in p .. p + HeaderSize + 8 * n
  <2>1. y = p + 4 + 2 * (k - 1) + e /\ e \in 0..1 /\ k \in Nat /\ 1 <= k /\ k <= n
    BY <1>1 DEF HeaderSize
  <2> HIDE DEF n
  <2>2. y \in Nat /\ p <= y /\ y <= p + 4 + 8 * n
    BY <1>1, <2>1
  <2> QED BY <1>1, <2>2 DEF HeaderSize
<1>5. covers(y) = {k}
  <2>1. ASSUME NEW j \in 1..n
        PROVE  y \in Span(p + Place(text, j), 2 * text[j][2]) <=> j = k
    <3>1. Span(p + Place(text, j), 2 * text[j][2])
            = p + HeaderSize + 2 * (j - 1) .. p + HeaderSize + 2 * (j - 1) + 1
      <4>1. 2 * text[j][2] = 2 /\ p + Place(text, j) = p + HeaderSize + 2 * (j - 1)
        <5>1. text[j][2] = 1
          BY <1>2
        <5>2. Place(text, j) = HeaderSize + 2 * (j - 1)
          BY <1>3
        <5>3. p + (HeaderSize + 2 * (j - 1)) = p + HeaderSize + 2 * (j - 1)
          BY DEF HeaderSize
        <5> QED BY <5>1, <5>2, <5>3
      <4>2. p + HeaderSize + 2 * (j - 1) \in Int
        BY DEF HeaderSize
      <4>3. p + Place(text, j) + 2 * text[j][2] - 1 = p + HeaderSize + 2 * (j - 1) + 1
        BY <4>1, <4>2
      <4> QED BY <4>1, <4>3 DEF Span
    <3>2. y \in p + HeaderSize + 2 * (j - 1) .. p + HeaderSize + 2 * (j - 1) + 1 <=> j = k
      <4>1. CASE e = 0
        BY <1>1, <4>1 DEF HeaderSize
      <4>2. CASE e = 1
        BY <1>1, <4>2 DEF HeaderSize
      <4> QED BY <4>1, <4>2
    <3> QED BY <3>1, <3>2
  <2> QED BY <2>1
<1>6. y \in touched
  BY <1>1, <1>4, <1>5
<1>7. last(y) = k
  <2>1. \A j \in {k} : (\A i \in {k} : i <= j) <=> j = k
    OBVIOUS
  <2>2. last(y) = CHOOSE j \in {k} : \A i \in {k} : i <= j
    BY <1>5
  <2>3. \E j \in {k} : \A i \in {k} : i <= j
    BY <2>1
  <2>4. last(y) \in {k}
    <3> HIDE DEF last
    <3> QED BY <2>2, <2>3, Zenon
  <2> QED BY <2>4
<1>8. unit(y, k) = k
  <2>1. Before(text)[k] = k - 1 /\ y - p - Place(text, k) = e
    BY <1>2, <1>3 DEF HeaderSize
  <2>2. e \div 2 = 0
    OBVIOUS
  <2> QED BY <2>1, <2>2
<1>9. Characters(b, p, text, id, n) = [x \in DOMAIN b \cup touched |->
          IF x \in touched THEN <<id, unit(x, last(x))>> ELSE b[x]]
  BY DEF Characters
<1> HIDE DEF touched, last, unit
<1>10. /\ y \in DOMAIN Characters(b, p, text, id, n)
       /\ Characters(b, p, text, id, n)[y] = <<id, unit(y, last(y))>>
  BY <1>6, <1>9
<1> QED BY <1>7, <1>8, <1>10 DEF Unit

\* Where a character of a string is in its region.
LEMMA CharacterInRegion ==
    ASSUME NEW p \in Nat, NEW n \in Nat, NEW l \in Nat, n >= HeaderSize + 2 * l + 2,
           NEW k \in 1..l, NEW x \in {0, 1}
    PROVE  /\ p + HeaderSize + 2 * (k - 1) + x \in Span(p, n)
           /\ p + HeaderSize + 2 * (k - 1) + x >= p + HeaderSize
           /\ p + HeaderSize + 2 * (k - 1) + x < p + HeaderSize + 2 * l
<1>1. CASE x = 0
  BY <1>1 DEF Span, HeaderSize
<1>2. CASE x = 1
  BY <1>2 DEF Span, HeaderSize
<1> QED BY <1>1, <1>2

\* What was written for an object is still there when nothing of its region was touched.
LEMMA HeldUnder ==
    ASSUME NEW b, NEW c, NEW id, NEW o \in Objects, o.text # NoText => o.size = TextSize(o.text),
           Held(b, id, o),
           \A x \in Span(o.pos, o.size) : x \in DOMAIN b => x \in DOMAIN c /\ c[x] = b[x]
    PROVE  Held(c, id, o)
<1>1. CASE o.text = NoText
  BY <1>1 DEF Held
<1>2. CASE o.text # NoText /\ Plain(o.text)
  <2>1. o.text \in Strings /\ o.pos \in Nat
    BY <1>2 DEF Objects
  <2>2. o.size \in Nat /\ Len(o.text) \in Nat /\ o.size >= HeaderSize + 2 * Len(o.text) + 2
    BY <1>2, <2>1, TextSizeIs
  <2>3. Span(o.pos, HeaderSize) \subseteq Span(o.pos, o.size)
    BY <2>1, <2>2 DEF Span, HeaderSize
  <2>4. ASSUME NEW k \in 1..Len(o.text), NEW x \in {0, 1}
        PROVE  o.pos + HeaderSize + 2 * (k - 1) + x \in Span(o.pos, o.size)
    BY <2>1, <2>2, CharacterInRegion
  <2>5. \A x \in Span(o.pos, HeaderSize) : x \in DOMAIN c /\ c[x] = <<id, 0>>
    BY <1>2, <2>3 DEF Held
  <2>6. \A k \in 1..Len(o.text), x \in {0, 1} :
           /\ o.pos + HeaderSize + 2 * (k - 1) + x \in DOMAIN c
           /\ c[o.pos + HeaderSize + 2 * (k - 1) + x] = Unit(id, k)
    BY <1>2, <2>4 DEF Held
  <2> QED BY <1>2, <2>5, <2>6 DEF Held
<1>3. CASE o.text # NoText /\ ~Plain(o.text)
  BY <1>3 DEF Held
<1> QED BY <1>1, <1>2, <1>3

\* Each object that was given a region has it below the position.
LEMMA ObjectIs ==
    ASSUME WriterInv, NEW id \in Placed(objects)
    PROVE  /\ objects[id] \in Objects /\ id \in 1..Len(objects)
           /\ objects[id].pos \in Nat /\ objects[id].size \in Nat \ {0}
           /\ objects[id].text # NoText => objects[id].size = TextSize(objects[id].text)
           /\ objects[id].pos + objects[id].size <= RegionEnd(objects[id])
           /\ RegionEnd(objects[id]) \in Nat /\ RegionEnd(objects[id]) <= position
           /\ position \in Nat
<1>1. /\ objects \in Seq(Objects) /\ position \in Nat
  BY DEF WriterInv, WriterTypeOK, Objects
<1>2. objects[id] \in Objects /\ id \in 1..Len(objects) /\ id \in DOMAIN objects
  BY <1>1 DEF Placed
<1>3. objects[id].pos \in Nat /\ objects[id].size \in Nat \ {0}
  BY <1>2 DEF Objects
<1>4. Aligned(objects[id].size) \in Nat /\ objects[id].size <= Aligned(objects[id].size)
  BY <1>3, AlignedIs
<1> QED BY <1>1, <1>2, <1>3, <1>4 DEF WriterInv, RegionsApart, TextsFit, RegionEnd

\* A region handed out is above those before, which stay.
LEMMA AllocateAbove ==
    ASSUME WriterInv, NEW n \in Nat \ {0}, NEW text \in Strings \cup {NoText},
           text # NoText => n = TextSize(text), Allocate(n, text)
    PROVE  /\ objects' \in Seq(Objects) /\ Len(objects') = Len(objects) + 1
           /\ objects'[Len(objects')] = [pos |-> position, size |-> n, text |-> text]
           /\ \A i \in DOMAIN objects : i \in DOMAIN objects' /\ i # Len(objects')
                                        /\ objects'[i] = objects[i]
           /\ position' \in Nat /\ size' \in Nat /\ length' \in Nat
           /\ RegionsApart' /\ TextsFit' /\ position < kInvalidMDRVA /\ position \in Nat
           /\ file_ = "open"
<1> DEFINE o == [pos |-> position, size |-> n, text |-> text]
<1>1. /\ objects \in Seq(Objects) /\ position \in Nat /\ size \in Nat /\ length \in Nat
      /\ position <= size /\ size < kInvalidMDRVA /\ kInvalidMDRVA \in Nat
  BY MinidumpFileWriterAssumption DEF WriterInv, WriterTypeOK, RegionsApart, Objects
<1>2. /\ objects' = Append(objects, o) /\ position' = position + Aligned(n)
      /\ length' \in {length, size'} /\ file_ = "open" /\ size' < kInvalidMDRVA
      /\ size' = IF position + Aligned(n) > size THEN size + Max2(Aligned(n), PageSize)
                                                 ELSE size
  BY DEF Allocate, Grown
<1>3. Aligned(n) \in Nat /\ n <= Aligned(n)
  BY AlignedIs
<1>4. position' \in Nat /\ size' \in Nat /\ length' \in Nat /\ position' <= size'
  BY <1>1, <1>2, <1>3, MinidumpFileWriterAssumption DEF Max2
<1>5. o \in Objects
  BY <1>1 DEF Objects
<1>6. objects' \in Seq(Objects) /\ Len(objects') = Len(objects) + 1
  BY <1>1, <1>2, <1>5
<1>7. objects'[Len(objects')] = o
  BY <1>1, <1>2, <1>5
<1>8. \A i \in 1..Len(objects) : i \in 1..Len(objects') /\ i # Len(objects') /\ objects'[i] = objects[i]
  BY <1>1, <1>2, <1>5
<1>9. DOMAIN objects = 1..Len(objects) /\ DOMAIN objects' = 1..Len(objects')
  BY <1>1, <1>6
<1>10. \A i \in DOMAIN objects' : i # Len(objects') => i \in DOMAIN objects
  BY <1>1, <1>6, <1>9
<1>14. ASSUME NEW i \in DOMAIN objects
       PROVE  i \in DOMAIN objects' /\ i # Len(objects') /\ objects'[i] = objects[i]
  <2>1. i \in 1..Len(objects)
    BY <1>9
  <2>2. i \in 1..Len(objects') /\ i # Len(objects') /\ objects'[i] = objects[i]
    BY <1>8, <2>1
  <2> QED BY <1>9, <2>2
<1>11. RegionEnd(o) = position + Aligned(n) /\ o.pos = position
  BY DEF RegionEnd
<1>12. RegionsApart'
  <2>0. ASSUME NEW i \in Placed(objects')
        PROVE  /\ i \in DOMAIN objects'
               /\ i # Len(objects') => i \in Placed(objects) /\ objects'[i] = objects[i]
    <3>1. i \in DOMAIN objects' /\ objects'[i].pos # kInvalidMDRVA
      BY DEF Placed
    <3>2. CASE i # Len(objects')
      <4>1. i \in DOMAIN objects /\ objects'[i] = objects[i]
        BY <1>10, <1>14, <3>1, <3>2
      <4> QED BY <3>1, <4>1 DEF Placed
    <3> QED BY <3>1, <3>2
  <2> SUFFICES ASSUME NEW i \in Placed(objects')
               PROVE  /\ RegionEnd(objects'[i]) <= position'
                      /\ \A j \in Placed(objects') : i < j => RegionEnd(objects'[i]) <= objects'[j].pos
    BY <1>2, <1>4 DEF RegionsApart, RegionEnd, Placed
  <2>1. CASE i = Len(objects')
    <3>1. \A j \in Placed(objects') : ~(i < j)
      BY <2>0, <2>1, <1>6, <1>9
    <3> QED BY <2>1, <3>1, <1>2, <1>4, <1>7, <1>11
  <2>2. CASE i # Len(objects')
    <3>1. i \in Placed(objects) /\ objects'[i] = objects[i]
      BY <2>0, <2>2
    <3>2. RegionEnd(objects[i]) \in Nat /\ RegionEnd(objects[i]) <= position
      BY <3>1, ObjectIs
    <3>3. \A j \in Placed(objects) : i < j => RegionEnd(objects[i]) <= objects[j].pos
      BY <3>1 DEF WriterInv, RegionsApart
    <3>4. ASSUME NEW j \in Placed(objects'), i < j
          PROVE  RegionEnd(objects'[i]) <= objects'[j].pos
      <4>1. CASE j = Len(objects')
        BY <3>1, <3>2, <4>1, <1>7, <1>11
      <4>2. CASE j # Len(objects')
        <5>1. j \in Placed(objects) /\ objects'[j] = objects[j]
          BY <2>0, <4>2
        <5> QED BY <3>1, <3>3, <3>4, <5>1
      <4> QED BY <4>1, <4>2
    <3>5. RegionEnd(objects'[i]) <= position'
      BY <3>1, <3>2, <1>1, <1>2, <1>3
    <3> QED BY <3>4, <3>5
  <2> QED BY <2>1, <2>2
<1>13. TextsFit'
  <2> SUFFICES ASSUME NEW i \in DOMAIN objects', objects'[i].text # NoText
               PROVE  objects'[i].size = TextSize(objects'[i].text)
    BY DEF TextsFit, TextSize, Width, HeaderSize
  <2>1. CASE i = Len(objects')
    BY <2>1, <1>7
  <2>2. CASE i # Len(objects')
    <3>1. i \in DOMAIN objects /\ objects'[i] = objects[i]
      BY <2>2, <1>10, <1>14
    <3> QED BY <2>2, <3>1 DEF WriterInv, TextsFit
  <2> QED BY <2>1, <2>2
<1> QED BY <1>1, <1>2, <1>4, <1>6, <1>7, <1>8, <1>9, <1>12, <1>13

\* An object that is given no region leaves those of the others.
LEMMA FailsAbove ==
    ASSUME WriterInv, NEW n \in Nat \ {0}, NEW text \in Strings \cup {NoText},
           text # NoText => n = TextSize(text), AllocateFails(n, text)
    PROVE  /\ objects' \in Seq(Objects) /\ Len(objects') = Len(objects) + 1
           /\ objects'[Len(objects')] = [pos |-> kInvalidMDRVA, size |-> n, text |-> text]
           /\ \A i \in DOMAIN objects : i \in DOMAIN objects' /\ i # Len(objects')
                                        /\ objects'[i] = objects[i]
           /\ Placed(objects') = Placed(objects) /\ file_ = "open"
           /\ RegionsApart' /\ TextsFit'
<1> DEFINE o == [pos |-> kInvalidMDRVA, size |-> n, text |-> text]
<1>1. objects \in Seq(Objects) /\ o \in Objects
  BY MinidumpFileWriterAssumption DEF WriterInv, WriterTypeOK, Objects
<1>2. objects' = Append(objects, o) /\ file_ = "open" /\ UNCHANGED <<position, size>>
  BY DEF AllocateFails
<1>3. /\ objects' \in Seq(Objects) /\ Len(objects') = Len(objects) + 1
      /\ objects'[Len(objects')] = o
      /\ DOMAIN objects = 1..Len(objects) /\ DOMAIN objects' = 1..Len(objects')
      /\ Len(objects) \in Nat
  BY <1>1, <1>2
<1>4. \A i \in 1..Len(objects) : i \in 1..Len(objects') /\ i # Len(objects') /\ objects'[i] = objects[i]
  BY <1>1, <1>2
<1>5. \A i \in DOMAIN objects' : i # Len(objects') => i \in DOMAIN objects
  BY <1>3
<1>6. Placed(objects') = Placed(objects)
  BY <1>3, <1>4, <1>5 DEF Placed
<1>7. \A i \in Placed(objects) : objects'[i] = objects[i]
  BY <1>3, <1>4 DEF Placed
<1>8. RegionsApart'
  <2>1. RegionsApart
    BY DEF WriterInv
  <2>2. \A i \in Placed(objects) : RegionEnd(objects'[i]) = RegionEnd(objects[i])
    BY <1>7
  <2> QED BY <1>2, <1>6, <1>7, <2>1, <2>2 DEF RegionsApart, RegionEnd, Placed
<1>9. TextsFit'
  <2>1. TextsFit
    BY DEF WriterInv
  <2> SUFFICES ASSUME NEW i \in DOMAIN objects', objects'[i].text # NoText
               PROVE  objects'[i].size = TextSize(objects'[i].text)
    BY DEF TextsFit, TextSize, Width, HeaderSize
  <2>2. CASE i = Len(objects')
    BY <2>2, <1>3
  <2>3. CASE i # Len(objects')
    <3>1. i \in DOMAIN objects /\ objects'[i] = objects[i]
      BY <2>3, <1>3, <1>4, <1>5
    <3> QED BY <2>1, <3>1 DEF TextsFit
  <2> QED BY <2>2, <2>3
<1> QED BY <1>2, <1>3, <1>4, <1>6, <1>8, <1>9

\* What a write to no position hits is marked, and nothing is hit where sums have 64 bits.
LEMMA NowhereKeeps ==
    ASSUME WriterInv, NEW id, NEW n \in Nat \ {0}, CopyNowhere(id, n), UNCHANGED wraps
    PROVE  /\ told' = told /\ filePos' \in Nat /\ length' \in Nat /\ spoilt' \subseteq told
           /\ ~wraps' => spoilt' = {}
           /\ \A i \in told' \ spoilt' : Held(bytes', i, objects[i])
<1> DEFINE end == IF wraps THEN (n + kInvalidMDRVA) % (kInvalidMDRVA + 1) ELSE n + kInvalidMDRVA
<1>1. /\ filePos \in Nat /\ length \in Nat /\ spoilt \subseteq told /\ size \in Nat
      /\ told \subseteq Placed(objects) /\ wraps \in BOOLEAN /\ (~wraps => spoilt = {})
      /\ size < kInvalidMDRVA /\ kInvalidMDRVA \in Nat
      /\ \A i \in told \ spoilt : Held(bytes, i, objects[i])
  BY MinidumpFileWriterAssumption DEF WriterInv, WriterTypeOK, NotYetTold, RegionsApart
<1>2. ~wraps => end > size
  BY <1>1
<1>3. told' = told
  BY DEF CopyNowhere
<1>4. \/ end > size /\ UNCHANGED <<length, filePos, bytes, spoilt>>
      \/ /\ end <= size
         /\ \E m \in {n, n \div 2} :
               /\ bytes' = Written(bytes, filePos, m, <<id, 0>>)
               /\ filePos' = filePos + m /\ length' = Max2(length, filePos + m)
               /\ spoilt' = spoilt \cup
                     {i \in told : Region(objects[i]) \cap Span(filePos, m) # {}}
  BY DEF CopyNowhere
<1>5. CASE UNCHANGED <<length, filePos, bytes, spoilt>>
  <2>1. ASSUME NEW i \in told' \ spoilt' PROVE Held(bytes', i, objects[i])
    <3>1. i \in told \ spoilt /\ bytes' = bytes
      BY <1>3, <1>5
    <3>2. Held(bytes, i, objects[i])
      BY <1>1, <3>1
    <3> QED BY <3>1, <3>2
  <2> QED BY <1>1, <1>3, <1>5, <2>1
<1> HIDE DEF end
<1>6. CASE ~UNCHANGED <<length, filePos, bytes, spoilt>>
  <2>1. end <= size
    BY <1>4, <1>6
  <2>2. wraps
    <3>1. CASE wraps
      BY <3>1
    <3>2. CASE ~wraps
      BY <1>1, <1>2, <2>1, <3>2 DEF end
    <3> QED BY <3>1, <3>2
  <2>3. PICK m \in {n, n \div 2} :
               /\ bytes' = Written(bytes, filePos, m, <<id, 0>>)
               /\ filePos' = filePos + m /\ length' = Max2(length, filePos + m)
               /\ spoilt' = spoilt \cup
                     {i \in told : Region(objects[i]) \cap Span(filePos, m) # {}}
    BY <1>4, <1>6
  <2>4. m \in Nat
    BY <2>3
  <2>5. filePos' \in Nat /\ length' \in Nat
    BY <1>1, <2>3, <2>4 DEF Max2
  <2>6. ASSUME NEW i \in told' \ spoilt' PROVE Held(bytes', i, objects[i])
    <3>1. i \in told /\ i \notin spoilt /\ Region(objects[i]) \cap Span(filePos, m) = {}
      <4> DEFINE hit == {h \in told : Region(objects[h]) \cap Span(filePos, m) # {}}
      <4>1. i \in told /\ i \notin spoilt /\ i \notin hit
        BY <1>3, <2>3
      <4> QED BY <4>1
    <3>6. i \in Placed(objects) /\ Held(bytes, i, objects[i])
      <4>1. i \in told \ spoilt
        BY <3>1
      <4> QED BY <1>1, <4>1
    <3> DEFINE o == objects[i]
               item == <<id, 0>>
    <3>2. o \in Objects /\ (o.text # NoText => o.size = TextSize(o.text))
      BY <3>6, ObjectIs
    <3>3. bytes' = Written(bytes, filePos, m, item)
      BY <2>3
    <3> HIDE DEF item
    <3>4. \A x \in DOMAIN bytes : x \in DOMAIN bytes'
                               /\ (x \notin Span(filePos, m) => bytes'[x] = bytes[x])
      BY <1>1, <2>4, <3>3, WrittenIs
    <3>5. \A x \in Span(o.pos, o.size) : x \in DOMAIN bytes => x \in DOMAIN bytes' /\ bytes'[x] = bytes[x]
      BY <3>1, <3>4 DEF Region
    <3> HIDE DEF o
    <3> QED BY <3>2, <3>5, <3>6, HeldUnder DEF o
  <2> QED BY <1>1, <1>3, <2>2, <2>3, <2>5, <2>6
<1> QED BY <1>5, <1>6

\* A new region that is written as it is handed out: what was told holds, and the new object does
\* when it is told.
LEMMA NewRegion ==
    ASSUME WriterInv, NEW n \in Nat \ {0}, NEW text \in Strings \cup {NoText},
           text # NoText => n = TextSize(text), Allocate(n, text),
           UNCHANGED <<wraps, file_, live, spoilt>>, filePos' \in Nat,
           \A x \in DOMAIN bytes : x \in DOMAIN bytes' /\ (x \notin Int \/ x < position => bytes'[x] = bytes[x]),
           \/ UNCHANGED told
           \/ /\ told' = told \cup {Len(objects')}
              /\ Held(bytes', Len(objects'), [pos |-> position, size |-> n, text |-> text])
    PROVE  WriterInv'
<1>1. /\ objects' \in Seq(Objects) /\ Len(objects') = Len(objects) + 1
      /\ objects'[Len(objects')] = [pos |-> position, size |-> n, text |-> text]
      /\ \A i \in DOMAIN objects : i \in DOMAIN objects' /\ i # Len(objects')
                                   /\ objects'[i] = objects[i]
      /\ position' \in Nat /\ size' \in Nat /\ length' \in Nat
      /\ RegionsApart' /\ TextsFit' /\ position < kInvalidMDRVA /\ position \in Nat
      /\ file_ = "open"
  BY AllocateAbove
<1>2. /\ live \subseteq DOMAIN objects /\ told \subseteq DOMAIN objects
      /\ file_ \in {"none", "open", "closed"} /\ objects \in Seq(Objects)
      /\ live \cap told = {} /\ \A id \in live : objects[id].text = NoText
      /\ told \subseteq Placed(objects) /\ spoilt \subseteq told /\ wraps \in BOOLEAN
      /\ ~wraps => spoilt = {}
  BY DEF WriterInv, WriterTypeOK, NotYetTold, Objects
<1>3. Placed(objects) \subseteq Placed(objects') /\ Len(objects') \in Placed(objects')
  <2>1. Len(objects') \in DOMAIN objects' /\ kInvalidMDRVA \in Nat
    BY <1>1, MinidumpFileWriterAssumption
  <2>2. objects'[Len(objects')].pos # kInvalidMDRVA
    BY <1>1, <2>1
  <2> QED BY <1>1, <2>1, <2>2 DEF Placed
<1>4. Len(objects') \in DOMAIN objects' /\ Len(objects') \notin live
  BY <1>1, <1>2
<1>5. WriterTypeOK'
  BY <1>1, <1>2, <1>4 DEF WriterTypeOK, Objects
<1>6. NotYetTold'
  BY <1>1, <1>2, <1>3, <1>4 DEF NotYetTold, Placed
<1>7. ASSUME NEW id \in told' \ spoilt' PROVE Held(bytes', id, objects'[id])
  <2>1. CASE id \in told
    <3>1. /\ id \in Placed(objects) /\ objects'[id] = objects[id] /\ Held(bytes, id, objects[id])
      BY <2>1, <1>1, <1>2, <1>7 DEF WriterInv
    <3> DEFINE o == objects[id]
    <3>2. /\ o \in Objects /\ o.pos \in Nat /\ o.size \in Nat \ {0} /\ position \in Nat
          /\ o.text # NoText => o.size = TextSize(o.text)
          /\ o.pos + o.size <= position
      BY <3>1, ObjectIs
    <3>3. \A x \in Span(o.pos, o.size) : x \in DOMAIN bytes => x \in DOMAIN bytes' /\ bytes'[x] = bytes[x]
      BY <3>2 DEF Span
    <3> HIDE DEF o
    <3>4. Held(bytes', id, o)
      BY <3>1, <3>2, <3>3, HeldUnder DEF o
    <3> QED BY <3>1, <3>4 DEF o
  <2>2. CASE id \notin told
    BY <2>2, <1>1
  <2> QED BY <2>1, <2>2
<1>8. ~wraps' => spoilt' = {}
  BY <1>2
<1> QED BY <1>1, <1>5, <1>6, <1>7, <1>8 DEF WriterInv, Held, Plain, Span, HeaderSize

\* Memory written, as far as it goes.
LEMMA WriteMemoryKeeps ==
    ASSUME WriterInv, NEW n \in Sizes, WriteMemory(n)
    PROVE  WriterInv'
<1> DEFINE id == Len(objects')
<1>1. n \in Nat \ {0} /\ n \div 2 \in Nat
  BY MinidumpFileWriterAssumption
<1>2. Allocate(n, NoText) /\ UNCHANGED <<wraps, file_, live>>
  BY DEF WriteMemory
<1>3. objects'[id] = [pos |-> position, size |-> n, text |-> NoText]
  BY <1>1, <1>2, AllocateAbove
<1>4. position \in Nat
  BY DEF WriterInv, WriterTypeOK
<1>5. /\ UNCHANGED spoilt /\ filePos' \in {position + n, position + n \div 2}
      /\ \/ bytes' = Written(bytes, position, n, <<id, 0>>) /\ told' = told \cup {id}
         \/ bytes' = Written(bytes, position, n \div 2, <<id, 0>>) /\ UNCHANGED told
  <2>1. CopyTo(id, position, n)
    BY <1>3 DEF WriteMemory
  <2> QED BY <2>1 DEF CopyTo
<1>9. filePos' \in Nat
  BY <1>1, <1>4, <1>5
<1>6. ASSUME NEW k \in Nat, bytes' = Written(bytes, position, k, <<id, 0>>)
      PROVE  \A x \in DOMAIN bytes :
                x \in DOMAIN bytes' /\ (x \notin Int \/ x < position => bytes'[x] = bytes[x])
  <2>1. \A x : x \notin Int \/ x < position => x \notin Span(position, k)
    BY <1>4 DEF Span
  <2> DEFINE item == <<id, 0>>
  <2>2. bytes' = Written(bytes, position, k, item)
    BY <1>6
  <2> HIDE DEF item
  <2>3. /\ \A x \in DOMAIN bytes : x \in DOMAIN bytes'
        /\ \A x \in DOMAIN bytes \ Span(position, k) : bytes'[x] = bytes[x]
    BY <1>4, <1>6, <2>2, WrittenIs
  <2> QED BY <2>1, <2>3
<1>7. CASE bytes' = Written(bytes, position, n, <<id, 0>>) /\ told' = told \cup {id}
  <2> DEFINE o == [pos |-> position, size |-> n, text |-> NoText]
  <2>0. \A x \in Span(position, n) : x \in DOMAIN bytes' /\ bytes'[x] = <<id, 0>>
    <3> DEFINE item == <<id, 0>>
    <3>1. n \in Nat /\ bytes' = Written(bytes, position, n, item)
      BY <1>1, <1>7
    <3> HIDE DEF item
    <3>2. \A x \in Span(position, n) : x \in DOMAIN bytes' /\ bytes'[x] = item
      BY <3>1 DEF Written
    <3> QED BY <3>2 DEF item
  <2>1. Held(bytes', id, o)
    <3>1. o.pos = position /\ o.size = n /\ o.text = NoText
      OBVIOUS
    <3> HIDE DEF o, id
    <3> QED BY <2>0, <3>1 DEF Held
  <2> QED BY <1>1, <1>2, <1>5, <1>6, <1>7, <1>9, <2>1, NewRegion
<1>8. CASE bytes' = Written(bytes, position, n \div 2, <<id, 0>>) /\ UNCHANGED told
  BY <1>1, <1>2, <1>5, <1>6, <1>8, <1>9, NewRegion
<1> QED BY <1>5, <1>7, <1>8

\* A string written, as far as it goes.
LEMMA WriteStringKeeps ==
    ASSUME WriterInv, NEW text \in Strings, WriteString(text)
    PROVE  WriterInv'
<1> DEFINE n == TextSize(text)
           id == Len(objects')
           o == [pos |-> position, size |-> n, text |-> text]
           null == <<id, Before(text)[Len(text) + 1] + 1>>
           body(k) == Characters(bytes, position, text, id, k)
           ended == Written(body(Len(text)), position + HeaderSize + 2 * Width(text), 2, null)
           header(b) == Written(b, position, HeaderSize, <<id, 0>>)
           part(b, m) == Written(b, position, m, <<id, 0>>)
           Starts == {HeaderSize, HeaderSize \div 2}
<1>1. /\ n \in Nat \ {0} /\ Width(text) \in Nat /\ Len(text) \in Nat
      /\ n >= HeaderSize + 2 * Len(text) + 2 /\ Width(text) >= Len(text)
  BY TextSizeIs, WidthIs
<1>2. Allocate(n, text) /\ UNCHANGED <<wraps, file_, live, spoilt>>
  BY DEF WriteString
<1>3. objects'[id] = o
  BY <1>1, <1>2, AllocateAbove
<1>4. position \in Nat /\ HeaderSize \in Nat
  BY DEF WriterInv, WriterTypeOK, HeaderSize
<1>5. /\ filePos' \in Nat
      /\ \/ bytes' = header(ended) /\ told' = told \cup {id}
         \/ /\ UNCHANGED told
            /\ \/ \E k \in 0..Len(text), m \in Starts : bytes' = part(body(k), m)
               \/ \E m \in Starts : bytes' = part(ended, m)
  <2> DEFINE all(b) == Written(b, position + HeaderSize + 2 * Width(text), 2, null)
  <2>1. o.pos = position
    OBVIOUS
  <2>2. PICK k \in 0..Len(text), m \in Starts :
           /\ filePos' = position + m
           /\ \/ bytes' = part(body(k), m) /\ UNCHANGED told
              \/ /\ k = Len(text) /\ bytes' = part(all(body(k)), m)
                 /\ told' = IF m = HeaderSize THEN told \cup {id} ELSE told
    BY <1>3, <2>1 DEF WriteString
  <2>3. filePos' \in Nat
    BY <1>4, <2>2 DEF HeaderSize
  <2>4. CASE bytes' = part(body(k), m) /\ UNCHANGED told
    BY <2>3, <2>4
  <2>5. CASE /\ k = Len(text) /\ bytes' = part(all(body(k)), m)
             /\ told' = IF m = HeaderSize THEN told \cup {id} ELSE told
    <3>1. bytes' = part(ended, m)
      BY <2>5
    <3>2. CASE m = HeaderSize
      BY <2>3, <2>5, <3>1, <3>2
    <3>3. CASE m # HeaderSize
      BY <2>3, <2>5, <3>1, <3>3
    <3> QED BY <3>2, <3>3
  <2> QED BY <2>2, <2>4, <2>5
<1>6. ASSUME NEW k \in 0..Len(text)
      PROVE  \A x \in DOMAIN bytes :
                x \in DOMAIN body(k) /\ (x \notin Int \/ x < position => body(k)[x] = bytes[x])
  <2> DEFINE c == body(k)
  <2>1. c = Characters(bytes, position, text, id, k)
    OBVIOUS
  <2> HIDE DEF c, id
  <2>2. \A x \in DOMAIN bytes :
           x \in DOMAIN c /\ (x \notin Int \/ x < position => c[x] = bytes[x])
    BY <1>4, <1>6, <2>1, CharactersAbove
  <2> QED BY <2>2 DEF c
<1>7. \A x : x \notin Int \/ x < position => x \notin Span(position, HeaderSize)
  BY <1>4 DEF Span
<1>12. ASSUME NEW m \in Starts
       PROVE  m \in Nat /\ \A x : x \notin Int \/ x < position => x \notin Span(position, m)
  BY <1>4 DEF Span, HeaderSize
<1>8. \A x : x \notin Int \/ x < position => x \notin Span(position + HeaderSize + 2 * Width(text), 2)
  BY <1>1, <1>4 DEF Span
<1>9. position + HeaderSize + 2 * Width(text) \in Nat
  BY <1>1, <1>4
<1> HIDE DEF body, null
<1>13. \A x \in DOMAIN bytes :
          x \in DOMAIN ended /\ (x \notin Int \/ x < position => ended[x] = bytes[x])
  BY <1>1, <1>6, <1>8, <1>9, WrittenIs
<1>10. CASE bytes' = header(ended) /\ told' = told \cup {id}
  <2>2. /\ \A x \in Span(position, HeaderSize) : x \in DOMAIN header(ended) /\ header(ended)[x] = <<id, 0>>
        /\ \A x \in DOMAIN ended : x \in DOMAIN header(ended)
        /\ \A x \in DOMAIN ended \ Span(position, HeaderSize) : header(ended)[x] = ended[x]
    <3> DEFINE item == <<id, 0>>
    <3> HIDE DEF ended, item
    <3>1. /\ \A x \in Span(position, HeaderSize) :
               /\ x \in DOMAIN Written(ended, position, HeaderSize, item)
               /\ Written(ended, position, HeaderSize, item)[x] = item
          /\ \A x \in DOMAIN ended : x \in DOMAIN Written(ended, position, HeaderSize, item)
          /\ \A x \in DOMAIN ended \ Span(position, HeaderSize) :
               Written(ended, position, HeaderSize, item)[x] = ended[x]
      BY <1>4, WrittenIs
    <3> QED BY <3>1 DEF item
  <2> HIDE DEF header
  <2>3. \A x \in DOMAIN bytes :
           x \in DOMAIN bytes' /\ (x \notin Int \/ x < position => bytes'[x] = bytes[x])
    <3> HIDE DEF ended
    <3> QED BY <1>7, <1>10, <1>13, <2>2
  <2>4. ASSUME Plain(text), NEW k \in 1..Len(text), NEW e \in {0, 1}
        PROVE  /\ position + HeaderSize + 2 * (k - 1) + e \in DOMAIN bytes'
               /\ bytes'[position + HeaderSize + 2 * (k - 1) + e] = Unit(id, k)
    <3> DEFINE y == position + HeaderSize + 2 * (k - 1) + e
    <3>1. y \in DOMAIN body(Len(text)) /\ body(Len(text))[y] = Unit(id, k)
      <4> DEFINE c == body(Len(text))
      <4>1. c = Characters(bytes, position, text, id, Len(text)) /\ position \in Nat
        BY <1>4 DEF body
      <4> HIDE DEF c, id
      <4>2. \A i \in 1..Len(text), x \in {0, 1} :
               /\ position + HeaderSize + 2 * (i - 1) + x \in DOMAIN c
               /\ c[position + HeaderSize + 2 * (i - 1) + x] = Unit(id, i)
        BY <2>4, <4>1, CharactersAre
      <4> QED BY <4>2 DEF c
    <3>2. y \in Int /\ y >= position + HeaderSize /\ y < position + HeaderSize + 2 * Len(text)
      <4>1. y \in Int
        BY <1>1, <1>4
      <4> QED BY <1>1, <1>4, <4>1, CharacterInRegion
    <3> HIDE DEF y
    <3>3. y \notin Span(position, HeaderSize)
          /\ y \notin Span(position + HeaderSize + 2 * Width(text), 2)
      BY <1>1, <1>4, <3>2 DEF Span
    <3>4. y \in DOMAIN ended /\ ended[y] = Unit(id, k)
      BY <1>9, <3>1, <3>3, WrittenIs
    <3>5. y \in DOMAIN bytes' /\ bytes'[y] = Unit(id, k)
      <4> HIDE DEF ended
      <4> QED BY <1>10, <2>2, <3>3, <3>4
    <3> QED BY <3>5 DEF y
  <2>5. Held(bytes', id, o)
    <3>1. o.text = text /\ o.pos = position /\ text # NoText
      BY TextIs
    <3> HIDE DEF o, ended
    <3> QED BY <3>1, <1>10, <2>2, <2>4 DEF Held
  <2> HIDE DEF ended
  <2> QED BY <1>1, <1>2, <1>5, <1>10, <2>3, <2>5, NewRegion
<1>11. ASSUME NEW c, NEW m \in Starts, bytes' = part(c, m), UNCHANGED told,
              \A x \in DOMAIN bytes :
                 x \in DOMAIN c /\ (x \notin Int \/ x < position => c[x] = bytes[x])
       PROVE  WriterInv'
  <2> DEFINE item == <<id, 0>>
  <2>1. bytes' = Written(c, position, m, item) /\ m \in Nat
    BY <1>11, <1>12
  <2> HIDE DEF item
  <2>2. /\ \A x \in DOMAIN c : x \in DOMAIN bytes'
        /\ \A x \in DOMAIN c \ Span(position, m) : bytes'[x] = c[x]
    BY <1>4, <2>1, WrittenIs
  <2>3. \A x \in DOMAIN bytes :
           x \in DOMAIN bytes' /\ (x \notin Int \/ x < position => bytes'[x] = bytes[x])
    BY <1>11, <1>12, <2>2
  <2> HIDE DEF part, header, ended
  <2> QED BY <1>1, <1>2, <1>5, <1>11, <2>3, NewRegion
<1> HIDE DEF part, ended
<1>14. CASE \E k \in 0..Len(text), m \in Starts : bytes' = part(body(k), m) /\ UNCHANGED told
  BY <1>6, <1>11, <1>14
<1>15. CASE \E m \in Starts : bytes' = part(ended, m) /\ UNCHANGED told
  BY <1>11, <1>13, <1>15
<1> HIDE DEF header, Starts
<1> QED BY <1>5, <1>10, <1>14, <1>15

\* An object handed out now, to be flushed later, or one that gets no region.
LEMMA AllocateObjectKeeps ==
    ASSUME WriterInv, NEW n \in Sizes, AllocateObject(n)
    PROVE  WriterInv'
<1>1. n \in Nat \ {0} /\ kInvalidMDRVA \in Nat
  BY MinidumpFileWriterAssumption
<1>2. /\ Allocate(n, NoText) \/ (AllocateFails(n, NoText) /\ UNCHANGED length)
      /\ live' = live \cup {Len(objects')} /\ UNCHANGED <<wraps, file_, filePos, bytes, told, spoilt>>
  BY DEF AllocateObject
<1>4. /\ live \subseteq DOMAIN objects /\ told \subseteq DOMAIN objects /\ spoilt \subseteq told
      /\ file_ \in {"none", "open", "closed"} /\ objects \in Seq(Objects)
      /\ live \cap told = {} /\ \A id \in live : objects[id].text = NoText
      /\ told \subseteq Placed(objects) /\ wraps \in BOOLEAN /\ (~wraps => spoilt = {})
      /\ filePos \in Nat /\ position \in Nat /\ size \in Nat /\ length \in Nat
  BY DEF WriterInv, WriterTypeOK, NotYetTold, Objects
<1>3. /\ objects' \in Seq(Objects) /\ Len(objects') = Len(objects) + 1
      /\ objects'[Len(objects')].text = NoText
      /\ \A i \in DOMAIN objects : i \in DOMAIN objects' /\ i # Len(objects')
                                   /\ objects'[i] = objects[i]
      /\ position' \in Nat /\ size' \in Nat /\ length' \in Nat
      /\ RegionsApart' /\ TextsFit' /\ file_ = "open"
  <2>1. CASE Allocate(n, NoText)
    <3>1. objects'[Len(objects')] = [pos |-> position, size |-> n, text |-> NoText]
      BY <1>1, <2>1, AllocateAbove
    <3>2. objects'[Len(objects')].text = NoText
      BY <3>1
    <3> QED BY <1>1, <2>1, <3>2, AllocateAbove
  <2>2. CASE AllocateFails(n, NoText) /\ UNCHANGED length
    <3>1. UNCHANGED <<position, size>>
      BY <2>2 DEF AllocateFails
    <3>2. objects'[Len(objects')] = [pos |-> kInvalidMDRVA, size |-> n, text |-> NoText]
      BY <1>1, <2>2, FailsAbove
    <3>3. objects'[Len(objects')].text = NoText
      BY <3>2
    <3>4. position' \in Nat /\ size' \in Nat /\ length' \in Nat
      BY <1>4, <2>2, <3>1
    <3> QED BY <1>1, <2>2, <3>3, <3>4, FailsAbove
  <2> QED BY <1>2, <2>1, <2>2
<1>5. Placed(objects) \subseteq Placed(objects')
  BY <1>3 DEF Placed
<1>6. Len(objects') \in DOMAIN objects' /\ Len(objects') \notin told
  BY <1>3, <1>4
<1>7. WriterTypeOK'
  BY <1>2, <1>3, <1>4, <1>6 DEF WriterTypeOK, Objects
<1>8. NotYetTold'
  BY <1>2, <1>3, <1>4, <1>5, <1>6 DEF NotYetTold, Placed
<1>9. \A id \in told' \ spoilt' : Held(bytes', id, objects'[id])
  BY <1>2, <1>3, <1>4 DEF WriterInv
<1>10. ~wraps' => spoilt' = {}
  BY <1>2, <1>4
<1> QED BY <1>3, <1>7, <1>8, <1>9, <1>10 DEF WriterInv, Held, Plain, Span, HeaderSize

\* A string that gets no region.
LEMMA WriteStringFailsKeeps ==
    ASSUME WriterInv, NEW text \in Strings, WriteStringFails(text)
    PROVE  WriterInv'
<1>1. TextSize(text) \in Nat \ {0} /\ HeaderSize \in Nat \ {0}
  BY TextSizeIs DEF HeaderSize
<1>2. /\ AllocateFails(TextSize(text), text) /\ CopyNowhere(Len(objects'), HeaderSize)
      /\ UNCHANGED <<wraps, file_, live>>
  BY DEF WriteStringFails
<1>3. UNCHANGED <<position, size>>
  BY <1>2 DEF AllocateFails
<1>4. /\ live \subseteq DOMAIN objects /\ told \subseteq DOMAIN objects
      /\ file_ \in {"none", "open", "closed"} /\ wraps \in BOOLEAN
      /\ live \cap told = {} /\ \A id \in live : objects[id].text = NoText
      /\ told \subseteq Placed(objects) /\ position \in Nat /\ size \in Nat
  BY DEF WriterInv, WriterTypeOK, NotYetTold
<1>5. /\ objects' \in Seq(Objects)
      /\ \A i \in DOMAIN objects : i \in DOMAIN objects' /\ objects'[i] = objects[i]
      /\ Placed(objects') = Placed(objects) /\ file_ = "open" /\ RegionsApart' /\ TextsFit'
  BY <1>1, <1>2, FailsAbove
<1>6. /\ told' = told /\ filePos' \in Nat /\ length' \in Nat /\ spoilt' \subseteq told
      /\ ~wraps' => spoilt' = {}
      /\ \A i \in told' \ spoilt' : Held(bytes', i, objects[i])
  BY <1>1, <1>2, NowhereKeeps
<1>7. WriterTypeOK'
  BY <1>2, <1>3, <1>4, <1>5, <1>6 DEF WriterTypeOK, Objects
<1>8. NotYetTold'
  BY <1>2, <1>4, <1>5, <1>6 DEF NotYetTold, Placed
<1>9. \A i \in told' \ spoilt' : Held(bytes', i, objects'[i])
  BY <1>4, <1>5, <1>6
<1> QED BY <1>5, <1>6, <1>7, <1>8, <1>9 DEF WriterInv, Held, Plain, Span, HeaderSize

\* The flush of an object that was given no region.
LEMMA FlushNowhereKeeps ==
    ASSUME WriterInv, NEW id \in live, Flush(id), objects[id].pos = kInvalidMDRVA
    PROVE  WriterInv'
<1>1. /\ file_ = "open" /\ live' = live \ {id} /\ CopyNowhere(id, objects[id].size)
      /\ UNCHANGED <<wraps, file_, position, size, objects>>
  BY DEF Flush
<1>2. /\ live \subseteq DOMAIN objects /\ objects \in Seq(Objects)
  BY DEF WriterInv, WriterTypeOK, Objects
<1>3. objects[id] \in Objects
  BY <1>2
<1>4. objects[id].size \in Nat \ {0}
  BY <1>3 DEF Objects
<1>5. /\ told' = told /\ filePos' \in Nat /\ length' \in Nat /\ spoilt' \subseteq told
      /\ ~wraps' => spoilt' = {}
      /\ \A i \in told' \ spoilt' : Held(bytes', i, objects[i])
  BY <1>1, <1>4, NowhereKeeps
<1>6. WriterTypeOK' /\ NotYetTold'
  BY <1>1, <1>5 DEF WriterInv, WriterTypeOK, NotYetTold, Placed
<1>7. RegionsApart' /\ TextsFit'
  <2>1. /\ UNCHANGED <<objects, position, size>> /\ RegionsApart /\ TextsFit
    BY <1>1 DEF WriterInv
  <2>2. RegionsApart'
    BY <2>1 DEF RegionsApart, RegionEnd, Aligned, Placed
  <2>3. TextsFit'
    <3> SUFFICES ASSUME NEW i \in DOMAIN objects', objects'[i].text # NoText
                 PROVE  objects'[i].size = TextSize(objects'[i].text)
      BY DEF TextsFit, TextSize, Width, HeaderSize
    <3> QED BY <2>1 DEF TextsFit
  <2> QED BY <2>2, <2>3
<1> QED BY <1>1, <1>5, <1>6, <1>7 DEF WriterInv, Held, Plain, Span, HeaderSize

\* An object flushed, as far as it goes: other regions are not touched.
LEMMA FlushKeeps ==
    ASSUME WriterInv, NEW id \in live, Flush(id)
    PROVE  WriterInv'
<1> DEFINE o == objects[id]
<1>11. CASE o.pos = kInvalidMDRVA
  BY <1>11, FlushNowhereKeeps
<1>12. SUFFICES ASSUME o.pos # kInvalidMDRVA PROVE WriterInv'
  BY <1>11
<1>1. /\ live \subseteq DOMAIN objects /\ told \subseteq DOMAIN objects
      /\ live \cap told = {} /\ id \in DOMAIN objects /\ id \notin told /\ o.text = NoText
      /\ id \in Placed(objects) /\ told \subseteq Placed(objects) /\ spoilt \subseteq told
      /\ ~wraps => spoilt = {}
  BY <1>12 DEF WriterInv, WriterTypeOK, NotYetTold, Placed
<1>2. /\ file_ = "open" /\ live' = live \ {id}
      /\ UNCHANGED <<wraps, file_, position, size, length, objects, spoilt>>
      /\ filePos' \in {o.pos + o.size, o.pos + o.size \div 2}
      /\ \/ bytes' = Written(bytes, o.pos, o.size, <<id, 0>>) /\ told' = told \cup {id}
         \/ bytes' = Written(bytes, o.pos, o.size \div 2, <<id, 0>>) /\ UNCHANGED told
  BY <1>12 DEF Flush, CopyTo
<1>3. o \in Objects /\ o.pos \in Nat /\ o.size \in Nat \ {0} /\ id \in 1..Len(objects)
      /\ o.pos + o.size <= RegionEnd(o) /\ RegionEnd(o) \in Nat
  BY <1>1, ObjectIs
<1>4. o.size \div 2 \in Nat /\ o.size \div 2 <= o.size /\ filePos' \in Nat
  BY <1>2, <1>3
<1>5. PICK k \in Nat : k <= o.size /\ bytes' = Written(bytes, o.pos, k, <<id, 0>>)
  BY <1>2, <1>3, <1>4
<1>6. ASSUME NEW i \in told \ spoilt PROVE Held(bytes', i, objects'[i])
  <2> DEFINE q == objects[i]
  <2>1. /\ i \in Placed(objects) /\ i # id /\ Held(bytes, i, q)
    BY <1>1 DEF WriterInv
  <2>2. /\ q \in Objects /\ q.pos \in Nat /\ q.size \in Nat \ {0} /\ i \in 1..Len(objects)
        /\ q.text # NoText => q.size = TextSize(q.text)
        /\ q.pos + q.size <= RegionEnd(q) /\ RegionEnd(q) \in Nat
    BY <2>1, ObjectIs
  <2>3. RegionEnd(o) <= q.pos \/ RegionEnd(q) <= o.pos
    <3>1. i < id \/ id < i
      BY <1>3, <2>1, <2>2
    <3> QED BY <3>1, <1>1, <2>1 DEF WriterInv, RegionsApart
  <2> HIDE DEF q, o
  <2>4. ASSUME NEW x \in Span(q.pos, q.size) PROVE x \notin Span(o.pos, k)
    <3>1. x \in Int /\ q.pos <= x /\ x < q.pos + q.size
      BY <2>2 DEF Span
    <3>2. o.pos + k <= RegionEnd(o)
      BY <1>3, <1>5
    <3>3. x < o.pos \/ o.pos + k <= x
      <4>1. CASE RegionEnd(o) <= q.pos
        <5>1. o.pos + k \in Int
          BY <1>3, <1>5
        <5> QED BY <1>3, <2>2, <3>1, <3>2, <4>1, <5>1
      <4>2. CASE RegionEnd(q) <= o.pos
        BY <1>3, <2>2, <3>1, <4>2
      <4> QED BY <2>3, <4>1, <4>2
    <3> QED BY <1>3, <1>5, <3>1, <3>3 DEF Span
  <2>5. Held(bytes', i, q)
    <3>1. \A x \in Span(q.pos, q.size) : x \in DOMAIN bytes => x \in DOMAIN bytes' /\ bytes'[x] = bytes[x]
      BY <1>3, <1>5, <2>4, WrittenIs
    <3> QED BY <2>1, <2>2, <3>1, HeldUnder
  <2> QED BY <1>2, <2>5 DEF q
<1>7. ASSUME bytes' = Written(bytes, o.pos, o.size, <<id, 0>>)
      PROVE  Held(bytes', id, objects'[id])
  <2>1. o.size \in Nat
    BY <1>3
  <2> HIDE DEF o
  <2>2. \A x \in Span(o.pos, o.size) : x \in DOMAIN bytes' /\ bytes'[x] = <<id, 0>>
    <3> DEFINE item == <<id, 0>>
               p == o.pos
               n == o.size
    <3>1. bytes' = Written(bytes, p, n, item) /\ p \in Nat /\ n \in Nat
      BY <1>3, <1>7
    <3> HIDE DEF item, p, n
    <3>2. \A x \in Span(p, n) : x \in DOMAIN bytes' /\ bytes'[x] = item
      BY <3>1 DEF Written
    <3> QED BY <3>2 DEF item, p, n
  <2>3. Held(bytes', id, o)
    BY <1>1, <2>2 DEF Held
  <2> QED BY <1>2, <2>3 DEF o
<1>8. \A i \in told' \ spoilt' : Held(bytes', i, objects'[i])
  BY <1>2, <1>6, <1>7
<1>9. WriterTypeOK' /\ NotYetTold'
  BY <1>1, <1>2, <1>4 DEF WriterInv, WriterTypeOK, NotYetTold, Placed
<1>10. RegionsApart' /\ TextsFit'
  <2>1. objects' = objects /\ position' = position /\ RegionsApart /\ TextsFit
    BY <1>2 DEF WriterInv
  <2>2. RegionsApart'
    BY <1>2, <2>1 DEF RegionsApart, RegionEnd, Aligned, Placed
  <2>3. TextsFit'
    <3> SUFFICES ASSUME NEW i \in DOMAIN objects', objects'[i].text # NoText
                 PROVE  objects'[i].size = TextSize(objects'[i].text)
      BY DEF TextsFit, TextSize, Width, HeaderSize
    <3> QED BY <2>1 DEF TextsFit
  <2> QED BY <2>2, <2>3
<1>13. ~wraps' => spoilt' = {}
  BY <1>1, <1>2
<1> QED BY <1>8, <1>9, <1>10, <1>13 DEF WriterInv, Held, Plain, Span, HeaderSize

\* Opening and closing the file.
LEMMA OpenAndCloseKeep ==
    ASSUME WriterInv, Open \/ Close \/ UNCHANGED writerVars
    PROVE  WriterInv'
<1>1. UNCHANGED <<wraps, position, size, filePos, bytes, objects, live, told, spoilt>>
  BY DEF Open, Close, writerVars
<1>2. WriterTypeOK' /\ NotYetTold'
  BY <1>1 DEF WriterInv, WriterTypeOK, NotYetTold, Open, Close, writerVars, Placed
<1>3. RegionsApart' /\ TextsFit'
  <2>1. UNCHANGED <<objects, position, size>> /\ RegionsApart /\ TextsFit
    BY <1>1 DEF WriterInv
  <2>2. RegionsApart'
    BY <2>1 DEF RegionsApart, RegionEnd, Aligned, Placed
  <2>3. TextsFit'
    <3> SUFFICES ASSUME NEW i \in DOMAIN objects', objects'[i].text # NoText
                 PROVE  objects'[i].size = TextSize(objects'[i].text)
      BY DEF TextsFit, TextSize, Width, HeaderSize
    <3> QED BY <2>1 DEF TextsFit
  <2> QED BY <2>2, <2>3
<1>4. \A i \in told' \ spoilt' : Held(bytes', i, objects'[i])
  BY <1>1 DEF WriterInv
<1>5. ~wraps' => spoilt' = {}
  BY <1>1 DEF WriterInv
<1> QED BY <1>2, <1>3, <1>4, <1>5 DEF WriterInv, Held, Plain, Span, HeaderSize

\* The regions that were given do not overlap, and what was told is there unless a write to
\* no position has hit it, which none does in a 64-bit build, in every state of the writer.
THEOREM RegionsAreKept == WriterSpec => []WriterInv
<1>1. WriterInit => WriterInv
  <2> SUFFICES ASSUME WriterInit PROVE WriterInv
    OBVIOUS
  <2>1. /\ objects = <<>> /\ position = 0 /\ size = 0 /\ length = 0 /\ filePos = 0
        /\ live = {} /\ told = {} /\ spoilt = {} /\ file_ = "none" /\ wraps \in BOOLEAN
    BY DEF WriterInit
  <2>2. DOMAIN objects = {} /\ Placed(objects) = {}
    BY <2>1 DEF Placed
  <2>3. WriterTypeOK /\ NotYetTold
    BY <2>1, <2>2 DEF WriterTypeOK, NotYetTold
  <2>4. RegionsApart /\ TextsFit
    BY <2>1, <2>2, MinidumpFileWriterAssumption DEF RegionsApart, TextsFit
  <2> QED BY <2>1, <2>3, <2>4 DEF WriterInv
<1>2. WriterInv /\ [WriterNext]_writerVars => WriterInv'
  <2> SUFFICES ASSUME WriterInv, [WriterNext]_writerVars PROVE WriterInv'
    OBVIOUS
  <2>1. CASE Open \/ Close \/ UNCHANGED writerVars
    BY <2>1, OpenAndCloseKeep
  <2>2. CASE \E n \in Sizes : AllocateObject(n) \/ WriteMemory(n)
    BY <2>2, AllocateObjectKeeps, WriteMemoryKeeps
  <2>3. CASE \E text \in Strings : WriteString(text) \/ WriteStringFails(text)
    BY <2>3, WriteStringKeeps, WriteStringFailsKeeps
  <2>4. CASE \E id \in live : Flush(id)
    BY <2>4, FlushKeeps
  <2> QED BY <2>1, <2>2, <2>3, <2>4 DEF WriterNext
<1> QED BY <1>1, <1>2, PTL DEF WriterSpec

\* Types of the writer.
THEOREM WriterTypes == WriterSpec => []WriterTypeOK
<1>1. WriterInv => WriterTypeOK
  BY DEF WriterInv
<1> QED BY <1>1, RegionsAreKept, PTL

\* A location that a caller was given holds what was written there, unless an object
\* without a position was flushed over it, which does not happen in a 64-bit build.
THEOREM LocationsAreKept == WriterSpec => []LocationsHold
<1>1. WriterInv => LocationsHold
  <2> SUFFICES ASSUME WriterInv PROVE LocationsHold
    OBVIOUS
  <2>1. ASSUME NEW id \in told, NEW o, o = objects[id], file_ = "closed"
        PROVE  o.pos + o.size <= length
    <3>1. id \in Placed(objects)
      BY DEF WriterInv, NotYetTold
    <3>2. /\ o.pos \in Nat /\ o.size \in Nat /\ RegionEnd(o) \in Nat /\ position \in Nat
          /\ o.pos + o.size <= RegionEnd(o) /\ RegionEnd(o) <= position
      BY <2>1, <3>1, ObjectIs
    <3> QED BY <2>1, <3>2 DEF WriterInv, NotYetTold
  <2>2. ASSUME NEW id \in told, NEW o, o = objects[id], id \notin spoilt
        PROVE  /\ o.text = NoText => \A x \in Region(o) : x \in DOMAIN bytes /\ bytes[x] = <<id, 0>>
               /\ o.text # NoText /\ Plain(o.text) =>
                      /\ \A x \in Span(o.pos, HeaderSize) : bytes[x] = <<id, 0>>
                      /\ \A k \in 1..Len(o.text), x \in {0, 1} :
                             bytes[o.pos + HeaderSize + 2 * (k - 1) + x] = <<id, k>>
    <3>1. Held(bytes, id, o)
      BY <2>2 DEF WriterInv
    <3> QED BY <3>1 DEF Held, Unit, Region
  <2>3. ~wraps => spoilt = {}
    BY DEF WriterInv
  <2> QED BY <2>1, <2>2, <2>3 DEF LocationsHold
<1> QED BY <1>1, RegionsAreKept, PTL

-----------------------------------------------------------------------------
(* RangeMap and AddressMap: what they hold. *)

\* The ranges lie within the addresses and in order, and are the ones to keep.
MapInv ==
    /\ DOMAIN map \subseteq Addresses
    /\ \A k \in DOMAIN map : map[k].base \in Addresses /\ map[k].base <= k
    /\ \A j, k \in DOMAIN map : j < k => j < map[k].base
    /\ ranges = {At(k) : k \in DOMAIN map}

PointInv ==
    /\ DOMAIN points \subseteq Addresses
    /\ marks = {[address |-> a, entry |-> points[a]] : a \in DOMAIN points}

-----------------------------------------------------------------------------
(* Bounds *)

\* What Least chooses.
LEMMA LeastExists ==
    ASSUME NEW S, S \subseteq Nat, S # {}
    PROVE  Least(S) \in S /\ \A y \in S : Least(S) <= y
  <1>1. \E x \in S : \A y \in S : x <= y
    BY LeastNumber
  <1> QED
    BY <1>1, Zenon DEF Least

\* The least of the distances from the end is that of the greatest.
LEMMA GreatestExists ==
    ASSUME NEW S, S \subseteq Addresses, S # {}
    PROVE  Greatest(S) \in S /\ \A y \in S : Greatest(S) >= y
  <1> DEFINE T == {Modulus - x : x \in S}
  <1>1. T \subseteq Nat /\ T # {}
    <2>1. \A x \in S : Modulus - x \in Nat
      BY OrderedMapAssumption DEF Addresses
    <2>2. PICK x : x \in S
      OBVIOUS
    <2>3. Modulus - x \in T
      BY <2>2
    <2> QED
      BY <2>1, <2>3
  <1>2. PICK x \in S : Least(T) = Modulus - x
    BY <1>1, LeastExists
  <1>3. \A y \in S : x >= y
    BY <1>1, <1>2, LeastExists, OrderedMapAssumption DEF Addresses
  <1> QED
    BY <1>3 DEF Greatest

\* lower_bound is the first key that is not below the address.
LEMMA LowerBoundBounds ==
    ASSUME NEW m, DOMAIN m \subseteq Addresses, NEW a \in Addresses
    PROVE  /\ LowerBound(m, a) \in DOMAIN m \cup {End}
           /\ LowerBound(m, a) >= a
           /\ \A k \in DOMAIN m : k >= a => LowerBound(m, a) <= k
  <1> DEFINE S == {k \in DOMAIN m : k >= a} \cup {End}
  <1>1. S \subseteq Nat /\ S # {}
    BY OrderedMapAssumption DEF Addresses, End
  <1>2. Least(S) \in S /\ \A y \in S : Least(S) <= y
    BY <1>1, LeastExists
  <1>3. End >= a
    BY OrderedMapAssumption DEF Addresses, End
  <1> QED
    BY <1>2, <1>3 DEF LowerBound

\* upper_bound is the first key above the address.
LEMMA UpperBoundBounds ==
    ASSUME NEW m, DOMAIN m \subseteq Addresses, NEW a \in Addresses
    PROVE  \A k \in DOMAIN m : k < UpperBound(m, a) <=> k <= a
  <1> DEFINE S == {k \in DOMAIN m : k > a} \cup {End}
  <1>1. S \subseteq Nat /\ S # {}
    BY OrderedMapAssumption DEF Addresses, End
  <1>2. Least(S) \in S /\ \A y \in S : Least(S) <= y
    BY <1>1, LeastExists
  <1>3. End > a
    BY OrderedMapAssumption DEF Addresses, End
  <1>4. \A k \in DOMAIN m : k < Least(S) <=> k <= a
    BY <1>1, <1>2, <1>3 DEF Addresses
  <1> QED
    BY <1>4 DEF UpperBound

\* The highest address wraps exactly if the range does not fit.
LEMMA HighWraps ==
    ASSUME NEW base \in Addresses, NEW span \in Addresses, span > 0
    PROVE  /\ base + span <= Modulus => High(base, span) = base + span - 1
           /\ base + span > Modulus => High(base, span) < base
           /\ High(base, span) \in Addresses
  <1> DEFINE s == base + span - 1
  <1>1. s \in Nat /\ s < 2 * Modulus - 1 /\ Modulus \in Nat \ {0}
    BY OrderedMapAssumption DEF Addresses
  <1>2. CASE s < Modulus
    BY <1>1, <1>2 DEF High, Addresses
  <1>3. CASE s >= Modulus
    <2>1. s % Modulus = s - Modulus
      BY <1>1, <1>3
    <2> QED
      BY <1>1, <1>3, <2>1 DEF High, Addresses
  <1> QED
    BY <1>1, <1>2, <1>3

-----------------------------------------------------------------------------
(* The stores *)

\* Intervals are apart if one ends before the other begins.
LEMMA DisjointIntervals ==
    ASSUME NEW i \in Nat, NEW j \in Nat, NEW k \in Nat, NEW l \in Nat, i <= j, k <= l
    PROVE  (i..j) \cap (k..l) = {} <=> j < k \/ l < i
  <1>1. ASSUME ~(j < k \/ l < i) PROVE (i..j) \cap (k..l) # {}
    <2>1. CASE i <= k
      <3>1. k \in (i..j) \cap (k..l)
        BY <1>1, <2>1
      <3> QED
        BY <3>1
    <2>2. CASE k <= i
      <3>1. i \in (i..j) \cap (k..l)
        BY <1>1, <2>2
      <3> QED
        BY <3>1
    <2> QED
      BY <2>1, <2>2
  <1> QED
    BY <1>1

\* A key and the base stored with it are the ends of a range.
LEMMA ExtentOfAt ==
    ASSUME NEW k \in Nat, map[k].base \in Nat
    PROVE  Extent(At(k)) = map[k].base..k
  <1>1. At(k).base + At(k).size - 1 = k /\ At(k).base = map[k].base
    BY DEF At
  <1> QED
    BY <1>1 DEF Extent

\* A store is refused exactly if the range is not one to keep.
LEMMA RefusesWhatItShould ==
    ASSUME MapInv, NEW base \in Addresses, NEW span \in Addresses, NEW value
    PROVE  Refuses(base, span) <=>
               ~Keeps([base |-> base, size |-> span, entry |-> value])
  <1> DEFINE r == [base |-> base, size |-> span, entry |-> value]
             high == High(base, span)
             above == LowerBound(map, high)
             below == LowerBound(map, base)
             Overlaps == \E k \in DOMAIN map : map[k].base <= high /\ k >= base
  <1>1. CASE span = 0 \/ base + span > Modulus
    <2>1. ~Keeps(r)
      BY <1>1, OrderedMapAssumption DEF Keeps, Addresses
    <2>2. span <= 0 \/ high < base
      BY <1>1, HighWraps, OrderedMapAssumption DEF Addresses
    <2> QED
      BY <2>1, <2>2 DEF Refuses
  <1>2. CASE span > 0 /\ base + span <= Modulus
    <2>1. high = base + span - 1 /\ high \in Addresses /\ base <= high
      BY <1>2, HighWraps, OrderedMapAssumption DEF Addresses
    <2>2. /\ below \in DOMAIN map \cup {End} /\ below >= base
          /\ \A k \in DOMAIN map : k >= base => below <= k
      BY LowerBoundBounds DEF MapInv
    <2>3. /\ above \in DOMAIN map \cup {End} /\ above >= high
          /\ \A k \in DOMAIN map : k >= high => above <= k
      BY <2>1, LowerBoundBounds DEF MapInv
    <2>4. Refuses(base, span) <=> below # above \/ (above # End /\ map[above].base <= high)
      <3> HIDE DEF above, below
      <3>1. Refuses(base, span) <=> \/ span <= 0 \/ high < base
                                    \/ below # above
                                    \/ above # End /\ map[above].base <= high
        BY DEF Refuses, above, below
      <3>2. ~(span <= 0) /\ ~(high < base)
        <4>1. span \in Int /\ base \in Int /\ high \in Int
          BY <2>1, OrderedMapAssumption DEF Addresses
        <4> QED
          BY <1>2, <2>1, <4>1
      <3> QED
        BY <3>1, <3>2
    <2>5. Refuses(base, span) <=> Overlaps
      <3> HIDE DEF above, below, high
      <3> USE OrderedMapAssumption DEF Addresses, End, MapInv
      <3>1. ASSUME below # above PROVE Overlaps
        <4>0. DOMAIN map \subseteq Int /\ Modulus \in Int /\ base \in Int /\ high \in Int
          BY <2>1
        <4>1. below < above
          <5>1. below \in Int /\ above \in Int /\ above >= base
            BY <2>1, <2>2, <2>3, <4>0
          <5>2. above \in DOMAIN map => below <= above
            BY <2>2, <5>1
          <5>3. above \notin DOMAIN map => below <= above
            BY <2>2, <2>3, <5>1
          <5> QED
            BY <3>1, <5>1, <5>2, <5>3
        <4>2. below \in DOMAIN map /\ below < high
          BY <2>1, <2>2, <2>3, <4>1
        <4> QED
          BY <2>1, <2>2, <4>2
      <3>2. ASSUME above # End, map[above].base <= high PROVE Overlaps
        BY <2>1, <2>3, <3>2
      <3>3. ASSUME below = above, above = End \/ map[above].base > high, Overlaps
            PROVE  FALSE
        <4>1. PICK k \in DOMAIN map : map[k].base <= high /\ k >= base
          BY <3>3
        <4>2. above <= k /\ above \in DOMAIN map
          BY <2>2, <2>3, <3>3, <4>1
        <4>3. map[above].base > high
          BY <3>3, <4>2
        <4>4. above # k
          BY <2>1, <4>1, <4>3
        <4>5. above < map[k].base
          BY <4>1, <4>2, <4>4
        <4> QED
          BY <2>1, <2>3, <4>1, <4>2, <4>5
      <3>4. above \in DOMAIN map => map[above].base \in Nat /\ high \in Nat
        BY <2>1
      <3> QED
        BY <2>3, <2>4, <3>1, <3>2, <3>3, <3>4
    <2>6. Keeps(r) <=> ~Overlaps
      <3>1. Keeps(r) <=> \A k \in DOMAIN map : Extent(At(k)) \cap Extent(r) = {}
        BY <1>2 DEF Keeps, MapInv
      <3>2. ASSUME NEW k \in DOMAIN map
            PROVE  Extent(At(k)) \cap Extent(r) = {} <=> ~(map[k].base <= high /\ k >= base)
        <4>1. Extent(r) = base..high
          BY <2>1 DEF Extent
        <4>3. map[k].base \in Nat /\ k \in Nat /\ map[k].base <= k
          BY OrderedMapAssumption DEF MapInv, Addresses
        <4>2. Extent(At(k)) = map[k].base..k
          BY <4>3, ExtentOfAt
        <4>4. base \in Nat /\ high \in Nat /\ base <= high
          BY <2>1, OrderedMapAssumption DEF Addresses
        <4>5. (map[k].base..k) \cap (base..high) = {} <=> k < base \/ high < map[k].base
          BY <4>3, <4>4, DisjointIntervals
        <4>6. k < base \/ high < map[k].base <=> ~(map[k].base <= high /\ k >= base)
          BY <4>3, <4>4
        <4> QED
          BY <4>1, <4>2, <4>5, <4>6
      <3> QED
        BY <3>1, <3>2
    <2> QED
      BY <2>5, <2>6
  <1> QED
    BY <1>1, <1>2, OrderedMapAssumption DEF Addresses

\* At first the maps are empty.
LEMMA MapsBegin == MapInit => MapInv /\ PointInv
  BY DEF MapInit, MapInv, PointInv

\* A range that is kept comes into the map under its highest address.
LEMMA RangeIsStored ==
    ASSUME MapInv, NEW base \in Addresses, NEW span \in Addresses, NEW value,
           StoreRange(base, span, value),
           ranges' = IF Keeps([base |-> base, size |-> span, entry |-> value])
                     THEN ranges \cup {[base |-> base, size |-> span, entry |-> value]}
                     ELSE ranges
    PROVE  MapInv'
  <1> DEFINE r == [base |-> base, size |-> span, entry |-> value]
             high == High(base, span)
             range == [base |-> base, entry |-> value]
  <1> USE OrderedMapAssumption DEF Addresses
  <1>1. CASE Refuses(base, span)
    <2>1. map' = map /\ ranges' = ranges
      BY <1>1, RefusesWhatItShould DEF StoreRange
    <2> QED
      BY <2>1 DEF MapInv, At
  <1>2. CASE ~Refuses(base, span)
    <2>1. Keeps(r) /\ ranges' = ranges \cup {r} /\ map' = Insert(map, high, range)
      BY <1>2, RefusesWhatItShould DEF StoreRange
    <2>2. span > 0 /\ high = base + span - 1 /\ high \in Addresses /\ base <= high
      BY <2>1, HighWraps DEF Keeps
    <2>3. ASSUME NEW k \in DOMAIN map PROVE k < base \/ map[k].base > high
      <3>1. At(k) \in ranges
        BY DEF MapInv
      <3>2. Extent(At(k)) \cap Extent(r) = {}
        BY <2>1, <3>1 DEF Keeps
      <3>3. map[k].base \in Nat /\ k \in Nat /\ map[k].base <= k
        BY DEF MapInv
      <3>4. Extent(At(k)) = map[k].base..k /\ Extent(r) = base..high
        BY <2>2, <3>3, ExtentOfAt DEF Extent
      <3>5. (map[k].base..k) \cap (base..high) = {}
        BY <3>2, <3>4
      <3>6. base \in Nat /\ high \in Nat /\ base <= high
        BY <2>2
      <3> HIDE DEF high
      <3> QED
        BY <3>3, <3>5, <3>6, DisjointIntervals
    <2>4. high \notin DOMAIN map
      BY <2>2, <2>3 DEF MapInv
    <2>5. /\ DOMAIN map' = DOMAIN map \cup {high} /\ map'[high] = range
          /\ \A k \in DOMAIN map : map'[k] = map[k]
      BY <2>1, <2>4 DEF Insert
    <2>6. DOMAIN map' \subseteq Addresses
      BY <2>2, <2>5 DEF MapInv
    <2>7. \A k \in DOMAIN map' : map'[k].base \in Addresses /\ map'[k].base <= k
      BY <2>2, <2>5 DEF MapInv
    <2>8. ASSUME NEW j \in DOMAIN map', NEW k \in DOMAIN map', j < k
          PROVE  j < map'[k].base
      <3>1. CASE j \in DOMAIN map /\ k \in DOMAIN map
        BY <2>5, <2>8, <3>1 DEF MapInv
      <3>2. CASE j = high /\ k \in DOMAIN map
        <4>1. k >= base
          BY <2>2, <2>8, <3>2 DEF MapInv
        <4> QED
          BY <2>2, <2>3, <2>5, <3>2, <4>1 DEF MapInv
      <3>3. CASE j \in DOMAIN map /\ k = high
        <4>1. map[j].base <= j /\ map[j].base \in Nat /\ j \in Nat
          BY <3>3 DEF MapInv
        <4> QED
          BY <2>2, <2>3, <2>5, <2>8, <3>3, <4>1
      <3> QED
        BY <2>2, <2>5, <2>8, <3>1, <3>2, <3>3
    <2>9. ranges' = {At(k)' : k \in DOMAIN map'}
      <3>1. \A k \in DOMAIN map : At(k)' = At(k)
        BY <2>5 DEF At
      <3>2. At(high)' = r
        <4>1. high - base + 1 = span
          BY <2>2
        <4> QED
          BY <2>5, <4>1 DEF At
      <3> QED
        BY <2>1, <2>5, <3>1, <3>2 DEF MapInv
    <2> QED
      BY <2>6, <2>7, <2>8, <2>9 DEF MapInv
  <1> QED
    BY <1>1, <1>2

\* AddressMap stores an address unless it is there already.
LEMMA MarkIsStored ==
    ASSUME PointInv, NEW a \in Addresses, NEW value, Store(a, value),
           marks' = IF \E m \in marks : m.address = a THEN marks
                    ELSE marks \cup {[address |-> a, entry |-> value]}
    PROVE  PointInv'
  <1>1. (\E m \in marks : m.address = a) <=> a \in DOMAIN points
    <2>1. a \in DOMAIN points => [address |-> a, entry |-> points[a]] \in marks
      BY DEF PointInv
    <2>2. \A m \in marks : m.address \in DOMAIN points
      BY DEF PointInv
    <2> QED
      BY <2>1, <2>2
  <1>2. /\ DOMAIN points' = DOMAIN points \cup {a}
        /\ \A x \in DOMAIN points : points'[x] = points[x]
        /\ a \notin DOMAIN points => points'[a] = value
    BY DEF Store, Insert
  <1>3. CASE a \in DOMAIN points
    <2>1. DOMAIN points' = DOMAIN points /\ marks' = marks
      BY <1>1, <1>2, <1>3
    <2> QED
      BY <1>2, <2>1 DEF PointInv
  <1>4. CASE a \notin DOMAIN points
    <2>1. marks' = marks \cup {[address |-> a, entry |-> points'[a]]}
      BY <1>1, <1>2, <1>4
    <2>2. marks' = {[address |-> x, entry |-> points'[x]] : x \in DOMAIN points'}
      BY <1>2, <2>1 DEF PointInv
    <2> QED
      BY <1>2, <2>2 DEF PointInv
  <1> QED
    BY <1>3, <1>4

\* What is in the maps is what should be.
THEOREM MapsHoldTheirRanges == MapSpec => [](MapInv /\ PointInv)
  <1>1. ASSUME MapInv, PointInv, [MapNext]_mapVars PROVE MapInv' /\ PointInv'
    <2>1. CASE UNCHANGED mapVars
      BY <1>1, <2>1 DEF mapVars, MapInv, PointInv, At
    <2>2. ASSUME NEW base \in Addresses, NEW span \in Addresses, NEW value \in Entries,
                 StoreRange(base, span, value),
                 ranges' = IF Keeps([base |-> base, size |-> span, entry |-> value])
                           THEN ranges \cup {[base |-> base, size |-> span, entry |-> value]}
                           ELSE ranges,
                 UNCHANGED marks
          PROVE  MapInv' /\ PointInv'
      <3>1. MapInv'
        BY <1>1, <2>2, RangeIsStored
      <3>2. PointInv'
        BY <1>1, <2>2 DEF StoreRange, PointInv
      <3> QED
        BY <3>1, <3>2
    <2>3. ASSUME NEW a \in Addresses, NEW value \in Entries, Store(a, value),
                 marks' = IF \E m \in marks : m.address = a THEN marks
                          ELSE marks \cup {[address |-> a, entry |-> value]},
                 UNCHANGED ranges
          PROVE  MapInv' /\ PointInv'
      <3>1. PointInv'
        BY <1>1, <2>3, MarkIsStored
      <3>2. MapInv'
        BY <1>1, <2>3 DEF Store, MapInv, At
      <3> QED
        BY <3>1, <3>2
    <2>4. CASE Clear /\ ranges' = {} /\ marks' = {}
      BY <2>4 DEF Clear, MapInv, PointInv
    <2> QED
      BY <1>1, <2>1, <2>2, <2>3, <2>4 DEF MapNext
  <1> QED
    BY MapsBegin, <1>1, PTL DEF MapSpec

-----------------------------------------------------------------------------
(* The lookups *)

\* The range an address is in is the one the least key not below it names.
LEMMA RetrieveRangeAnswers ==
    ASSUME MapInv, NEW a \in Addresses
    PROVE  LET in == {r \in ranges : a \in Extent(r)} IN
           /\ in = {} => RetrieveRange(a) = NotFound
           /\ in # {} => RetrieveRange(a) \in in /\ RetrieveRange(a) # NotFound
  <1> DEFINE key == LowerBound(map, a)
             in == {r \in ranges : a \in Extent(r)}
  <1> USE OrderedMapAssumption DEF Addresses
  <1>1. /\ key \in DOMAIN map \cup {End} /\ key >= a
        /\ \A k \in DOMAIN map : k >= a => key <= k
    BY LowerBoundBounds DEF MapInv
  <1>2. \A k \in DOMAIN map : k \in Nat /\ map[k].base \in Nat /\ map[k].base <= k
    BY DEF MapInv
  <1>3. \A k \in DOMAIN map : a \in Extent(At(k)) <=> map[k].base <= a /\ a <= k
    BY <1>2, ExtentOfAt
  <1>4. ASSUME NEW k \in DOMAIN map, a \in Extent(At(k))
        PROVE  key = k
    <2> HIDE DEF key
    <2>1. key <= k /\ key \in DOMAIN map
      BY <1>1, <1>2, <1>3, <1>4 DEF End, MapInv
    <2>2. key < k => key < map[k].base
      BY <2>1 DEF MapInv
    <2> QED
      BY <1>1, <1>2, <1>3, <1>4, <2>1, <2>2
  <1>5. CASE key = End \/ a < map[key].base
    <2>1. RetrieveRange(a) = NotFound
      BY <1>5 DEF RetrieveRange
    <2>2. \A k \in DOMAIN map : a \notin Extent(At(k))
      <3> HIDE DEF key
      <3> SUFFICES ASSUME NEW k \in DOMAIN map, a \in Extent(At(k)) PROVE FALSE
        OBVIOUS
      <3>1. key = k /\ k \in Nat /\ map[k].base \in Nat /\ map[k].base <= a
        BY <1>2, <1>3, <1>4
      <3> QED
        BY <1>5, <3>1 DEF End, MapInv
    <2>3. in = {}
      BY <2>2 DEF MapInv
    <2> QED
      BY <2>1, <2>3
  <1>6. CASE ~(key = End \/ a < map[key].base)
    <2>1. RetrieveRange(a) = At(key)
      BY <1>6 DEF RetrieveRange
    <2>2. key \in DOMAIN map /\ map[key].base <= a
      <3> HIDE DEF key
      <3> QED
        BY <1>1, <1>2, <1>6
    <2>3. At(key) \in in
      <3> HIDE DEF key
      <3>1. key \in Nat
        BY <1>2, <2>2
      <3> QED
        BY <1>1, <1>3, <2>2, <3>1 DEF MapInv
    <2>4. At(key) # NotFound
      BY DEF At, NotFound
    <2> QED
      BY <2>1, <2>3, <2>4
  <1> QED
    BY <1>5, <1>6

\* The nearest range below is the one under the greatest key not above.
LEMMA RangesAreRight ==
    ASSUME MapInv, NEW a \in Addresses
    PROVE  RangesAnswer(a)
  <1> DEFINE in == {r \in ranges : a \in Extent(r)}
             before == {k \in DOMAIN map : k < UpperBound(map, a)}
             great == Greatest(before)
  <1> USE OrderedMapAssumption DEF Addresses
  <1>1. /\ in = {} => RetrieveRange(a) = NotFound
        /\ in # {} => RetrieveRange(a) \in in /\ RetrieveRange(a) # NotFound
    BY RetrieveRangeAnswers
  <1>2. before = {k \in DOMAIN map : k <= a}
    BY UpperBoundBounds DEF MapInv
  <1>3. \A k \in DOMAIN map : k \in Nat /\ map[k].base \in Nat /\ map[k].base <= k
    BY DEF MapInv
  <1>4. ASSUME NEW k \in DOMAIN map
        PROVE  /\ At(k) \in ranges /\ At(k).base = map[k].base
               /\ At(k).base + At(k).size = k + 1
    BY <1>3 DEF MapInv, At
  <1>5. ASSUME in = {} PROVE
            RetrieveNearestRange(a) \in IF Nearest(a) # {} THEN Nearest(a) ELSE {NotFound}
    <2>1. RetrieveNearestRange(a) = IF before = {} THEN NotFound ELSE At(great)
      BY <1>1, <1>5 DEF RetrieveNearestRange
    <2>2. CASE before = {}
      <3>1. \A r \in ranges : ~(r.base + r.size <= a)
        <4>1. \A k \in DOMAIN map : ~(At(k).base + At(k).size <= a)
          BY <1>2, <1>3, <1>4, <2>2
        <4> QED
          BY <4>1 DEF MapInv
      <3> QED
        BY <2>1, <2>2, <3>1 DEF Nearest
    <2>3. CASE before # {}
      <3>1. great \in before /\ \A k \in before : great >= k
        BY <2>3, GreatestExists DEF MapInv
      <3> HIDE DEF great, before
      <3>2. great \in DOMAIN map /\ great <= a
        BY <1>2, <3>1
      <3>3. great # a
        <4> SUFFICES ASSUME great = a PROVE FALSE
          OBVIOUS
        <4>1. Extent(At(great)) = map[great].base..great
          BY <1>3, <3>2, ExtentOfAt
        <4>2. a \in Extent(At(great))
          BY <1>3, <3>2, <4>1
        <4> QED
          BY <1>4, <1>5, <3>2, <4>2
      <3>4. At(great) \in ranges /\ At(great).base + At(great).size <= a
        BY <1>3, <1>4, <3>2, <3>3
      <3>5. ASSUME NEW k \in DOMAIN map, At(k).base + At(k).size <= a
            PROVE  At(k).base <= At(great).base
        <4>1. k \in before /\ k <= great
          BY <1>2, <1>3, <1>4, <3>1, <3>5
        <4>2. k < great => k < map[great].base
          BY <3>2 DEF MapInv
        <4> QED
          BY <1>3, <1>4, <3>2, <4>1, <4>2
      <3>6. \A q \in ranges : q.base + q.size <= a => q.base <= At(great).base
        BY <3>5 DEF MapInv
      <3>7. At(great) \in Nearest(a)
        BY <3>4, <3>6 DEF Nearest
      <3> QED
        BY <2>1, <2>3, <3>7
    <2> QED
      BY <2>2, <2>3
  <1>6. ASSUME in # {} PROVE RetrieveNearestRange(a) \in in
    BY <1>1, <1>6 DEF RetrieveNearestRange
  <1> QED
    BY <1>1, <1>5, <1>6 DEF RangesAnswer

\* So is the address at or below.
LEMMA MarksAreRight ==
    ASSUME PointInv, NEW a \in Addresses
    PROVE  MarksAnswer(a)
  <1> DEFINE before == {k \in DOMAIN points : k < UpperBound(points, a)}
             below == {m \in marks : m.address <= a}
             Mark(k) == [address |-> k, entry |-> points[k]]
  <1> USE OrderedMapAssumption DEF Addresses
  <1>1. before = {k \in DOMAIN points : k <= a}
    BY UpperBoundBounds DEF PointInv
  <1>2. below = {Mark(k) : k \in before}
    BY <1>1 DEF PointInv
  <1>3. CASE before = {}
    BY <1>2, <1>3 DEF MarksAnswer, Retrieve
  <1>4. CASE before # {}
    <2> DEFINE great == Greatest(before)
    <2>1. great \in before /\ \A k \in before : great >= k
      BY <1>4, GreatestExists DEF PointInv
    <2>2. Retrieve(a) = Mark(great)
      BY <1>4 DEF Retrieve
    <2> HIDE DEF great, before
    <2>3. Mark(great) \in below /\ \A n \in below : n.address <= Mark(great).address
      BY <1>2, <2>1
    <2> QED
      BY <2>2, <2>3 DEF MarksAnswer
  <1> QED
    BY <1>3, <1>4

\* How many elements of a finite set of numbers are below one of them: this counts them
\* off, in order and without a gap.
LEMMA RanksAreIndices ==
    ASSUME NEW S, S \subseteq Nat, IsFiniteSet(S)
    PROVE  LET Rank(k) == Cardinality({j \in S : j < k}) IN
           /\ Cardinality(S) \in Nat
           /\ \A k \in S : Rank(k) \in 0 .. Cardinality(S) - 1
           /\ \A j, k \in S : j < k => Rank(j) < Rank(k)
           /\ \A i \in 0 .. Cardinality(S) - 1 : \E k \in S : Rank(k) = i
  <1> DEFINE Below(k) == {j \in S : j < k}
             Rank(k) == Cardinality(Below(k))
             n == Cardinality(S)
  <1>1. n \in Nat
    BY FS_CardinalityType
  <1>2. \A k \in S : IsFiniteSet(Below(k)) /\ Rank(k) \in Nat
    <2> SUFFICES ASSUME NEW k \in S PROVE IsFiniteSet(Below(k)) /\ Rank(k) \in Nat
      OBVIOUS
    <2>1. IsFiniteSet(Below(k))
      BY FS_Subset
    <2> QED
      BY <2>1, FS_CardinalityType
  <1>3. ASSUME NEW k \in S PROVE Rank(k) < n
    <2>1. /\ IsFiniteSet(Below(k) \cup {k})
          /\ Cardinality(Below(k) \cup {k}) = Rank(k) + 1
      <3>1. k \notin Below(k)
        OBVIOUS
      <3> HIDE DEF Below
      <3> QED
        BY <1>2, <3>1, FS_AddElement
    <2>2. Cardinality(Below(k) \cup {k}) <= n
      BY FS_Subset
    <2>3. Rank(k) \in Nat
      BY <1>2
    <2> HIDE DEF Rank, n, Below
    <2> QED
      BY <1>1, <2>1, <2>2, <2>3
  <1>4. ASSUME NEW j \in S, NEW k \in S, j < k PROVE Rank(j) < Rank(k)
    <2>1. Cardinality(Below(j) \cup {j}) = Rank(j) + 1
      <3>1. j \notin Below(j)
        OBVIOUS
      <3> HIDE DEF Below
      <3> QED
        BY <1>2, <3>1, FS_AddElement
    <2>2. Below(j) \cup {j} \subseteq Below(k)
      <3>1. \A x \in S : x < j => x < k
        BY <1>4
      <3> QED
        BY <1>4, <3>1
    <2>3. Cardinality(Below(j) \cup {j}) <= Rank(k)
      <3> HIDE DEF Below
      <3> QED
        BY <1>2, <2>2, FS_Subset
    <2>4. Rank(j) \in Nat /\ Rank(k) \in Nat
      BY <1>2
    <2> HIDE DEF Rank, Below
    <2> QED
      BY <2>1, <2>3, <2>4
  <1>5. ASSUME NEW i \in 0 .. n - 1 PROVE \E k \in S : Rank(k) = i
    <2> DEFINE f == [k \in S |-> Rank(k)]
               T == 0 .. n - 1
    <2>0. /\ \A k \in S : Rank(k) \in Nat /\ Rank(k) < n
          /\ \A j, k \in S : j < k => Rank(j) < Rank(k)
      BY <1>2, <1>3, <1>4
    <2> HIDE DEF Rank, n
    <2>1. f \in [S -> T]
      BY <1>1, <2>0
    <2>2. \A j, k \in S : f[j] = f[k] => j = k
      <3>1. SUFFICES ASSUME NEW j \in S, NEW k \in S, Rank(j) = Rank(k) PROVE j = k
        OBVIOUS
      <3>2. ~(j < k) /\ ~(k < j)
        BY <2>0, <3>1
      <3>3. j \in Nat /\ k \in Nat
        OBVIOUS
      <3> QED
        BY <3>2, <3>3
    <2>3. f \in Injection(S, T)
      BY <2>1, <2>2 DEF Injection, IsInjective
    <2>4. IsFiniteSet(T) /\ Cardinality(T) = n
      BY <1>1, FS_Interval
    <2>5. n = Cardinality(S)
      BY DEF n
    <2>6. f \in Surjection(S, T)
      <3> HIDE DEF f, T
      <3> QED
        BY <2>3, <2>4, <2>5, FS_Injection
    <2> QED
      BY <2>6 DEF Surjection
  <1> QED
    BY <1>1, <1>2, <1>3, <1>4, <1>5

\* The ranges by index are all the ranges, from the lowest address up.
LEMMA IndicesAreRight == ASSUME MapInv PROVE IndexAgrees
  <1> DEFINE D == DOMAIN map
             Rank(k) == Cardinality({j \in D : j < k})
             n == Cardinality(D)
             indices == 0 .. n - 1
             Key(i) == CHOOSE k \in D : Rank(k) = i
  <1>1. /\ D \subseteq Nat /\ IsFiniteSet(D)
        /\ \A k \in D : map[k].base \in Nat /\ map[k].base <= k
    <2>1. IsFiniteSet(Addresses) /\ Addresses \subseteq Nat
      BY FS_Interval, OrderedMapAssumption DEF Addresses, OrderedMapAssumption
    <2> QED
      BY <2>1, FS_Subset DEF MapInv
  <1>2. /\ n \in Nat /\ \A k \in D : Rank(k) \in indices
        /\ \A j, k \in D : j < k => Rank(j) < Rank(k)
        /\ \A i \in indices : \E k \in D : Rank(k) = i
    <2> HIDE DEF D
    <2> QED
      BY <1>1, RanksAreIndices
  <1>3. \A i \in indices : RetrieveRangeAtIndex(i) = At(Key(i))
    BY <1>2 DEF RetrieveRangeAtIndex
  <1>4. ranges = {At(k) : k \in D}
    BY DEF MapInv
  <1>5. IndexAgrees <=>
          /\ {RetrieveRangeAtIndex(i) : i \in indices} = ranges
          /\ \A i, j \in indices :
                i < j => RetrieveRangeAtIndex(i).base < RetrieveRangeAtIndex(j).base
    BY DEF IndexAgrees
  <1>6. \A k \in D : At(k).base = map[k].base
    BY DEF At
  <1>7. \A j, k \in D : j < k => map[j].base < map[k].base
    BY <1>1 DEF MapInv
  <1> HIDE DEF D, Rank, n
  <1>8. \A i \in indices : Key(i) \in D /\ Rank(Key(i)) = i
    BY <1>2
  <1>9. \A j, k \in D : Rank(j) = Rank(k) => j = k
    BY <1>1, <1>2
  <1>10. \A k \in D : Key(Rank(k)) = k
    BY <1>2, <1>8, <1>9
  <1>11. {RetrieveRangeAtIndex(i) : i \in indices} = {At(k) : k \in D}
    BY <1>2, <1>3, <1>8, <1>10
  <1>12. ASSUME NEW i \in indices, NEW j \in indices, i < j
         PROVE  RetrieveRangeAtIndex(i).base < RetrieveRangeAtIndex(j).base
    <2>1. Key(i) < Key(j)
      <3> HIDE DEF Key
      <3>1. /\ Key(i) \in D /\ Rank(Key(i)) = i
            /\ Key(j) \in D /\ Rank(Key(j)) = j
        BY <1>8
      <3>2. Key(i) \in Nat /\ Key(j) \in Nat
        BY <1>1, <3>1
      <3>3. i \in Int /\ j \in Int
        OBVIOUS
      <3>4. ~(Key(j) < Key(i)) /\ Key(i) # Key(j)
        BY <1>2, <1>12, <3>1, <3>3
      <3> QED
        BY <3>2, <3>4
    <2> QED
      BY <1>3, <1>6, <1>7, <1>8, <2>1
  <1> QED
    BY <1>4, <1>5, <1>11, <1>12

\* Whatever was stored, accepted or refused, every lookup of a RangeMap or an AddressMap,
\* by address or by index, answers as the set of the ranges or addresses that should have
\* been kept would.
THEOREM LookupsAreRight == MapSpec => []LookupsAgree
  <1>1. MapInv /\ PointInv => LookupsAgree
    BY RangesAreRight, MarksAreRight, IndicesAreRight DEF LookupsAgree, AddressesAgree
  <1> QED
    BY <1>1, MapsHoldTheirRanges, PTL

-----------------------------------------------------------------------------
(* DwarfCFI: the records and the rules. *)

\* The records of an entry without a place: for a column its last change.
Has(deltas, c) == {b \in DOMAIN deltas : c \in DOMAIN deltas[b]}
View(first, deltas) ==
    [c \in DOMAIN first \cup UNION {DOMAIN deltas[b] : b \in DOMAIN deltas} |->
        IF Has(deltas, c) = {} THEN first[c] ELSE deltas[Latest(Has(deltas, c))][c]]

Reported(r) == {c \in DOMAIN r : Translatable(r[c])}

\* What is found of a column that has no rule: that it is unchanged, or, of the return
\* address, what every entry begins with.
Unruled(c, x) ==
    \/ x = Translated(c, Same)
    \/ c = ReturnAddress /\ x = <<"value", ReturnAddress>>

\* The changes of the current entry lie above its base and not above the address, and
\* those of a column have a last one.
HaveLast(deltas) ==
    \A c : Has(deltas, c) # {} => \E m \in Has(deltas, c) : \A b \in Has(deltas, c) : b <= m
InRange ==
    at # "idle" => /\ entry.base \in Nat /\ address \in Nat /\ entry.base <= address
                   /\ \A b \in DOMAIN changes : b \in Nat /\ entry.base < b /\ b <= address
                   /\ HaveLast(changes)

-----------------------------------------------------------------------------
(* Overriding a function *)

\* Changes applied to rules.
LEMMA OverrideIs ==
    ASSUME NEW f, NEW g
    PROVE  /\ DOMAIN Override(f, g) = DOMAIN f \cup DOMAIN g
           /\ \A x \in DOMAIN g : Override(f, g)[x] = g[x]
           /\ \A x \in DOMAIN f \ DOMAIN g : Override(f, g)[x] = f[x]
BY DEF Override

\* A single change.
LEMMA OneIs ==
    ASSUME NEW c, NEW rule
    PROVE  DOMAIN One(c, rule) = {c} /\ One(c, rule)[c] = rule
BY DEF One

-----------------------------------------------------------------------------
(* What a reader of the records finds *)

\* At an address that no change is above, FindCFIFrameInfo finds the last change of each column.
LEMMA FoundIsView ==
    ASSUME NEW first, NEW deltas, NEW base \in Nat, NEW a \in Nat,
           \A b \in DOMAIN deltas : b \in Nat /\ base < b /\ b <= a
    PROVE  FindCFIFrameInfo(first, deltas, base, a) = View(first, deltas)
<1>1. {d \in DOMAIN deltas : d >= base /\ d <= a} = DOMAIN deltas
  OBVIOUS
<1>2. \A c : {b \in DOMAIN deltas : b >= base /\ b <= a /\ c \in DOMAIN deltas[b]} = Has(deltas, c)
  BY DEF Has
<1> QED BY <1>1, <1>2 DEF FindCFIFrameInfo, View

\* A number is the greatest of a set it is in when no other is above it.
LEMMA LatestIs ==
    ASSUME NEW S, NEW a \in Nat, a \in S, \A b \in S : b \in Nat /\ b <= a
    PROVE  Latest(S) = a
<1>1. \A x \in S : (\A y \in S : x >= y) <=> x = a
  OBVIOUS
<1>2. \E x \in S : \A y \in S : x >= y
  BY <1>1
<1>3. Latest(S) \in S /\ \A y \in S : Latest(S) >= y
  BY <1>2, Zenon DEF Latest
<1> QED BY <1>1, <1>3

\* What Record does to what a reader finds, at the base of an entry and above it.
LEMMA RecordIs ==
    ASSUME NEW reported, at # "idle", InRange, Record(reported)
    PROVE  /\ DOMAIN View(initial', changes')
                = DOMAIN View(initial, changes) \cup Reported(reported)
           /\ \A c \in Reported(reported) :
                View(initial', changes')[c] = Translated(c, reported[c])
           /\ \A c \in DOMAIN View(initial, changes) \ Reported(reported) :
                View(initial', changes')[c] = View(initial, changes)[c]
           /\ \A b \in DOMAIN changes' : b \in Nat /\ entry.base < b /\ b <= address
           /\ HaveLast(changes')
<1> DEFINE said == [c \in Reported(reported) |-> Translated(c, reported[c])]
           V == View(initial, changes)
           W == View(initial', changes')
<1>0. /\ entry.base \in Nat /\ address \in Nat /\ entry.base <= address
      /\ \A b \in DOMAIN changes : b \in Nat /\ entry.base < b /\ b <= address
      /\ HaveLast(changes)
  BY DEF InRange
<1>s. DOMAIN said = Reported(reported)
  OBVIOUS
<1>1. CASE address = entry.base
  <2>1. DOMAIN changes = {}
    <3>1. ASSUME NEW b \in DOMAIN changes PROVE FALSE
      <4>1. b \in Nat /\ entry.base < b /\ b <= entry.base
        BY <1>0, <1>1, <3>1
      <4> QED BY <1>0, <4>1
    <3> QED BY <3>1
  <2>2. initial' = Override(initial, said) /\ changes' = changes
    BY <1>1 DEF Record, Reported
  <2>3. \A c : Has(changes, c) = {}
    BY <2>1 DEF Has
  <2>4. UNION {DOMAIN changes[b] : b \in DOMAIN changes} = {}
    BY <2>1
  <2>5. V = [c \in DOMAIN initial |-> initial[c]]
    BY <2>3, <2>4 DEF View
  <2>6. W = [c \in DOMAIN initial' |-> initial'[c]]
    BY <2>2, <2>3, <2>4 DEF View
  <2>7. /\ DOMAIN initial' = DOMAIN initial \cup Reported(reported)
        /\ \A c \in Reported(reported) : initial'[c] = said[c]
        /\ \A c \in DOMAIN initial \ Reported(reported) : initial'[c] = initial[c]
    <3> HIDE DEF said
    <3> QED BY <2>2, <1>s DEF Override
  <2>8. \A b \in DOMAIN changes' : b \in Nat /\ entry.base < b /\ b <= address
    BY <2>1, <2>2
  <2>9. HaveLast(changes')
    BY <2>2, <2>3 DEF HaveLast
  <2>10. \A c \in DOMAIN initial : V[c] = initial[c]
    BY <2>5
  <2>11. \A c \in DOMAIN initial' : W[c] = initial'[c]
    BY <2>6
  <2>12. DOMAIN V = DOMAIN initial /\ DOMAIN W = DOMAIN initial'
    BY <2>5, <2>6
  <2>13. \A c \in Reported(reported) : said[c] = Translated(c, reported[c])
    OBVIOUS
  <2> HIDE DEF said
  <2> HIDE DEF V
  <2> HIDE DEF W
  <2>14. /\ DOMAIN W = DOMAIN V \cup Reported(reported)
         /\ \A c \in Reported(reported) : W[c] = Translated(c, reported[c])
         /\ \A c \in DOMAIN V \ Reported(reported) : W[c] = V[c]
    BY <2>7, <2>10, <2>11, <2>12, <2>13
  <2> QED BY <2>8, <2>9, <2>14 DEF V, W
<1>2. CASE address # entry.base /\ Reported(reported) = {}
  BY <1>0, <1>2 DEF Record, Reported
<1>3. CASE address # entry.base /\ Reported(reported) # {}
  <2> DEFINE now == IF address \in DOMAIN changes THEN Override(changes[address], said) ELSE said
  <2>1. initial' = initial /\ changes' = Override(changes, One(address, now))
    BY <1>3 DEF Record, Reported
  <2>2. /\ DOMAIN changes' = DOMAIN changes \cup {address} /\ changes'[address] = now
        /\ \A b \in DOMAIN changes \ {address} : changes'[b] = changes[b]
    <3> HIDE DEF now
    <3>1. DOMAIN One(address, now) = {address} /\ One(address, now)[address] = now
      BY OneIs
    <3> QED BY <2>1, <3>1, OverrideIs
  <2>3. /\ address \in DOMAIN changes => DOMAIN now = DOMAIN changes[address] \cup Reported(reported)
        /\ address \notin DOMAIN changes => DOMAIN now = Reported(reported)
        /\ \A c \in Reported(reported) : now[c] = said[c]
        /\ address \in DOMAIN changes =>
             \A c \in DOMAIN changes[address] \ Reported(reported) : now[c] = changes[address][c]
    <3> HIDE DEF said
    <3>1. CASE address \in DOMAIN changes
      BY <3>1, <1>s DEF Override
    <3>2. CASE address \notin DOMAIN changes
      BY <3>2, <1>s
    <3> QED BY <3>1, <3>2
  <2> HIDE DEF now
  <2>4. \A b \in DOMAIN changes' : b \in Nat /\ entry.base < b /\ b <= address
    BY <1>0, <1>3, <2>2
  <2>5. UNION {DOMAIN changes'[b] : b \in DOMAIN changes'}
          = (UNION {DOMAIN changes[b] : b \in DOMAIN changes}) \cup Reported(reported)
    <3>1. ASSUME NEW c
          PROVE (\E b \in DOMAIN changes' : c \in DOMAIN changes'[b])
                <=> ((\E b \in DOMAIN changes : c \in DOMAIN changes[b]) \/ c \in Reported(reported))
      <4>1. ASSUME NEW b \in DOMAIN changes', c \in DOMAIN changes'[b]
            PROVE (\E d \in DOMAIN changes : c \in DOMAIN changes[d]) \/ c \in Reported(reported)
        BY <4>1, <2>2, <2>3
      <4>2. ASSUME NEW b \in DOMAIN changes, c \in DOMAIN changes[b]
            PROVE \E d \in DOMAIN changes' : c \in DOMAIN changes'[d]
        <5>1. b \in DOMAIN changes' /\ c \in DOMAIN changes'[b]
          BY <4>2, <2>2, <2>3
        <5> QED BY <5>1
      <4>3. ASSUME c \in Reported(reported)
            PROVE \E d \in DOMAIN changes' : c \in DOMAIN changes'[d]
        <5>1. address \in DOMAIN changes' /\ c \in DOMAIN changes'[address]
          BY <4>3, <2>2, <2>3
        <5> QED BY <5>1
      <4> QED BY <4>1, <4>2, <4>3
    <3> QED BY <3>1
  <2>6. DOMAIN W = DOMAIN V \cup Reported(reported)
    BY <2>1, <2>5 DEF View
  <2>7. ASSUME NEW c \in Reported(reported)
        PROVE W[c] = Translated(c, reported[c])
    <3>1. address \in Has(changes', c)
      BY <2>2, <2>3 DEF Has
    <3>2. \A b \in Has(changes', c) : b \in Nat /\ b <= address
      BY <2>4 DEF Has
    <3>3. Latest(Has(changes', c)) = address
      BY <3>1, <3>2, <1>0, LatestIs
    <3>4. c \in DOMAIN W
      BY <2>6
    <3>5. W[c] = changes'[address][c]
      BY <3>1, <3>3, <3>4 DEF View
    <3> QED BY <3>5, <2>2, <2>3
  <2>8. ASSUME NEW c \in DOMAIN V \ Reported(reported)
        PROVE W[c] = V[c]
    <3>1. Has(changes', c) = Has(changes, c)
      <4>1. \A b \in DOMAIN changes \ {address} : b \in Has(changes', c) <=> b \in Has(changes, c)
        BY <2>2 DEF Has
      <4>2. address \in Has(changes', c) <=> address \in Has(changes, c)
        BY <2>2, <2>3 DEF Has
      <4> QED BY <4>1, <4>2, <2>2 DEF Has
    <3>2. c \in DOMAIN W
      BY <2>6
    <3>3. CASE Has(changes, c) = {}
      BY <3>1, <3>2, <3>3, <2>1 DEF View
    <3>4. CASE Has(changes, c) # {}
      <4> DEFINE g == Latest(Has(changes, c))
      <4>1. V[c] = changes[g][c] /\ W[c] = changes'[g][c]
        BY <3>1, <3>2, <3>4 DEF View
      <4>2. g \in Has(changes, c) => changes'[g][c] = changes[g][c]
        BY <2>2, <2>3 DEF Has
      <4>3. g \in Has(changes, c)
        <5>1. PICK m \in Has(changes, c) : \A b \in Has(changes, c) : b <= m
          BY <1>0, <3>4 DEF HaveLast
        <5>2. \A b \in Has(changes, c) : b \in Nat
          BY <1>0 DEF Has
        <5> QED BY <5>1, <5>2, LatestIs
      <4> QED BY <4>1, <4>2, <4>3
    <3> QED BY <3>3, <3>4
  <2>9. HaveLast(changes')
    <3> SUFFICES ASSUME NEW c, Has(changes', c) # {}
                 PROVE  \E m \in Has(changes', c) : \A b \in Has(changes', c) : b <= m
      BY DEF HaveLast
    <3>1. \A b \in Has(changes', c) : b \in Nat /\ b <= address
      BY <2>4 DEF Has
    <3>2. CASE address \in Has(changes', c)
      BY <3>1, <3>2
    <3>3. CASE address \notin Has(changes', c)
      <4>1. Has(changes', c) = Has(changes, c)
        BY <3>3, <2>2, <2>3 DEF Has
      <4> QED BY <4>1, <1>0 DEF HaveLast
    <3> QED BY <3>2, <3>3
  <2> QED BY <2>4, <2>6, <2>7, <2>8, <2>9
<1> QED BY <1>1, <1>2, <1>3

-----------------------------------------------------------------------------
(* Types *)

\* When a function is a set of rules.
LEMMA RuleMapIs ==
    ASSUME NEW f, f = [x \in DOMAIN f |-> f[x]], DOMAIN f \subseteq Columns,
           \A x \in DOMAIN f : f[x] \in Rules
    PROVE  f \in RuleMaps
<1>1. f \in [DOMAIN f -> Rules]
  OBVIOUS
<1> QED BY <1>1 DEF RuleMaps

\* What a set of rules is.
LEMMA RuleMapHas ==
    ASSUME NEW f \in RuleMaps
    PROVE  /\ f = [x \in DOMAIN f |-> f[x]] /\ DOMAIN f \subseteq Columns
           /\ \A x \in DOMAIN f : f[x] \in Rules
BY DEF RuleMaps

\* The empty set of rules is one.
LEMMA NothingIsRules == Nothing \in RuleMaps
<1>1. Nothing = [x \in DOMAIN Nothing |-> Nothing[x]] /\ DOMAIN Nothing = {}
  BY DEF Nothing
<1> QED BY <1>1, RuleMapIs

\* Setting a column's rule in a set of rules.
LEMMA SetRuleKeepsType ==
    ASSUME NEW f \in RuleMaps, NEW c \in Columns, NEW rule \in Rules
    PROVE  Override(f, One(c, rule)) \in RuleMaps
<1> DEFINE g == Override(f, One(c, rule))
<1>1. g = [x \in DOMAIN f \cup {c} |-> IF x = c THEN rule ELSE f[x]]
  BY DEF Override, One
<1>2. DOMAIN f \subseteq Columns /\ \A x \in DOMAIN f : f[x] \in Rules
  BY RuleMapHas
<1>3. /\ g = [x \in DOMAIN g |-> g[x]] /\ DOMAIN g \subseteq Columns
      /\ \A x \in DOMAIN g : g[x] \in Rules
  BY <1>1, <1>2
<1> HIDE DEF g
<1>4. g \in RuleMaps
  BY <1>3, RuleMapIs
<1> QED BY <1>4 DEF g

\* The operands of a sum, as the instructions that change one of the two keep the other.
LEMMA SumHas ==
    ASSUME NEW rule \in Rules, rule[1] = "sum"
    PROVE  rule[3] \in Offsets /\ rule[2] \in Columns
BY DEF Rules

\* A register and an offset make a rule.
LEMMA SumIsRule ==
    ASSUME NEW c \in Columns, NEW n \in Offsets
    PROVE  <<"sum", c, n>> \in Rules
BY DEF Rules

\* The translator's part of the type.
RecordsTyped ==
    /\ DOMAIN initial \subseteq Columns /\ DOMAIN changes \subseteq Nat
    /\ \A a \in DOMAIN changes : DOMAIN changes[a] \subseteq Columns

\* What is recorded at an address is expressions for columns.
LEMMA RecordKeepsType ==
    ASSUME NEW reported, DOMAIN reported \subseteq Columns, address \in Nat,
           RecordsTyped, Record(reported)
    PROVE  RecordsTyped'
<1> DEFINE said == [c \in Reported(reported) |-> Translated(c, reported[c])]
<1>1. DOMAIN said \subseteq Columns
  BY DEF Reported
<1>2. CASE address = entry.base
  <2>1. initial' = Override(initial, said) /\ changes' = changes
    BY <1>2 DEF Record, Reported
  <2> HIDE DEF said
  <2>2. DOMAIN initial' = DOMAIN initial \cup DOMAIN said
    BY <2>1 DEF Override
  <2> QED BY <1>1, <2>1, <2>2 DEF RecordsTyped
<1>3. CASE address # entry.base /\ Reported(reported) = {}
  BY <1>3 DEF Record, Reported, RecordsTyped
<1>4. CASE address # entry.base /\ Reported(reported) # {}
  <2> DEFINE now == IF address \in DOMAIN changes THEN Override(changes[address], said) ELSE said
  <2>1. initial' = initial /\ changes' = Override(changes, One(address, now))
    BY <1>4 DEF Record, Reported
  <2> HIDE DEF said
  <2>2. DOMAIN now \subseteq Columns
    BY <1>1 DEF Override, RecordsTyped
  <2> HIDE DEF now
  <2>3. /\ DOMAIN changes' = DOMAIN changes \cup {address} /\ changes'[address] = now
        /\ \A b \in DOMAIN changes \ {address} : changes'[b] = changes[b]
    BY <2>1 DEF Override, One
  <2> QED BY <2>1, <2>2, <2>3 DEF RecordsTyped
<1> QED BY <1>2, <1>3, <1>4

-----------------------------------------------------------------------------
(* The inductive invariant *)

\* ReportsKeepUp, of an entry without its place.
KeptUp ==
    LET found == View(initial, changes) IN
    /\ \A c \in DOMAIN rules : Translatable(rules[c]) =>
          c \in DOMAIN found /\ found[c] = Translated(c, rules[c])
    /\ \A c \in DOMAIN found \ DOMAIN rules :
          Unruled(c, found[c])

RuleInv == CFITypeOK /\ SavedAreSmaller /\ InRange /\ (at # "idle" => KeptUp)

\* At first there are no rules, and no entry.
LEMMA RulesBegin == CFIInit => RuleInv
<1> SUFFICES ASSUME CFIInit PROVE RuleInv
  OBVIOUS
<1>1. CFITypeOK
  BY NothingIsRules DEF CFIInit, CFITypeOK, Nothing
<1>2. SavedAreSmaller
  BY DEF CFIInit, SavedAreSmaller
<1> QED BY <1>1, <1>2 DEF CFIInit, RuleInv, InRange

\* A rule that is set, and reported, for one column.
LEMMA DoRuleKeepsRuleInv ==
    ASSUME RuleInv, at # "idle", NEW c \in Columns, NEW rule \in Rules, DoRule(c, rule),
           steps' \in Nat
    PROVE  RuleInv'
<1> DEFINE one == One(c, rule)
           V == View(initial, changes)
           W == View(initial', changes')
<1>1. /\ rules' = Override(rules, one) /\ Record(one)
      /\ UNCHANGED <<at, entry, address, cieRules, saved, entries, table>>
  BY DEF DoRule
<1>2. DOMAIN one = {c} /\ one[c] = rule
  BY OneIs
<1>3. /\ CFITypeOK /\ InRange /\ SavedAreSmaller /\ KeptUp
  BY DEF RuleInv
<1>4. /\ rules \in RuleMaps /\ address \in Nat /\ RecordsTyped
  BY <1>3 DEF CFITypeOK, RecordsTyped
<1>5. CFITypeOK'
  <2>1. rules' \in RuleMaps
    BY <1>1, <1>4, SetRuleKeepsType
  <2>2. DOMAIN one \subseteq Columns
    BY <1>2
  <2> HIDE DEF one
  <2>3. RecordsTyped'
    BY <1>1, <1>4, <2>2, RecordKeepsType
  <2> QED BY <1>1, <1>3, <2>1, <2>3 DEF CFITypeOK, RecordsTyped
<1> HIDE DEF one
<1>6. DOMAIN rules' = DOMAIN rules \cup {c} /\ rules'[c] = rule
      /\ \A d \in DOMAIN rules \ {c} : rules'[d] = rules[d]
  BY <1>1, <1>2 DEF Override
<1>7. SavedAreSmaller'
  BY <1>1, <1>3, <1>6 DEF SavedAreSmaller
<1>8. /\ DOMAIN W = DOMAIN V \cup Reported(one)
      /\ \A d \in Reported(one) : W[d] = Translated(d, one[d])
      /\ \A d \in DOMAIN V \ Reported(one) : W[d] = V[d]
      /\ \A b \in DOMAIN changes' : b \in Nat /\ entry.base < b /\ b <= address
      /\ HaveLast(changes')
  BY <1>1, <1>3, RecordIs
<1>9. InRange'
  BY <1>1, <1>3, <1>8 DEF InRange
<1>10. Reported(one) = IF Translatable(rule) THEN {c} ELSE {}
  BY <1>2 DEF Reported
<1>11. /\ \A d \in DOMAIN rules : Translatable(rules[d]) =>
             d \in DOMAIN V /\ V[d] = Translated(d, rules[d])
       /\ \A d \in DOMAIN V \ DOMAIN rules :
             Unruled(d, V[d])
  BY <1>3 DEF KeptUp
<1> HIDE DEF V
<1> HIDE DEF W
<1>12. \A d \in DOMAIN rules' : Translatable(rules'[d]) =>
          d \in DOMAIN W /\ W[d] = Translated(d, rules'[d])
  BY <1>2, <1>6, <1>8, <1>10, <1>11
<1>13. \A d \in DOMAIN W \ DOMAIN rules' :
          Unruled(d, W[d])
  BY <1>6, <1>8, <1>10, <1>11
<1>14. KeptUp'
  BY <1>12, <1>13 DEF KeptUp, W
<1> QED BY <1>5, <1>7, <1>9, <1>14 DEF RuleInv

\* DW_CFA_restore_state: a whole set of rules at once.
LEMMA RestoreStateKeepsRuleInv ==
    ASSUME RuleInv, at # "idle", RestoreState, steps' \in Nat
    PROVE  RuleInv'
<1> DEFINE new == Top(saved)
           reported == TransitionTo(new)
           V == View(initial, changes)
           W == View(initial', changes')
<1>1. /\ saved # <<>> /\ rules' = new /\ saved' = SubSeq(saved, 1, Len(saved) - 1)
      /\ Record(reported)
      /\ UNCHANGED <<at, entry, address, cieRules, entries, table>>
  BY DEF RestoreState
<1>2. CFITypeOK /\ InRange /\ SavedAreSmaller /\ KeptUp
  BY DEF RuleInv
<1>3. rules \in RuleMaps /\ address \in Nat /\ RecordsTyped /\ saved \in Seq(RuleMaps)
  BY <1>2 DEF CFITypeOK, RecordsTyped
<1>4. /\ Len(saved) \in Nat /\ Len(saved) >= 1 /\ new = saved[Len(saved)] /\ new \in RuleMaps
      /\ saved' \in Seq(RuleMaps) /\ Len(saved') = Len(saved) - 1
      /\ \A i \in 1..Len(saved') : saved'[i] = saved[i]
  <2>1. Len(saved) \in Nat /\ Len(saved) >= 1
    BY <1>1, <1>3
  <2>2. new = saved[Len(saved)]
    BY DEF Top
  <2> HIDE DEF new
  <2>3. new \in RuleMaps
    BY <1>3, <2>1, <2>2
  <2>4. saved' \in Seq(RuleMaps)
    BY <1>1, <1>3, <2>1
  <2>5. Len(saved') = Len(saved) - 1 /\ \A i \in 1..Len(saved') : saved'[i] = saved[i]
    <3> DEFINE n == Len(saved) - 1
    <3>1. n \in Nat /\ n <= Len(saved) /\ saved' = SubSeq(saved, 1, n)
      BY <1>1, <2>1
    <3> HIDE DEF n
    <3>2. Len(saved') = n /\ \A i \in 1..n : saved'[i] = saved[i]
      BY <1>3, <2>1, <3>1
    <3> QED BY <3>2 DEF n
  <2> QED BY <2>1, <2>2, <2>3, <2>4, <2>5
<1> HIDE DEF new
<1>5. DOMAIN new \subseteq DOMAIN rules
  BY <1>2, <1>4 DEF SavedAreSmaller
<1>6. /\ DOMAIN reported = {c \in DOMAIN rules : c \notin DOMAIN new \/ new[c] # rules[c]}
      /\ \A c \in DOMAIN reported : reported[c] = IF c \in DOMAIN new THEN new[c] ELSE Same
  BY DEF TransitionTo
<1> HIDE DEF reported
<1>7. CFITypeOK'
  <2>1. DOMAIN rules \subseteq Columns
    BY <1>3, RuleMapHas
  <2>2. DOMAIN reported \subseteq Columns
    BY <1>6, <2>1
  <2>3. RecordsTyped'
    BY <1>1, <1>3, <2>2, RecordKeepsType
  <2> QED BY <1>1, <1>2, <1>4, <2>3 DEF CFITypeOK, RecordsTyped
<1>8. SavedAreSmaller'
  <2>1. ASSUME NEW i \in 1..Len(saved'), NEW j \in 1..Len(saved'), i <= j
        PROVE  DOMAIN saved'[i] \subseteq DOMAIN saved'[j]
    BY <1>2, <1>4, <2>1 DEF SavedAreSmaller
  <2>2. ASSUME NEW i \in 1..Len(saved')
        PROVE  DOMAIN saved'[i] \subseteq DOMAIN rules'
    BY <1>1, <1>2, <1>4 DEF SavedAreSmaller
  <2> QED BY <2>1, <2>2 DEF SavedAreSmaller
<1>9. /\ DOMAIN W = DOMAIN V \cup Reported(reported)
      /\ \A d \in Reported(reported) : W[d] = Translated(d, reported[d])
      /\ \A d \in DOMAIN V \ Reported(reported) : W[d] = V[d]
      /\ \A b \in DOMAIN changes' : b \in Nat /\ entry.base < b /\ b <= address
      /\ HaveLast(changes')
  BY <1>1, <1>2, RecordIs
<1>10. InRange'
  BY <1>1, <1>2, <1>9 DEF InRange
<1>11. /\ \A d \in DOMAIN rules : Translatable(rules[d]) =>
             d \in DOMAIN V /\ V[d] = Translated(d, rules[d])
       /\ \A d \in DOMAIN V \ DOMAIN rules :
             Unruled(d, V[d])
  BY <1>2 DEF KeptUp
<1> HIDE DEF V
<1> HIDE DEF W
<1>12. Translatable(Same)
  BY DEF Translatable, Same
<1>13. ASSUME NEW d \in DOMAIN new, Translatable(new[d])
       PROVE  d \in DOMAIN W /\ W[d] = Translated(d, new[d])
  <2>1. CASE new[d] = rules[d]
    <3>1. d \notin Reported(reported)
      BY <1>6, <2>1 DEF Reported
    <3> QED BY <1>5, <1>9, <1>11, <1>13, <2>1, <3>1
  <2>2. CASE new[d] # rules[d]
    <3>1. d \in Reported(reported) /\ reported[d] = new[d]
      BY <1>5, <1>6, <1>13, <2>2 DEF Reported
    <3> QED BY <1>9, <3>1
  <2> QED BY <2>1, <2>2
<1>14. ASSUME NEW d \in DOMAIN W \ DOMAIN new
       PROVE  Unruled(d, W[d])
  <2>1. CASE d \in DOMAIN rules
    <3>1. d \in Reported(reported) /\ reported[d] = Same
      BY <1>6, <1>12, <1>14, <2>1 DEF Reported
    <3> QED BY <1>9, <3>1 DEF Unruled
  <2>2. CASE d \notin DOMAIN rules
    <3>1. d \notin Reported(reported)
      BY <1>6, <2>2 DEF Reported
    <3> QED BY <1>9, <1>11, <1>14, <2>2, <3>1
  <2> QED BY <2>1, <2>2
<1>15. KeptUp'
  BY <1>1, <1>13, <1>14 DEF KeptUp, W
<1> QED BY <1>7, <1>8, <1>10, <1>15 DEF RuleInv

\* The rules that instructions can set.
LEMMA RegisterRulesAreRules ==
    ASSUME NEW rule \in RegisterRules
    PROVE  rule \in Rules
BY DEF RegisterRules, Rules, Same, Columns

\* Whatever the instruction, record and rules say the same afterwards.
LEMMA InstructionKeepsRuleInv == RuleInv /\ DoInstruction => RuleInv'
<1> SUFFICES ASSUME RuleInv, DoInstruction PROVE RuleInv'
  OBVIOUS
<1>1. at # "idle" /\ steps' \in Nat
  BY DEF DoInstruction, RuleInv, CFITypeOK
<1>2. /\ CFITypeOK /\ InRange /\ SavedAreSmaller /\ KeptUp
      /\ rules \in RuleMaps /\ cieRules \in RuleMaps
  BY <1>1 DEF RuleInv, CFITypeOK
<1>3. CASE Advance
  <2>1. PICK next \in UNION {fde.base .. fde.base + fde.size : fde \in FDEs} :
          /\ address < next /\ address' = next
          /\ UNCHANGED <<at, entry, rules, cieRules, saved, translator>>
    BY <1>3 DEF Advance
  <2>2. next \in Nat
    BY <2>1, DwarfCFIAssumption
  <2>3. CFITypeOK'
    BY <1>1, <1>2, <2>1, <2>2 DEF CFITypeOK, translator
  <2>4. SavedAreSmaller'
    BY <1>2, <2>1 DEF SavedAreSmaller
  <2>5. InRange'
    BY <1>1, <1>2, <2>1, <2>2 DEF InRange, translator
  <2>6. KeptUp'
    BY <1>2, <2>1 DEF KeptUp, translator
  <2> QED BY <2>3, <2>4, <2>5, <2>6 DEF RuleInv
<1>4. CASE DefCFA
  <2>0. CFA \in Columns /\ \A r \in Registers : r \in Columns
    BY DEF Columns
  <2>1. CASE \E r \in Registers, n \in Offsets : DoRule(CFA, <<"sum", r, n>>)
    BY <1>1, <2>0, <2>1, SumIsRule, DoRuleKeepsRuleInv
  <2>2. CASE DoRule(CFA, <<"expression">>)
    <3>1. <<"expression">> \in Rules
      BY DEF Rules
    <3> QED BY <1>1, <2>0, <2>2, <3>1, DoRuleKeepsRuleInv
  <2>3. CASE HasCFA /\ DoRule(CFA, rules[CFA])
    <3>1. rules[CFA] \in Rules
      BY <1>2, <2>3, RuleMapHas DEF HasCFA
    <3> QED BY <1>1, <2>0, <2>3, <3>1, DoRuleKeepsRuleInv
  <2>4. ASSUME HasCFA, rules[CFA][1] = "sum",
               \/ \E r \in Registers : DoRule(CFA, <<"sum", r, rules[CFA][3]>>)
               \/ \E n \in Offsets : DoRule(CFA, <<"sum", rules[CFA][2], n>>)
        PROVE  RuleInv'
    <3>1. rules[CFA] \in Rules
      BY <1>2, <2>4, RuleMapHas DEF HasCFA
    <3>2. rules[CFA][3] \in Offsets /\ rules[CFA][2] \in Columns
      BY <2>4, <3>1, SumHas
    <3>3. CASE \E r \in Registers : DoRule(CFA, <<"sum", r, rules[CFA][3]>>)
      BY <1>1, <2>0, <3>2, <3>3, SumIsRule, DoRuleKeepsRuleInv
    <3>4. CASE \E n \in Offsets : DoRule(CFA, <<"sum", rules[CFA][2], n>>)
      BY <1>1, <2>0, <3>2, <3>4, SumIsRule, DoRuleKeepsRuleInv
    <3> QED BY <2>4, <3>3, <3>4
  <2> QED BY <1>4, <2>1, <2>2, <2>3, <2>4 DEF DefCFA
<1>5. CASE SetRule
  <2>1. PICK r \in Registers, rule \in RegisterRules : DoRule(r, rule)
    BY <1>5 DEF SetRule
  <2>2. r \in Columns /\ rule \in Rules
    BY RegisterRulesAreRules DEF Columns
  <2> QED BY <1>1, <2>1, <2>2, DoRuleKeepsRuleInv
<1>6. CASE DoRestore
  <2>1. PICK r \in Registers :
          DoRule(r, IF r \in DOMAIN cieRules THEN cieRules[r] ELSE Same)
    BY <1>6 DEF DoRestore
  <2>2. r \in Columns
    BY DEF Columns
  <2>3. (IF r \in DOMAIN cieRules THEN cieRules[r] ELSE Same) \in Rules
    <3>1. Same \in Rules
      BY DEF Same, Rules
    <3>2. \A c \in DOMAIN cieRules : cieRules[c] \in Rules
      BY <1>2, RuleMapHas
    <3> QED BY <3>1, <3>2
  <2> QED BY <1>1, <2>1, <2>2, <2>3, DoRuleKeepsRuleInv
<1>7. CASE RememberState
  <2>1. /\ saved' = Append(saved, rules)
        /\ UNCHANGED <<at, entry, address, rules, cieRules, initial, changes, entries>>
    BY <1>7 DEF RememberState, translator
  <2>2. saved \in Seq(RuleMaps) /\ Len(saved) \in Nat
    BY <1>2 DEF CFITypeOK
  <2>3. /\ saved' \in Seq(RuleMaps) /\ Len(saved') = Len(saved) + 1
        /\ saved'[Len(saved) + 1] = rules /\ \A i \in 1..Len(saved) : saved'[i] = saved[i]
    BY <1>2, <2>1, <2>2
  <2>4. CFITypeOK'
    BY <1>1, <1>2, <2>1, <2>3 DEF CFITypeOK
  <2>5. SavedAreSmaller'
    <3>1. ASSUME NEW i \in 1..Len(saved')
          PROVE  DOMAIN saved'[i] \subseteq DOMAIN rules'
      BY <1>2, <2>1, <2>2, <2>3 DEF SavedAreSmaller
    <3>2. ASSUME NEW i \in 1..Len(saved'), NEW j \in 1..Len(saved'), i <= j
          PROVE  DOMAIN saved'[i] \subseteq DOMAIN saved'[j]
      <4>1. CASE j = Len(saved) + 1
        BY <2>1, <2>3, <3>1, <4>1
      <4>2. CASE j # Len(saved) + 1
        BY <1>2, <2>2, <2>3, <3>2, <4>2 DEF SavedAreSmaller
      <4> QED BY <4>1, <4>2
    <3> QED BY <3>1, <3>2 DEF SavedAreSmaller
  <2>6. InRange'
    BY <1>2, <2>1 DEF InRange
  <2>7. KeptUp'
    BY <1>2, <2>1 DEF KeptUp
  <2> QED BY <2>4, <2>5, <2>6, <2>7 DEF RuleInv
<1>8. CASE RestoreState
  BY <1>1, <1>8, RestoreStateKeepsRuleInv
<1> QED BY <1>3, <1>4, <1>5, <1>6, <1>7, <1>8 DEF DoInstruction

\* A new entry begins with no rule, and with the return address in its register.
LEMMA EntryKeepsRuleInv == RuleInv /\ Entry => RuleInv'
<1> SUFFICES ASSUME RuleInv, Entry PROVE RuleInv'
  OBVIOUS
<1>1. /\ entry' \in FDEs /\ address' = entry'.base /\ at' = "cie"
      /\ rules' = Nothing /\ cieRules' = Nothing /\ saved' = <<>>
      /\ initial' = One(ReturnAddress, <<"value", ReturnAddress>>) /\ changes' = Nothing
      /\ UNCHANGED <<entries, table, steps>>
  BY DEF Entry
<1>2. entry'.base \in Nat /\ entry'.size \in Nat
  BY <1>1, DwarfCFIAssumption
<1>3. DOMAIN Nothing = {}
  BY DEF Nothing
<1>4. DOMAIN initial' = {ReturnAddress} /\ initial'[ReturnAddress] = <<"value", ReturnAddress>>
  BY <1>1, OneIs
<1>5. CFITypeOK'
  BY <1>1, <1>2, <1>3, <1>4, NothingIsRules, DwarfCFIAssumption DEF RuleInv, CFITypeOK, Columns
<1>6. SavedAreSmaller'
  BY <1>1 DEF SavedAreSmaller
<1>7. \A c : Has(changes', c) = {}
  BY <1>1, <1>3 DEF Has
<1>8. InRange'
  BY <1>1, <1>2, <1>3, <1>7 DEF InRange, HaveLast
<1>9. View(initial', changes') = [c \in DOMAIN initial' |-> initial'[c]]
  <2>1. DOMAIN initial' \cup UNION {DOMAIN changes'[b] : b \in DOMAIN changes'} = DOMAIN initial'
    BY <1>1, <1>3
  <2> QED BY <1>7, <2>1 DEF View
<1>10. KeptUp'
  BY <1>1, <1>3, <1>4, <1>9 DEF KeptUp, Unruled
<1> QED BY <1>5, <1>6, <1>8, <1>10 DEF RuleInv

\* Where an entry ends, nothing is left to keep up.
LEMMA EndKeepsRuleInv == RuleInv /\ EndEntry => RuleInv'
<1> SUFFICES ASSUME RuleInv, EndEntry PROVE RuleInv'
  OBVIOUS
<1>1. at' = "idle" /\ UNCHANGED <<entry, address, rules, cieRules, saved, initial, changes, steps>>
  BY DEF EndEntry
<1> QED BY <1>1 DEF RuleInv, CFITypeOK, SavedAreSmaller, InRange

\* A step that leaves rules and records alone.
LEMMA SameKeepsRuleInv ==
    ASSUME RuleInv, at' \in {"idle", "cie", "fde"}, at' # "idle" => at # "idle",
           cieRules' \in RuleMaps,
           UNCHANGED <<entry, address, rules, saved, initial, changes, steps>>
    PROVE  RuleInv'
<1>1. CFITypeOK'
  BY DEF RuleInv, CFITypeOK
<1>2. SavedAreSmaller'
  BY DEF RuleInv, SavedAreSmaller
<1>3. InRange'
  BY DEF RuleInv, InRange
<1>4. at' # "idle" => KeptUp'
  BY DEF RuleInv, KeptUp
<1> QED BY <1>1, <1>2, <1>3, <1>4 DEF RuleInv

\* So they do at the beginnings and ends of entries.
LEMMA RulesKeepRuleInv == RuleInv /\ [CFINext]_cfiVars => RuleInv'
<1> SUFFICES ASSUME RuleInv, [CFINext]_cfiVars PROVE RuleInv'
  OBVIOUS
<1>1. CASE Entry
  BY <1>1, EntryKeepsRuleInv
<1>2. CASE DoInstruction
  BY <1>2, InstructionKeepsRuleInv
<1>3. CASE CIEEnds
  <2>1. /\ at # "idle" /\ at' = "fde" /\ cieRules' = rules
        /\ UNCHANGED <<entry, address, rules, saved, initial, changes, entries, table, steps>>
    BY <1>3 DEF CIEEnds, translator
  <2> QED BY <2>1, SameKeepsRuleInv DEF RuleInv, CFITypeOK
<1>4. CASE FDEEnds
  BY <1>4, EndKeepsRuleInv DEF FDEEnds
<1>5. CASE Fails
  BY <1>5, EndKeepsRuleInv DEF Fails
<1>6. CASE UNCHANGED cfiVars
  BY <1>6, SameKeepsRuleInv DEF cfiVars, reader, translator, RuleInv, CFITypeOK
<1> QED BY <1>1, <1>2, <1>3, <1>4, <1>5, <1>6 DEF CFINext

\* The chain of saved rules, the ranges of changes and what the records say: the
\* inductive invariant of the theorems below.
THEOREM RulesAndRecords == CFISpec => []RuleInv
BY RulesBegin, RulesKeepRuleInv, PTL DEF CFISpec

-----------------------------------------------------------------------------
(* The theorems *)

\* The variables of interpreter and translator keep their types, whatever instructions run.
THEOREM RulesAreTyped == CFISpec => []CFITypeOK
<1>1. RuleInv => CFITypeOK
  BY DEF RuleInv
<1> QED BY <1>1, RulesAndRecords, PTL

\* What HandleTransitionTo asserts holds, however states are remembered and restored: a
\* restored set of rules has none that the current one has not.
THEOREM TransitionsAreOrdered == CFISpec => []SavedAreSmaller
<1>1. RuleInv => SavedAreSmaller
  BY DEF RuleInv
<1> QED BY <1>1, RulesAndRecords, PTL

\* At every moment the records say of the current address the rules that the interpreter has.
THEOREM RecordsKeepUp == CFISpec => []ReportsKeepUp
<1>1. RuleInv => ReportsKeepUp
  <2> SUFFICES ASSUME RuleInv, at # "idle" PROVE ReportsKeepUp
    BY DEF ReportsKeepUp
  <2>1. /\ entry.base \in Nat /\ address \in Nat
        /\ \A b \in DOMAIN changes : b \in Nat /\ entry.base < b /\ b <= address
    BY DEF RuleInv, InRange
  <2>2. FindCFIFrameInfo(initial, changes, entry.base, address) = View(initial, changes)
    BY <2>1, FoundIsView
  <2> QED BY <2>2 DEF RuleInv, KeptUp, Unruled, ReportsKeepUp
<1> QED BY <1>1, RulesAndRecords, PTL

-----------------------------------------------------------------------------
(* SymbolFile: the maps that a reader loads.  FoldLeft is a function from the sets of indices
   that is what it says; that there is one, and what it maps 1..k to, is shown of the least
   counterexample. *)

\* The symbol file's maps are like the others.
LEMMA FileMaps ==
    ASSUME NEW m
    PROVE  /\ \A a : Map(m)!LowerBound(m, a) = LowerBound(m, a)
           /\ Map(m)!End = Modulus
BY DEF Map!LowerBound, Map!Least, Map!End, LowerBound, Least, End

EndsBelow(m, base) == DOMAIN m \subseteq Addresses /\ \A x \in DOMAIN m : x < base

\* Above all that a map holds, StoreRange takes every range that has an address.
LEMMA StoredIs ==
    ASSUME NEW m, NEW base \in Nat, EndsBelow(m, base), NEW span \in Nat, NEW value,
           base + span <= Modulus
    PROVE  /\ span = 0 => StoredRange(m, base, span, value) = m
           /\ span > 0 => StoredRange(m, base, span, value)
                = Insert(m, base + span - 1, [base |-> base, entry |-> value])
<1>0. Modulus \in Nat \ {0} /\ DOMAIN m \subseteq Addresses /\ \A x \in DOMAIN m : x < base
  BY OrderedMapAssumption DEF EndsBelow
<1>1. CASE span = 0
  BY <1>1 DEF StoredRange, Map!Refuses
<1>2. CASE span > 0
  <2> DEFINE high == base + span - 1
  <2>1. high \in Addresses /\ base \in Addresses /\ base <= high /\ base + span - 1 = high
    BY <1>0, <1>2 DEF Addresses
  <2>2. (base + span - 1) % Modulus = high
    BY <1>0, <2>1 DEF Addresses
  <2>3. \A x \in DOMAIN m : x \in Nat
    BY <1>0 DEF Addresses
  <2>4. LowerBound(m, base) = End
    BY <1>0, <2>1, <2>3, LowerBoundBounds
  <2>5. LowerBound(m, high) = End
    <3> HIDE DEF high
    <3> QED BY <1>0, <2>1, <2>3, LowerBoundBounds
  <2>6. ~Map(m)!Refuses(base, span)
    <3>1. Map(m)!Refuses(base, span) <=>
            \/ span <= 0 \/ high < base
            \/ LowerBound(m, base) # LowerBound(m, high)
            \/ LowerBound(m, high) # Modulus /\ m[LowerBound(m, high)].base <= high
      <4> HIDE DEF high
      <4>1. Map(m)!High(base, span) = high
        BY <2>2 DEF Map!High
      <4> QED BY <4>1, FileMaps DEF Map!Refuses
    <3> HIDE DEF high
    <3> QED BY <1>2, <2>1, <2>4, <2>5, <3>1 DEF End, Addresses
  <2>7. StoredRange(m, base, span, value)
          = Insert(m, base + span - 1, [base |-> base, entry |-> value])
    BY <2>2, <2>6 DEF StoredRange, High
  <2> QED BY <1>2, <2>7
<1> QED BY <1>1, <1>2

\* The range that an address is in, if the map has it and no other.
LEMMA RangeIs ==
    ASSUME NEW m, DOMAIN m \subseteq Addresses, NEW a \in Addresses, NEW key \in DOMAIN m,
           a <= key, m[key].base \in Nat, m[key].base <= a, \A x \in DOMAIN m : x >= a => key <= x
    PROVE  Map(m)!RetrieveRange(a)
             = [base |-> m[key].base, size |-> key - m[key].base + 1, entry |-> m[key].entry]
<1>1. LowerBound(m, a) = key
  <2>1. /\ LowerBound(m, a) \in DOMAIN m \cup {End} /\ LowerBound(m, a) >= a
        /\ LowerBound(m, a) <= key
    BY LowerBoundBounds DEF Addresses
  <2>2. key < End /\ DOMAIN m \subseteq Nat /\ End \in Nat
    BY OrderedMapAssumption DEF Addresses, End
  <2> QED BY <2>1, <2>2 DEF Addresses
<1>2. key # Modulus
  BY OrderedMapAssumption DEF Addresses
<1>3. Map(m)!LowerBound(m, a) = key /\ Map(m)!End = Modulus
  BY <1>1, FileMaps
<1>4. ~(a < m[key].base)
  BY DEF Addresses
<1> QED BY <1>2, <1>3, <1>4 DEF Map!RetrieveRange, Map!At

\* And a greatest one, if they are bounded.
LEMMA GreatestNumber ==
    ASSUME NEW n \in Nat, NEW S, S \subseteq 0..n, S # {}
    PROVE  /\ \E x \in S : \A y \in S : x >= y
           /\ Latest(S) \in S /\ \A y \in S : Latest(S) >= y
<1> DEFINE T == {n - x : x \in S}
<1>1. T \subseteq Nat /\ T # {}
  <2>1. PICK z \in S : TRUE
    OBVIOUS
  <2>2. n - z \in T
    OBVIOUS
  <2>3. \A x \in S : n - x \in Nat
    OBVIOUS
  <2> QED BY <2>2, <2>3
<1>2. PICK t \in T : \A y \in T : t <= y
  BY <1>1, LeastNumber
<1>3. PICK x \in S : t = n - x
  BY <1>2
<1>4. \A y \in S : x >= y
  <2> TAKE y \in S
  <2>1. n - y \in T
    OBVIOUS
  <2>2. t <= n - y
    BY <1>2, <2>1
  <2> QED BY <1>3, <2>2
<1>5. \E z \in S : \A y \in S : z >= y
  BY <1>4
<1> QED BY <1>5, Zenon DEF Latest

\* Where a record's range begins and ends, and what is kept of it: the initial rules of an
\* entry, the number of a line, a function with its lines.
FirstOf(kind, e) == IF kind = "initial" THEN e.base ELSE e.address
LastOf(kind, e) == FirstOf(kind, e) + e.size - 1
KeptOf(kind, e) ==
    IF kind = "initial" THEN e.initial ELSE IF kind = "line" THEN e.number ELSE e

\* A reader's map of ranges, or of the changes of rules, after one more record.
Loaded(kind, m, e) ==
    IF kind = "delta" THEN [a \in DOMAIN m \cup DOMAIN e.changes |->
                               IF a \in DOMAIN e.changes THEN e.changes[a] ELSE m[a]]
    ELSE StoredRange(m, FirstOf(kind, e), e.size, KeptOf(kind, e))

\* The maps as a fold computes them: for each set of entries, from the last of it.
Folds(kind, es, n, it) ==
    it = [s \in SUBSET (1..n) |->
             IF s = {} THEN <<>> ELSE Loaded(kind, it[s \ {Latest(s)}], es[Latest(s)])]

\* There is such a function, for as many entries as there are.
LEMMA FoldExists ==
    ASSUME NEW kind, NEW es, NEW n \in Nat
    PROVE  \E it : Folds(kind, es, n, it)
<1> DEFINE T == {m \in Nat : ~\E it : Folds(kind, es, m, it)}
<1> SUFFICES ASSUME T # {} PROVE FALSE
  OBVIOUS
<1>1. PICK m \in T : \A y \in T : m <= y
  BY LeastNumber
<1>2. ASSUME NEW k \in Nat, NEW it, NEW s \in SUBSET (1..k), s # {}
      PROVE  Latest(s) \in s /\ \A y \in s : Latest(s) >= y
  <2>1. s \subseteq 0..k
    OBVIOUS
  <2> QED BY <1>2, <2>1, GreatestNumber
<1>3. m # 0
  <2> DEFINE it == [s \in SUBSET (1..0) |-> <<>>]
  <2>1. SUBSET (1..0) = {{}}
    OBVIOUS
  <2>2. it = [s \in SUBSET (1..0) |->
             IF s = {} THEN <<>> ELSE Loaded(kind, it[s \ {Latest(s)}], es[Latest(s)])]
    BY <2>1
  <2>3. \E h : Folds(kind, es, 0, h)
    BY <2>2 DEF Folds
  <2> QED BY <2>3
<1>4. m \in Nat /\ m - 1 \in Nat /\ m - 1 \notin T
  BY <1>1, <1>3
<1>5. PICK it : Folds(kind, es, m - 1, it)
  BY <1>4
<1>6. \A s \in SUBSET (1..m - 1) : it[s] =
          IF s = {} THEN <<>> ELSE Loaded(kind, it[s \ {Latest(s)}], es[Latest(s)])
  BY <1>5, Zenon DEF Folds
<1> DEFINE next == [s \in SUBSET (1..m) |->
                       IF m \in s THEN Loaded(kind, it[s \ {m}], es[m]) ELSE it[s]]
<1>7. ASSUME NEW s \in SUBSET (1..m)
      PROVE  next[s] = IF s = {} THEN <<>>
                       ELSE Loaded(kind, next[s \ {Latest(s)}], es[Latest(s)])
  <2>1. CASE m \in s
    <3>1. Latest(s) = m
      <4>1. Latest(s) \in s /\ Latest(s) >= m
        BY <1>2, <2>1
      <4> HIDE DEF next, T
      <4>2. s \subseteq 1..m /\ m \in Nat
        BY <1>4
      <4>3. Latest(s) \in 1..m
        BY <4>1, <4>2
      <4> QED BY <4>1, <4>2, <4>3
    <3>2. next[s \ {m}] = it[s \ {m}]
      OBVIOUS
    <3>3. next[s] = Loaded(kind, it[s \ {m}], es[m])
      BY <2>1
    <3> HIDE DEF next
    <3> QED BY <2>1, <3>1, <3>2, <3>3
  <2>2. CASE m \notin s
    <3>1. s \in SUBSET (1..m - 1) /\ next[s] = it[s]
      BY <2>2
    <3>2. s # {} => Latest(s) # m /\ s \ {Latest(s)} \in SUBSET (1..m)
      BY <1>2, <2>2
    <3>3. s # {} => next[s \ {Latest(s)}] = it[s \ {Latest(s)}]
      BY <2>2, <3>2
    <3> HIDE DEF next
    <3> QED BY <1>6, <3>1, <3>3
  <2> QED BY <2>1, <2>2
<1>8. next = [s \in SUBSET (1..m) |-> next[s]]
  OBVIOUS
<1> HIDE DEF next
<1>9. Folds(kind, es, m, next)
  <2>1. next = [s \in SUBSET (1..m) |->
             IF s = {} THEN <<>> ELSE Loaded(kind, next[s \ {Latest(s)}], es[Latest(s)])]
    BY <1>7, <1>8, Zenon
  <2> QED BY <2>1 DEF Folds
<1> QED BY <1>1, <1>9

LoadsInTurn(kind, es, n, it) ==
    it[{}] = <<>> /\ \A k \in 1..n : it[1..k] = Loaded(kind, it[1..k - 1], es[k])

\* It loads the entries one by one.
LEMMA FoldLoads ==
    ASSUME NEW kind, NEW es, NEW n \in Nat, NEW it, Folds(kind, es, n, it)
    PROVE  LoadsInTurn(kind, es, n, it)
<1>1. \A s \in SUBSET (1..n) : it[s] =
          IF s = {} THEN <<>> ELSE Loaded(kind, it[s \ {Latest(s)}], es[Latest(s)])
  BY Zenon DEF Folds
<1>2. ASSUME NEW k \in 1..n PROVE it[1..k] = Loaded(kind, it[1..k - 1], es[k])
  <2>1. 1..k \subseteq 0..k /\ k \in 1..k /\ 1..k \in SUBSET (1..n) /\ k \in Nat
    OBVIOUS
  <2>2. Latest(1..k) \in 1..k /\ Latest(1..k) >= k
    BY <2>1, GreatestNumber
  <2>3. Latest(1..k) = k
    BY <2>2
  <2>4. (1..k) \ {k} = 1..k - 1
    OBVIOUS
  <2> QED BY <1>1, <2>1, <2>3, <2>4
<1>3. {} \in SUBSET (1..n)
  OBVIOUS
<1> QED BY <1>1, <1>2, <1>3 DEF LoadsInTurn

\* Each of the four loops over records loads one after the other: those of STACK CFI INIT,
LEMMA InitialFold ==
    ASSUME NEW S, NEW es \in Seq(S)
    PROVE  \E it : Folds("initial", es, Len(es), it) /\ InitialRules(es) = it[1..Len(es)]
<1> DEFINE Def(it) == it = [s \in SUBSET (DOMAIN es) |->
                IF s = {} THEN <<>>
                ELSE Loaded("initial", it[s \ {Max(s)}], es[Max(s)])]
           w == CHOOSE it : Def(it)
<1>1. InitialRules(es) = w[DOMAIN es]
  BY DEF InitialRules, FoldLeft, MapThenFoldSet, Loaded, FirstOf, KeptOf
<1>2. \A s : Max(s) = Latest(s)
  BY DEF Max, Latest
<1>3. DOMAIN es = 1..Len(es) /\ Len(es) \in Nat
  OBVIOUS
<1>4. \A it : Def(it) <=> Folds("initial", es, Len(es), it)
  BY <1>2, <1>3 DEF Folds
<1>5. \E it : Def(it)
  BY <1>3, <1>4, FoldExists
<1>6. Def(w)
  BY <1>5, Zenon
<1> HIDE DEF Def, w
<1> QED BY <1>1, <1>3, <1>4, <1>6

\* of the lines of a function,
LEMMA LineFold ==
    ASSUME NEW S, NEW f, f.lines \in Seq(S)
    PROVE  \E it : Folds("line", f.lines, Len(f.lines), it) /\ LinesOf(f) = it[1..Len(f.lines)]
<1> DEFINE es == f.lines
           Def(it) == it = [s \in SUBSET (DOMAIN es) |->
                IF s = {} THEN <<>>
                ELSE Loaded("line", it[s \ {Max(s)}], es[Max(s)])]
           w == CHOOSE it : Def(it)
<1>1. LinesOf(f) = w[DOMAIN es]
  BY DEF LinesOf, FoldLeft, MapThenFoldSet, Loaded, FirstOf, KeptOf
<1>2. \A s : Max(s) = Latest(s)
  BY DEF Max, Latest
<1>3. DOMAIN es = 1..Len(es) /\ Len(es) \in Nat
  OBVIOUS
<1>4. \A it : Def(it) <=> Folds("line", es, Len(es), it)
  BY <1>2, <1>3 DEF Folds
<1>5. \E it : Def(it)
  BY <1>3, <1>4, FoldExists
<1>6. Def(w)
  BY <1>5, Zenon
<1> HIDE DEF Def, w
<1> QED BY <1>1, <1>3, <1>4, <1>6

\* of FUNC,
LEMMA FunctionFold ==
    ASSUME NEW S, NEW es \in Seq(S)
    PROVE  \E it : Folds("function", es, Len(es), it) /\ FunctionsOf(es) = it[1..Len(es)]
<1> DEFINE Def(it) == it = [s \in SUBSET (DOMAIN es) |->
                IF s = {} THEN <<>>
                ELSE Loaded("function", it[s \ {Max(s)}], es[Max(s)])]
           w == CHOOSE it : Def(it)
<1>1. FunctionsOf(es) = w[DOMAIN es]
  BY DEF FunctionsOf, FoldLeft, MapThenFoldSet, Loaded, FirstOf, KeptOf
<1>2. \A s : Max(s) = Latest(s)
  BY DEF Max, Latest
<1>3. DOMAIN es = 1..Len(es) /\ Len(es) \in Nat
  OBVIOUS
<1>4. \A it : Def(it) <=> Folds("function", es, Len(es), it)
  BY <1>2, <1>3 DEF Folds
<1>5. \E it : Def(it)
  BY <1>3, <1>4, FoldExists
<1>6. Def(w)
  BY <1>5, Zenon
<1> HIDE DEF Def, w
<1> QED BY <1>1, <1>3, <1>4, <1>6

\* and of STACK CFI.
LEMMA DeltaFold ==
    ASSUME NEW S, NEW es \in Seq(S)
    PROVE  \E it : Folds("delta", es, Len(es), it) /\ DeltaRules(es) = it[1..Len(es)]
<1> DEFINE Def(it) == it = [s \in SUBSET (DOMAIN es) |->
                IF s = {} THEN <<>>
                ELSE Loaded("delta", it[s \ {Max(s)}], es[Max(s)])]
           w == CHOOSE it : Def(it)
<1>1. DeltaRules(es) = w[DOMAIN es]
  BY DEF DeltaRules, FoldLeft, MapThenFoldSet, Loaded
<1>2. \A s : Max(s) = Latest(s)
  BY DEF Max, Latest
<1>3. DOMAIN es = 1..Len(es) /\ Len(es) \in Nat
  OBVIOUS
<1>4. \A it : Def(it) <=> Folds("delta", es, Len(es), it)
  BY <1>2, <1>3 DEF Folds
<1>5. \E it : Def(it)
  BY <1>3, <1>4, FoldExists
<1>6. Def(w)
  BY <1>5, Zenon
<1> HIDE DEF Def, w
<1> QED BY <1>1, <1>3, <1>4, <1>6

\* Ranges one after the other; entries also have their changes inside.
OneByOne(kind, es) ==
    /\ \A i \in DOMAIN es : /\ FirstOf(kind, es[i]) \in Nat /\ es[i].size \in Nat
                           /\ FirstOf(kind, es[i]) + es[i].size <= Modulus
    /\ \A i, j \in DOMAIN es :
          i < j => FirstOf(kind, es[i]) + es[i].size <= FirstOf(kind, es[j])
InOrder(es) ==
    /\ OneByOne("initial", es)
    /\ \A i \in DOMAIN es : \A b \in DOMAIN es[i].changes :
          b \in Nat /\ es[i].base < b /\ b < es[i].base + es[i].size

\* The ranges of the first k records that are not empty.
Ranges(kind, m, es, k) ==
    /\ \A i \in 1..k : es[i].size > 0 =>
          /\ LastOf(kind, es[i]) \in DOMAIN m
          /\ m[LastOf(kind, es[i])]
                = [base |-> FirstOf(kind, es[i]), entry |-> KeptOf(kind, es[i])]
    /\ \A x \in DOMAIN m : \E i \in 1..k : es[i].size > 0 /\ x = LastOf(kind, es[i])

\* Records in order and apart are all loaded, and nothing else is.
LEMMA RangesAreLoaded ==
    ASSUME NEW kind, kind # "delta", NEW S, NEW es \in Seq(S), OneByOne(kind, es),
           NEW it, Folds(kind, es, Len(es), it)
    PROVE  Ranges(kind, it[1..Len(es)], es, Len(es))
<1> DEFINE n == Len(es)
<1>1. n \in Nat /\ DOMAIN es = 1..n
  OBVIOUS
<1> HIDE DEF n
<1>3. it[{}] = <<>> /\ \A k \in 1..n : it[1..k] = Loaded(kind, it[1..k - 1], es[k])
  <2>1. LoadsInTurn(kind, es, n, it)
    BY <1>1, FoldLoads DEF n
  <2> QED BY <2>1 DEF LoadsInTurn
<1> DEFINE T == {k \in 0..n : ~Ranges(kind, it[1..k], es, k)}
<1>4. T = {}
  <2> SUFFICES ASSUME T # {} PROVE FALSE
    OBVIOUS
  <2>1. PICK k \in T : \A y \in T : k <= y
    <3>1. T \subseteq Nat
      BY <1>1
    <3> QED BY <3>1, LeastNumber
  <2>2. k # 0
    <3>1. 1..0 = {} /\ DOMAIN it[{}] = {}
      BY <1>3
    <3>2. Ranges(kind, it[1..0], es, 0)
      BY <3>1 DEF Ranges
    <3> QED BY <2>1, <3>2
  <2>3. k \in 1..n /\ k \in Nat /\ k - 1 \in Nat /\ k - 1 \in 0..n /\ k - 1 \notin T
    BY <1>1, <2>1, <2>2
  <2> DEFINE m == it[1..k - 1]
             e == es[k]
             first == FirstOf(kind, e)
  <2>4. Ranges(kind, m, es, k - 1)
    BY <2>3
  <2>5. it[1..k] = StoredRange(m, first, e.size, KeptOf(kind, e))
    BY <1>3, <2>3 DEF Loaded
  <2> HIDE DEF m, e, T, first
  <2>6. first \in Nat /\ e.size \in Nat /\ first + e.size <= Modulus
    BY <1>1, <2>3 DEF OneByOne, e, first
  <2>7. /\ DOMAIN m \subseteq Addresses
        /\ \A x \in DOMAIN m : x < first
    <3> SUFFICES ASSUME NEW x \in DOMAIN m PROVE x \in Addresses /\ x < first
      OBVIOUS
    <3>1. PICK i \in 1..k - 1 : es[i].size > 0 /\ x = LastOf(kind, es[i])
      BY <2>4 DEF Ranges
    <3>2. i \in 1..n /\ i < k
      BY <1>1, <2>3
    <3>3. /\ FirstOf(kind, es[i]) \in Nat /\ es[i].size \in Nat /\ FirstOf(kind, es[i]) + es[i].size <= first
          /\ FirstOf(kind, es[i]) + es[i].size <= Modulus
      BY <1>1, <2>3, <3>2 DEF OneByOne, e, first
    <3>4. x \in Int /\ x >= 0 /\ x < first /\ x < Modulus
      <4> DEFINE low == FirstOf(kind, es[i])
                 span == es[i].size
      <4>1. /\ low \in Nat /\ span \in Nat /\ span > 0 /\ x = low + span - 1
            /\ low + span <= first /\ low + span <= Modulus
        BY <3>1, <3>3 DEF LastOf
      <4> HIDE DEF low, span
      <4> QED BY <2>6, <4>1, OrderedMapAssumption
    <3> QED BY <3>4, OrderedMapAssumption DEF Addresses
  <2>8. /\ e.size = 0 => it[1..k] = m
        /\ e.size > 0 => it[1..k] = Insert(m, LastOf(kind, e), [base |-> first, entry |-> KeptOf(kind, e)])
    <3>1. /\ e.size = 0 => it[1..k] = m
          /\ e.size > 0 => it[1..k] = Insert(m, first + e.size - 1,
                                             [base |-> first, entry |-> KeptOf(kind, e)])
      <4>1. EndsBelow(m, first)
        BY <2>7 DEF EndsBelow
      <4> QED BY <2>5, <2>6, <4>1, StoredIs
    <3>2. LastOf(kind, e) = first + e.size - 1
      BY DEF LastOf, first
    <3> QED BY <3>1, <3>2
  <2>9. Ranges(kind, it[1..k], es, k)
    <3>1. CASE e.size = 0
      <4>1. \A i \in 1..k : es[i].size > 0 => i \in 1..k - 1
        BY <2>3, <3>1 DEF e
      <4>2. \A i \in 1..k - 1 : i \in 1..k
        BY <2>3
      <4> QED BY <2>4, <2>8, <3>1, <4>1, <4>2 DEF Ranges
    <3>2. CASE e.size > 0
      <4> DEFINE w == it[1..k]
                 v == [base |-> first, entry |-> KeptOf(kind, e)]
                 x == LastOf(kind, e)
      <4>1. w = Insert(m, x, v)
        BY <2>8, <3>2
      <4>2. x >= first /\ x \in Nat
        BY <2>6, <3>2 DEF LastOf, first
      <4> HIDE DEF w, x
      <4>3. x \notin DOMAIN m
        BY <2>6, <2>7, <4>2 DEF Addresses
      <4>4. /\ DOMAIN w = DOMAIN m \cup {x} /\ w[x] = v
            /\ \A y \in DOMAIN m : w[y] = m[y]
        <5> HIDE DEF v
        <5> QED BY <4>1, <4>3 DEF Insert
      <4>5. ASSUME NEW i \in 1..k, es[i].size > 0
            PROVE  /\ LastOf(kind, es[i]) \in DOMAIN w
                   /\ w[LastOf(kind, es[i])] = [base |-> FirstOf(kind, es[i]), entry |-> KeptOf(kind, es[i])]
        <5>1. CASE i = k
          BY <4>4, <5>1 DEF x, e, first
        <5>2. CASE i # k
          <6>1. i \in 1..k - 1
            BY <2>3, <5>2
          <6> QED BY <2>4, <4>4, <4>5, <6>1 DEF Ranges
        <5> QED BY <5>1, <5>2
      <4>6. ASSUME NEW y \in DOMAIN w
            PROVE  \E i \in 1..k : es[i].size > 0 /\ y = LastOf(kind, es[i])
        <5>1. CASE y = x
          <6>1. k \in 1..k
            BY <2>3
          <6> QED BY <3>2, <5>1, <6>1 DEF x, e, first
        <5>2. CASE y \in DOMAIN m
          <6>1. PICK i \in 1..k - 1 : es[i].size > 0 /\ y = LastOf(kind, es[i])
            BY <2>4, <5>2 DEF Ranges
          <6>2. i \in 1..k
            BY <2>3
          <6> QED BY <6>1, <6>2
        <5> QED BY <4>4, <5>1, <5>2
      <4> QED BY <4>5, <4>6 DEF Ranges, w
    <3> QED BY <2>6, <3>1, <3>2
  <2> QED BY <2>1, <2>9 DEF T
<1>5. Ranges(kind, it[1..n], es, n)
  <2>1. n \in 0..n
    BY <1>1
  <2> QED BY <1>4, <2>1
<1> QED BY <1>5 DEF n

\* The range that an address is in is found.
LEMMA RangeFound ==
    ASSUME NEW kind, NEW S, NEW es \in Seq(S), OneByOne(kind, es),
           NEW m, Ranges(kind, m, es, Len(es)), NEW a \in Nat, NEW i \in DOMAIN es,
           FirstOf(kind, es[i]) <= a, a < FirstOf(kind, es[i]) + es[i].size
    PROVE  Map(m)!RetrieveRange(a)
             = [base |-> FirstOf(kind, es[i]), size |-> es[i].size, entry |-> KeptOf(kind, es[i])]
<1> DEFINE n == Len(es)
           e == es[i]
           first == FirstOf(kind, e)
           key == LastOf(kind, e)
<1>1. n \in Nat /\ DOMAIN es = 1..n /\ Ranges(kind, m, es, n)
  OBVIOUS
<1>2. /\ first \in Nat /\ e.size \in Nat /\ first + e.size <= Modulus
      /\ first <= a /\ a < first + e.size
  BY DEF OneByOne
<1> HIDE DEF n
<1>3. e.size > 0 /\ key = first + e.size - 1
  <2> HIDE DEF e, first
  <2>1. e.size > 0
    BY <1>2
  <2> QED BY <2>1 DEF LastOf, first
<1>4. key \in DOMAIN m /\ m[key] = [base |-> first, entry |-> KeptOf(kind, e)]
  BY <1>1, <1>3 DEF Ranges
<1> HIDE DEF key
<1>5. ASSUME NEW x \in DOMAIN m PROVE x \in Addresses /\ (x >= a => key <= x)
  <2>1. PICK j \in 1..n : es[j].size > 0 /\ x = LastOf(kind, es[j])
    BY <1>1 DEF Ranges
  <2> DEFINE low == FirstOf(kind, es[j])
             span == es[j].size
  <2>2. j \in DOMAIN es /\ j \in Int /\ i \in Int
    BY <1>1
  <2>3. /\ low \in Nat /\ span \in Nat /\ low + span <= Modulus
        /\ j < i => low + span <= first
        /\ i < j => first + e.size <= low
    BY <2>2 DEF OneByOne
  <2>4. span > 0 /\ x = low + span - 1
    BY <2>1 DEF LastOf
  <2>5. j = i => x = key
    BY <1>3, <2>4
  <2> HIDE DEF low, span, e, first
  <2>6. x \in Addresses /\ x \in Nat
    BY <2>3, <2>4, OrderedMapAssumption DEF Addresses
  <2>7. j < i => x < a
    BY <1>2, <2>3, <2>4
  <2>8. i < j => key <= x
    <3> SUFFICES ASSUME i < j PROVE key <= x
      OBVIOUS
    <3> DEFINE extent == e.size
    <3>1. first \in Nat /\ extent \in Nat /\ key = first + extent - 1
      BY <1>2, <1>3
    <3>2. low \in Nat /\ span \in Nat /\ first + extent <= low /\ span > 0 /\ x = low + span - 1
      BY <2>3, <2>4
    <3> HIDE DEF extent
    <3> QED BY <3>1, <3>2
  <2>9. j = i => key <= x
    BY <2>5, <2>6
  <2>10. j < i \/ j = i \/ i < j
    BY <2>2
  <2> QED BY <2>6, <2>7, <2>8, <2>9, <2>10
<1>6. a \in Addresses /\ a <= key
  BY <1>2, <1>3, OrderedMapAssumption DEF Addresses
<1>7. m[key].base = first /\ m[key].entry = KeptOf(kind, e) /\ DOMAIN m \subseteq Addresses
  BY <1>4, <1>5
<1>8. key - first + 1 = e.size
  <2> HIDE DEF e, first
  <2> QED BY <1>2, <1>3
<1> HIDE DEF e, first
<1>9. m[key].base \in Nat /\ m[key].base <= a /\ \A x \in DOMAIN m : x >= a => key <= x
  BY <1>2, <1>5, <1>7
<1>10. Map(m)!RetrieveRange(a)
         = [base |-> m[key].base, size |-> key - m[key].base + 1, entry |-> m[key].entry]
  BY <1>4, <1>6, <1>7, <1>9, RangeIs
<1> QED BY <1>7, <1>8, <1>10 DEF e, first

\* The changes of the first k entries.
Deltas(m, es, k) ==
    /\ \A i \in 1..k : \A b \in DOMAIN es[i].changes : b \in DOMAIN m /\ m[b] = es[i].changes[b]
    /\ \A b \in DOMAIN m : \E i \in 1..k : b \in DOMAIN es[i].changes

\* Entries in order and apart keep their changes in the one map.
LEMMA DeltasAreLoaded ==
    ASSUME NEW S, NEW es \in Seq(S), InOrder(es)
    PROVE  Deltas(DeltaRules(es), es, Len(es))
<1> DEFINE n == Len(es)
<1>1. n \in Nat /\ DOMAIN es = 1..n
  OBVIOUS
<1> HIDE DEF n
<1>2. PICK it : Folds("delta", es, n, it) /\ DeltaRules(es) = it[1..n]
  BY DeltaFold DEF n
<1>3. it[{}] = <<>> /\ \A k \in 1..n : it[1..k] = Loaded("delta", it[1..k - 1], es[k])
  <2> DEFINE kind == "delta"
  <2>1. Folds(kind, es, n, it)
    BY <1>2
  <2> HIDE DEF kind
  <2>2. n \in Nat
    BY <1>1
  <2>3. LoadsInTurn(kind, es, n, it)
    BY <2>1, <2>2, FoldLoads
  <2> QED BY <2>3 DEF kind, LoadsInTurn
<1> DEFINE T == {k \in 0..n : ~Deltas(it[1..k], es, k)}
<1>4. T = {}
  <2> SUFFICES ASSUME T # {} PROVE FALSE
    OBVIOUS
  <2>1. PICK k \in T : \A y \in T : k <= y
    <3>1. T \subseteq Nat
      BY <1>1
    <3> QED BY <3>1, LeastNumber
  <2>2. k # 0
    <3>1. 1..0 = {} /\ DOMAIN it[{}] = {}
      BY <1>3
    <3>2. Deltas(it[1..0], es, 0)
      BY <3>1 DEF Deltas
    <3> QED BY <2>1, <3>2
  <2>3. k \in 1..n /\ k \in Nat /\ k - 1 \in Nat /\ k - 1 \in 0..n /\ k - 1 \notin T
    BY <1>1, <2>1, <2>2
  <2> DEFINE m == it[1..k - 1]
             w == it[1..k]
             new == es[k].changes
  <2>4. Deltas(m, es, k - 1)
    BY <2>3
  <2>5. w = [a \in DOMAIN m \cup DOMAIN new |-> IF a \in DOMAIN new THEN new[a] ELSE m[a]]
    BY <1>3, <2>3 DEF Loaded
  <2> HIDE DEF m, T, w
  <2>6. /\ DOMAIN w = DOMAIN m \cup DOMAIN new /\ \A b \in DOMAIN new : w[b] = new[b]
        /\ \A b \in DOMAIN m \ DOMAIN new : w[b] = m[b]
    <3> HIDE DEF new
    <3> QED BY <2>5
  <2>7. ASSUME NEW i \in 1..k - 1, NEW b \in DOMAIN es[i].changes
        PROVE  b \notin DOMAIN new
    <3>1. i \in 1..n /\ i < k
      BY <1>1, <2>3
    <3>2. /\ es[i].base \in Nat /\ es[i].size \in Nat /\ es[k].base \in Nat
          /\ es[i].base + es[i].size <= es[k].base
          /\ b \in Nat /\ b < es[i].base + es[i].size
          /\ \A c \in DOMAIN es[k].changes : c \in Nat /\ es[k].base < c
      BY <1>1, <2>3, <3>1 DEF InOrder, OneByOne, FirstOf
    <3> SUFFICES ASSUME b \in DOMAIN new PROVE FALSE
      OBVIOUS
    <3>3. es[k].base < b
      BY <3>2
    <3> DEFINE low == es[i].base
               span == es[i].size
               high == es[k].base
    <3>4. low \in Nat /\ span \in Nat /\ high \in Nat /\ low + span <= high /\ b < low + span /\ high < b
      BY <3>2, <3>3
    <3> HIDE DEF low, span, high
    <3> QED BY <3>2, <3>4
  <2> HIDE DEF new
  <2>8. ASSUME NEW i \in 1..k, NEW b \in DOMAIN es[i].changes
        PROVE  b \in DOMAIN w /\ w[b] = es[i].changes[b]
    <3>1. CASE i = k
      BY <2>6, <3>1 DEF new
    <3>2. CASE i # k
      <4>1. i \in 1..k - 1
        BY <2>3, <3>2
      <4>2. b \in DOMAIN m /\ m[b] = es[i].changes[b]
        BY <2>4, <4>1 DEF Deltas
      <4> QED BY <2>6, <2>7, <4>1, <4>2
    <3> QED BY <3>1, <3>2
  <2>9. ASSUME NEW b \in DOMAIN w PROVE \E i \in 1..k : b \in DOMAIN es[i].changes
    <3>1. CASE b \in DOMAIN new
      <4>1. k \in 1..k
        BY <2>3
      <4> QED BY <3>1, <4>1 DEF new
    <3>2. CASE b \in DOMAIN m
      <4>1. PICK i \in 1..k - 1 : b \in DOMAIN es[i].changes
        BY <2>4, <3>2 DEF Deltas
      <4>2. i \in 1..k
        BY <2>3
      <4> QED BY <4>1, <4>2
    <3> QED BY <2>6, <3>1, <3>2
  <2>10. Deltas(w, es, k)
    BY <2>8, <2>9 DEF Deltas
  <2> QED BY <2>1, <2>10 DEF T, w
<1>5. Deltas(it[1..n], es, n)
  <2>1. n \in 0..n
    BY <1>1
  <2> QED BY <1>4, <2>1
<1> QED BY <1>2, <1>5 DEF n

-----------------------------------------------------------------------------
(* SymbolRules: what it finds for an address *)

Covers(e, a) == e.base <= a /\ a < e.base + e.size
Found(e, a) == FindCFIFrameInfo(e.initial, e.changes, e.base, a)

\* What is found depends on the changes from the base up to the address only.
LEMMA FoundSame ==
    ASSUME NEW first, NEW c1, NEW c2, NEW base \in Nat, NEW a \in Nat,
           \A b \in DOMAIN c1 : b \in Nat, \A b \in DOMAIN c2 : b \in Nat,
           \A b \in Nat : b >= base /\ b <= a =>
              (b \in DOMAIN c1 <=> b \in DOMAIN c2) /\ (b \in DOMAIN c1 => c1[b] = c2[b])
    PROVE  FindCFIFrameInfo(first, c1, base, a) = FindCFIFrameInfo(first, c2, base, a)
<1> DEFINE up1(c) == {b \in DOMAIN c1 : b >= base /\ b <= a /\ c \in DOMAIN c1[b]}
           up2(c) == {b \in DOMAIN c2 : b >= base /\ b <= a /\ c \in DOMAIN c2[b]}
           in1 == {b \in DOMAIN c1 : b >= base /\ b <= a}
           in2 == {b \in DOMAIN c2 : b >= base /\ b <= a}
           value1(c) == IF up1(c) = {} THEN first[c] ELSE c1[Latest(up1(c))][c]
           value2(c) == IF up2(c) = {} THEN first[c] ELSE c2[Latest(up2(c))][c]
           columns1 == DOMAIN first \cup UNION {DOMAIN c1[b] : b \in in1}
           columns2 == DOMAIN first \cup UNION {DOMAIN c2[b] : b \in in2}
<1>1. in1 = in2 /\ \A b \in in1 : c1[b] = c2[b]
  OBVIOUS
<1>2. \A c : up1(c) = up2(c)
  OBVIOUS
<1>3. columns1 = columns2
  <2> HIDE DEF in1, in2
  <2> QED BY <1>1
<1>4. ASSUME NEW c PROVE value1(c) = value2(c)
  <2>1. up1(c) # {} => Latest(up1(c)) \in up1(c)
    <3>1. up1(c) \subseteq 0..a
      OBVIOUS
    <3> HIDE DEF up1
    <3> QED BY <3>1, GreatestNumber
  <2>2. up1(c) # {} => c1[Latest(up1(c))] = c2[Latest(up1(c))]
    <3>1. up1(c) \subseteq in1
      OBVIOUS
    <3> HIDE DEF up1, in1
    <3> QED BY <1>1, <2>1, <3>1
  <2> HIDE DEF up1, up2
  <2> QED BY <1>2, <2>2
<1>5. FindCFIFrameInfo(first, c1, base, a) = [c \in columns1 |-> value1(c)]
  BY DEF FindCFIFrameInfo
<1>6. FindCFIFrameInfo(first, c2, base, a) = [c \in columns2 |-> value2(c)]
  BY DEF FindCFIFrameInfo
<1> HIDE DEF columns1, columns2, value1, value2
<1> QED BY <1>3, <1>4, <1>5, <1>6

\* A symbol file's rules for an address are those of the entry it is in.
LEMMA RulesOfEntry ==
    ASSUME NEW S, entries \in Seq(S), InOrder(entries), NEW a \in Nat,
           NEW i \in DOMAIN entries, Covers(entries[i], a)
    PROVE  RulesFor(a) = Found(entries[i], a)
<1> DEFINE m == InitialRules(entries)
           d == DeltaRules(entries)
           n == Len(entries)
           e == entries[i]
<1>1. n \in Nat /\ DOMAIN entries = 1..n
  OBVIOUS
<1>2. Ranges("initial", m, entries, n) /\ Deltas(d, entries, n)
  <2>1. PICK it : Folds("initial", entries, Len(entries), it) /\ m = it[1..n]
    BY InitialFold
  <2>2. OneByOne("initial", entries) /\ "initial" # "delta"
    BY DEF InOrder, OneByOne, FirstOf
  <2> HIDE DEF m, d
  <2>3. Ranges("initial", m, entries, n)
    <3> DEFINE kind == "initial"
    <3>1. kind # "delta" /\ OneByOne(kind, entries) /\ Folds(kind, entries, Len(entries), it)
      BY <2>1, <2>2
    <3> HIDE DEF kind
    <3>2. Ranges(kind, it[1..Len(entries)], entries, Len(entries))
      BY <3>1, RangesAreLoaded
    <3> QED BY <2>1, <3>2 DEF kind
  <2> QED BY <2>3, DeltasAreLoaded DEF d
<1> HIDE DEF m, d, n
<1>3. /\ e.base \in Nat /\ e.size \in Nat /\ e.base + e.size <= Modulus
      /\ e.base <= a /\ a < e.base + e.size
      /\ \A b \in DOMAIN e.changes : b \in Nat /\ e.base < b /\ b < e.base + e.size
  BY DEF InOrder, OneByOne, FirstOf, Covers
<1>4. ASSUME NEW j \in DOMAIN entries
      PROVE  /\ entries[j].base \in Nat /\ entries[j].size \in Nat
             /\ \A b \in DOMAIN entries[j].changes :
                   b \in Nat /\ entries[j].base < b /\ b < entries[j].base + entries[j].size
             /\ j < i => entries[j].base + entries[j].size <= e.base
             /\ i < j => e.base + e.size <= entries[j].base
  BY DEF InOrder, OneByOne, FirstOf
<1>9. Map(m)!RetrieveRange(a) = [base |-> e.base, size |-> e.size, entry |-> e.initial]
  <2> DEFINE kind == "initial"
  <2>1. OneByOne(kind, entries) /\ Ranges(kind, m, entries, Len(entries))
    BY <1>2 DEF InOrder, OneByOne, FirstOf, n
  <2>2. FirstOf(kind, e) = e.base /\ KeptOf(kind, e) = e.initial
    BY DEF FirstOf, KeptOf
  <2> HIDE DEF kind
  <2>3. FirstOf(kind, e) <= a /\ a < FirstOf(kind, e) + e.size
    BY <1>3, <2>2
  <2>4. Map(m)!RetrieveRange(a)
          = [base |-> FirstOf(kind, e), size |-> e.size, entry |-> KeptOf(kind, e)]
    BY <2>1, <2>3, RangeFound
  <2> QED BY <2>2, <2>4
<1>10. RulesFor(a) = FindCFIFrameInfo(e.initial, d, e.base, a)
  <2> DEFINE range == Map(m)!RetrieveRange(a)
  <2>1. range # <<>> /\ range.entry = e.initial /\ range.base = e.base
    <3>1. DOMAIN range = {"base", "size", "entry"} /\ DOMAIN <<>> = {}
      BY <1>9
    <3> QED BY <1>9, <3>1
  <2>2. NotFound = <<>>
    BY DEF NotFound
  <2>3. RulesFor(a) = IF range = NotFound THEN Nothing
                      ELSE FindCFIFrameInfo(range.entry, d, range.base, a)
    BY DEF RulesFor, m, d
  <2> HIDE DEF range
  <2> QED BY <2>1, <2>2, <2>3
<1>11. FindCFIFrameInfo(e.initial, d, e.base, a) = FindCFIFrameInfo(e.initial, e.changes, e.base, a)
  <2>1. \A b \in DOMAIN d : b \in Nat
    BY <1>1, <1>2, <1>4 DEF Deltas
  <2>2. \A b \in DOMAIN e.changes : b \in DOMAIN d /\ e.changes[b] = d[b]
    BY <1>1, <1>2 DEF Deltas
  <2>3. ASSUME NEW b \in DOMAIN d, b >= e.base, b <= a PROVE b \in DOMAIN e.changes
    <3>1. PICK j \in 1..n : b \in DOMAIN entries[j].changes
      BY <1>2 DEF Deltas
    <3> DEFINE low == entries[j].base
               span == entries[j].size
    <3>2. j \in DOMAIN entries /\ j \in Int /\ i \in Int
      BY <1>1
    <3>3. /\ low \in Nat /\ span \in Nat /\ b \in Nat /\ low < b /\ b < low + span
          /\ j < i => low + span <= e.base
          /\ i < j => e.base + e.size <= low
      BY <1>4, <3>1, <3>2
    <3>4. j = i => b \in DOMAIN e.changes
      BY <3>1
    <3> HIDE DEF low, span, e
    <3>5. ~(j < i) /\ ~(i < j)
      BY <1>3, <2>3, <3>3
    <3> QED BY <3>2, <3>4, <3>5
  <2> DEFINE own == e.changes
             first == e.initial
             base == e.base
  <2>4. base \in Nat /\ \A b \in DOMAIN own : b \in Nat
    BY <1>3
  <2>5. \A b \in Nat : b >= base /\ b <= a =>
           (b \in DOMAIN d <=> b \in DOMAIN own) /\ (b \in DOMAIN d => d[b] = own[b])
    BY <2>2, <2>3
  <2> HIDE DEF own, first, base
  <2>6. FindCFIFrameInfo(first, d, base, a) = FindCFIFrameInfo(first, own, base, a)
    BY <2>1, <2>4, <2>5, FoundSame
  <2> QED BY <2>6 DEF own, first, base
<1> QED BY <1>10, <1>11 DEF Found

-----------------------------------------------------------------------------
(* SymbolRules: the rows *)

\* The CFA is a register and an offset, or not known.
IsCFARule(rule) ==
    \/ rule = <<"expression">>
    \/ \E r \in Registers, n \in Offsets : rule = <<"sum", r, n>>
CFARule(dwarf) == CFA \in DOMAIN dwarf => IsCFARule(dwarf[CFA])
CFAInv == CFARule(rules) /\ \A i \in 1..Len(saved) : CFARule(saved[i])

\* A row of DWARF's table and what is found for its address say the same.
Agrees(dwarf, found) ==
    /\ dwarf \in RuleMaps /\ CFARule(dwarf) /\ DOMAIN found \subseteq Columns
    /\ \A c \in DOMAIN dwarf : Translatable(dwarf[c]) =>
          c \in DOMAIN found /\ found[c] = Translated(c, dwarf[c])
    /\ \A c \in DOMAIN found \ DOMAIN dwarf : Unruled(c, found[c])

\* Entries lie one after the other, the current one behind the others.
EntriesInv ==
    /\ \E S : entries \in Seq(S)
    /\ InOrder(entries)
    /\ at # "idle" =>
          /\ entry.base + entry.size <= Modulus
          /\ \A i \in DOMAIN entries : entries[i].base + entries[i].size <= entry.base
          /\ address = entry.base \/ address < entry.base + entry.size

\* Every row is in an entry, a finished one or the current one, whose records agree.
InEntry(a) ==
    \E i \in DOMAIN entries : Covers(entries[i], a) /\ Agrees(table[a], Found(entries[i], a))
InCurrent(a) ==
    /\ at # "idle" /\ Covers(entry, a) /\ a < address
    /\ Agrees(table[a], FindCFIFrameInfo(initial, changes, entry.base, a))
RowsInv == \A a \in DOMAIN table : a \in Nat /\ (InEntry(a) \/ InCurrent(a))

TableInv == RuleInv /\ CFAInv /\ EntriesInv /\ RowsInv

\* A rule that is set is a rule of the CFA if it is set for the CFA.
LEMMA SetRuleKeepsCFA ==
    ASSUME NEW f, NEW c, NEW rule, CFARule(f), c = CFA => IsCFARule(rule)
    PROVE  CFARule(Override(f, One(c, rule)))
<1> DEFINE one == One(c, rule)
           g == Override(f, one)
<1>1. DOMAIN one = {c} /\ one[c] = rule /\ g = Override(f, one)
  BY OneIs
<1> HIDE DEF one, g
<1>2. /\ DOMAIN g = DOMAIN f \cup {c} /\ g[c] = rule
      /\ \A x \in DOMAIN f \ {c} : g[x] = f[x]
  BY <1>1 DEF Override
<1>3. CFARule(g)
  BY <1>2 DEF CFARule
<1> QED BY <1>3 DEF g, one

\* The CFA's rules, whatever the instruction.
LEMMA InstructionKeepsCFA == RuleInv /\ CFAInv /\ DoInstruction => CFAInv'
<1> SUFFICES ASSUME RuleInv, CFAInv, DoInstruction PROVE CFAInv'
  OBVIOUS
<1>1. /\ CFARule(rules) /\ \A i \in 1..Len(saved) : CFARule(saved[i])
      /\ saved \in Seq(RuleMaps) /\ Len(saved) \in Nat /\ rules \in RuleMaps
  BY DEF CFAInv, RuleInv, CFITypeOK
<1>2. ASSUME NEW c, NEW rule, DoRule(c, rule), c = CFA => IsCFARule(rule)
      PROVE  CFAInv'
  <2>1. rules' = Override(rules, One(c, rule)) /\ saved' = saved
    BY <1>2 DEF DoRule
  <2>2. CFARule(rules')
    BY <1>1, <1>2, <2>1, SetRuleKeepsCFA
  <2> QED BY <1>1, <2>1, <2>2 DEF CFAInv
<1>3. CASE Advance
  BY <1>3 DEF Advance, CFAInv
<1>4. CASE DefCFA
  <2>1. CASE \E r \in Registers, n \in Offsets : DoRule(CFA, <<"sum", r, n>>)
    BY <1>2, <2>1 DEF IsCFARule
  <2>2. CASE DoRule(CFA, <<"expression">>)
    BY <1>2, <2>2 DEF IsCFARule
  <2>3. ASSUME HasCFA
        PROVE  /\ IsCFARule(rules[CFA])
               /\ rules[CFA][1] = "sum" => rules[CFA][2] \in Registers /\ rules[CFA][3] \in Offsets
    <3>1. IsCFARule(rules[CFA])
      BY <1>1, <2>3 DEF CFARule, HasCFA
    <3> QED BY <3>1 DEF IsCFARule
  <2>4. CASE HasCFA /\ DoRule(CFA, rules[CFA])
    BY <1>2, <2>3, <2>4
  <2>5. ASSUME HasCFA, rules[CFA][1] = "sum", NEW r \in Registers,
               DoRule(CFA, <<"sum", r, rules[CFA][3]>>)
        PROVE  CFAInv'
    <3>1. IsCFARule(<<"sum", r, rules[CFA][3]>>)
      BY <2>3, <2>5 DEF IsCFARule
    <3> QED BY <1>2, <2>5, <3>1
  <2>6. ASSUME HasCFA, rules[CFA][1] = "sum", NEW n \in Offsets,
               DoRule(CFA, <<"sum", rules[CFA][2], n>>)
        PROVE  CFAInv'
    <3>1. IsCFARule(<<"sum", rules[CFA][2], n>>)
      BY <2>3, <2>6 DEF IsCFARule
    <3> QED BY <1>2, <2>6, <3>1
  <2> QED BY <1>4, <2>1, <2>2, <2>4, <2>5, <2>6 DEF DefCFA
<1>5. CASE SetRule \/ DoRestore
  <2>1. \A r \in Registers : r # CFA
    BY DwarfCFIAssumption
  <2> QED BY <1>2, <1>5, <2>1 DEF SetRule, DoRestore
<1>6. CASE RememberState
  <2>1. saved' = Append(saved, rules) /\ rules' = rules
    BY <1>6 DEF RememberState
  <2>2. /\ Len(saved') = Len(saved) + 1 /\ saved'[Len(saved) + 1] = rules
        /\ \A i \in 1..Len(saved) : saved'[i] = saved[i]
    BY <1>1, <2>1
  <2>3. ASSUME NEW i \in 1..Len(saved') PROVE CFARule(saved'[i])
    <3>1. CASE i = Len(saved) + 1
      BY <1>1, <2>2, <3>1
    <3>2. CASE i # Len(saved) + 1
      <4>1. i \in 1..Len(saved)
        BY <1>1, <2>2, <3>2
      <4> QED BY <1>1, <2>2, <4>1
    <3> QED BY <3>1, <3>2
  <2> QED BY <1>1, <2>1, <2>3 DEF CFAInv
<1>7. CASE RestoreState
  <2> DEFINE n == Len(saved) - 1
  <2>1. saved # <<>> /\ rules' = saved[Len(saved)] /\ saved' = SubSeq(saved, 1, n)
    BY <1>7 DEF RestoreState, Top
  <2>2. n \in Nat /\ n <= Len(saved) /\ Len(saved) \in 1..Len(saved)
    BY <1>1, <2>1
  <2> HIDE DEF n
  <2>3. Len(saved') = n /\ \A i \in 1..n : saved'[i] = saved[i]
    BY <1>1, <2>1, <2>2
  <2>4. \A i \in 1..n : i \in 1..Len(saved)
    BY <1>1, <2>2
  <2> QED BY <1>1, <2>1, <2>2, <2>3, <2>4 DEF CFAInv
<1> QED BY <1>3, <1>4, <1>5, <1>6, <1>7 DEF DoInstruction

\* What the interpreter's rules are now, they are at every address from the current one up.
LEMMA RowAgrees ==
    ASSUME RuleInv, CFAInv, at # "idle", NEW a \in Nat, address <= a
    PROVE  Agrees(rules, FindCFIFrameInfo(initial, changes, entry.base, a))
<1>1. /\ entry.base \in Nat /\ address \in Nat
      /\ \A b \in DOMAIN changes : b \in Nat /\ entry.base < b /\ b <= a
  BY DEF RuleInv, InRange
<1>2. FindCFIFrameInfo(initial, changes, entry.base, a) = View(initial, changes)
  BY <1>1, FoundIsView
<1>3. DOMAIN View(initial, changes) \subseteq Columns
  BY DEF View, RuleInv, CFITypeOK
<1>4. rules \in RuleMaps /\ KeptUp
  BY DEF RuleInv, CFITypeOK
<1> QED BY <1>2, <1>3, <1>4 DEF Agrees, CFAInv, KeptUp

\* What is recorded at an address changes nothing for those below.
LEMMA RecordAbove ==
    ASSUME at # "idle", InRange, InRange', UNCHANGED <<at, entry, address>>,
           NEW reported, Record(reported), NEW a \in Nat, entry.base <= a, a < address
    PROVE  FindCFIFrameInfo(initial', changes', entry.base, a)
             = FindCFIFrameInfo(initial, changes, entry.base, a)
<1>1. /\ entry.base \in Nat /\ address \in Nat /\ address # entry.base
      /\ \A b \in DOMAIN changes : b \in Nat
      /\ \A b \in DOMAIN changes' : b \in Nat
  BY DEF InRange
<1>2. initial' = initial
  BY <1>1 DEF Record
<1>3. /\ \A b \in DOMAIN changes : b \in DOMAIN changes' /\ (b # address => changes'[b] = changes[b])
      /\ \A b \in DOMAIN changes' : b \in DOMAIN changes \/ b = address
  <2>1. CASE Reported(reported) = {}
    BY <1>1, <2>1 DEF Record, Reported
  <2>2. CASE Reported(reported) # {}
    <3>1. PICK now : changes' = Override(changes, One(address, now))
      BY <1>1, <2>2 DEF Record, Reported
    <3> DEFINE one == One(address, now)
    <3>2. DOMAIN one = {address} /\ changes' = Override(changes, one)
      BY <3>1, OneIs
    <3> HIDE DEF one
    <3>3. /\ DOMAIN changes' = DOMAIN changes \cup {address}
          /\ \A b \in DOMAIN changes \ {address} : changes'[b] = changes[b]
      <4> DEFINE over == Override(changes, one)
      <4>1. /\ DOMAIN over = DOMAIN changes \cup DOMAIN one
            /\ \A b \in DOMAIN changes \ DOMAIN one : over[b] = changes[b]
        BY OverrideIs
      <4>2. changes' = over /\ DOMAIN one = {address}
        BY <3>2
      <4> HIDE DEF over
      <4> QED BY <4>1, <4>2
    <3> QED BY <3>3
  <2> QED BY <2>1, <2>2
<1>4. \A b \in Nat : b >= entry.base /\ b <= a =>
        (b \in DOMAIN changes' <=> b \in DOMAIN changes)
        /\ (b \in DOMAIN changes' => changes'[b] = changes[b])
  BY <1>1, <1>3
<1> DEFINE base == entry.base
           new == changes'
<1>5. /\ base \in Nat /\ \A b \in DOMAIN new : b \in Nat
      /\ \A b \in Nat : b >= base /\ b <= a =>
           (b \in DOMAIN new <=> b \in DOMAIN changes) /\ (b \in DOMAIN new => new[b] = changes[b])
  BY <1>1, <1>4
<1> HIDE DEF base, new
<1>6. FindCFIFrameInfo(initial, new, base, a) = FindCFIFrameInfo(initial, changes, base, a)
  BY <1>1, <1>5, FoundSame
<1> QED BY <1>2, <1>6 DEF base, new

\* Entries stay apart.
LEMMA EntriesStayApart ==
    ASSUME ~Overrun, TableInv, [CFINext]_cfiVars
    PROVE  EntriesInv'
<1>1. /\ EntriesInv /\ InOrder(entries) /\ RuleInv /\ InRange /\ CFITypeOK
      /\ \A i \in DOMAIN entries : entries[i].base \in Nat /\ entries[i].size \in Nat
  BY DEF TableInv, EntriesInv, RuleInv, InOrder, OneByOne, FirstOf
<1>2. PICK S : entries \in Seq(S)
  BY <1>1 DEF EntriesInv
<1>3. Len(entries) \in Nat /\ DOMAIN entries = 1..Len(entries)
  BY <1>2
<1>4. CASE Entry
  <2>1. /\ entry' \in FDEs /\ address' = entry'.base /\ entries' = entries
        /\ \A i \in DOMAIN entries : entries[i].base + entries[i].size <= entry'.base
    BY <1>3, <1>4 DEF Entry
  <2>2. entry'.base + entry'.size <= Modulus
    BY <2>1, SymbolRulesAssumption
  <2> QED BY <1>1, <2>1, <2>2 DEF EntriesInv
<1>5. CASE Advance
  <2>1. /\ at' = at /\ entry' = entry /\ entries' = entries
        /\ address' < entry.base + entry.size
    BY <1>5 DEF Advance, translator
  <2> QED BY <1>1, <2>1 DEF EntriesInv
<1>6. CASE UNCHANGED <<at, entry, address, entries>>
  BY <1>1, <1>6 DEF EntriesInv
<1>7. CASE CIEEnds
  <2>1. at # "idle" /\ UNCHANGED <<entry, address, entries>>
    BY <1>7 DEF CIEEnds, translator
  <2> QED BY <1>1, <2>1 DEF EntriesInv
<1>8. CASE at # "idle" /\ EndEntry
  <2> DEFINE e == [base |-> entry.base, size |-> entry.size,
                   initial |-> initial, changes |-> changes]
             n == Len(entries)
  <2>1. entries' = Append(entries, e) /\ at' = "idle"
    BY <1>8 DEF EndEntry
  <2>2. /\ e.base \in Nat /\ e.size \in Nat /\ e.base + e.size <= Modulus
        /\ \A b \in DOMAIN e.changes : b \in Nat /\ e.base < b /\ b < e.base + e.size
        /\ \A i \in DOMAIN entries : entries[i].base + entries[i].size <= e.base
    <3>1. /\ entry.base \in Nat /\ entry.size \in Nat /\ entry.base + entry.size <= Modulus
          /\ \A b \in DOMAIN changes : b \in Nat /\ entry.base < b /\ b <= address
          /\ \A i \in DOMAIN entries : entries[i].base + entries[i].size <= entry.base
          /\ address = entry.base \/ address < entry.base + entry.size
          /\ address \in Nat
      BY <1>1, <1>8 DEF InRange, CFITypeOK, EntriesInv
    <3>2. \A b \in DOMAIN changes : b < entry.base + entry.size
      BY <3>1
    <3> QED BY <3>1, <3>2
  <2> HIDE DEF e
  <2>3. \E R : entries' \in Seq(R)
    <3>1. entries \in Seq(S \cup {e})
      BY <1>2, <1>3
    <3>2. entries' \in Seq(S \cup {e})
      BY <2>1, <3>1
    <3> QED BY <3>2
  <2>4. /\ DOMAIN entries' = 1..n + 1 /\ entries'[n + 1] = e
        /\ \A i \in 1..n : entries'[i] = entries[i]
    BY <1>2, <2>1
  <2>5. InOrder(entries')
    <3>1. ASSUME NEW i \in DOMAIN entries'
          PROVE  \/ i \in DOMAIN entries /\ entries'[i] = entries[i]
                 \/ i = n + 1 /\ entries'[i] = e
      BY <1>3, <2>4
    <3>2. ASSUME NEW i \in DOMAIN entries'
          PROVE  /\ entries'[i].base \in Nat /\ entries'[i].size \in Nat
                 /\ entries'[i].base + entries'[i].size <= Modulus
                 /\ \A b \in DOMAIN entries'[i].changes :
                       /\ b \in Nat /\ entries'[i].base < b
                       /\ b < entries'[i].base + entries'[i].size
      BY <1>1, <2>2, <3>1 DEF InOrder, OneByOne, FirstOf
    <3>3. ASSUME NEW i \in DOMAIN entries', NEW j \in DOMAIN entries', i < j
          PROVE  entries'[i].base + entries'[i].size <= entries'[j].base
      <4>1. i \in DOMAIN entries /\ entries'[i] = entries[i]
        BY <1>3, <2>4, <3>3
      <4> QED BY <1>1, <2>2, <3>1, <3>3, <4>1 DEF InOrder, OneByOne, FirstOf
    <3> QED BY <3>2, <3>3 DEF InOrder, OneByOne, FirstOf
  <2> QED BY <2>1, <2>3, <2>5 DEF EntriesInv
<1>9. CASE DoInstruction
  <2>1. CASE Advance
    BY <1>5, <2>1
  <2>2. CASE ~Advance
    <3>1. UNCHANGED <<at, entry, address, entries>>
      BY <1>9, <2>2 DEF DoInstruction, DefCFA, SetRule, DoRestore, DoRule, RememberState,
         RestoreState, translator
    <3> QED BY <1>6, <3>1
  <2> QED BY <2>1, <2>2
<1>10. CASE FDEEnds \/ Fails
  <2>1. at # "idle" /\ EndEntry
    BY <1>10 DEF FDEEnds, Fails
  <2> QED BY <1>8, <2>1
<1>11. CASE UNCHANGED cfiVars
  BY <1>6, <1>11 DEF cfiVars, reader, translator
<1> QED BY <1>4, <1>7, <1>9, <1>10, <1>11 DEF CFINext

\* A row stays in a finished entry.
LEMMA FinishedStay ==
    ASSUME NEW a, InEntry(a), entries' = entries, table'[a] = table[a]
    PROVE  InEntry(a)'
BY DEF InEntry

\* When an entry ends, its rows are in it.
LEMMA EndKeepsRows ==
    ASSUME TableInv, at # "idle", EndEntry, NEW a \in Nat,
           \/ InEntry(a) /\ table'[a] = table[a]
           \/ Covers(entry, a) /\ Agrees(table'[a], FindCFIFrameInfo(initial, changes, entry.base, a))
    PROVE  InEntry(a)'
<1> DEFINE e == [base |-> entry.base, size |-> entry.size,
                 initial |-> initial, changes |-> changes]
           n == Len(entries)
<1>1. PICK S : entries \in Seq(S)
  BY DEF TableInv, EntriesInv
<1>2. entries' = Append(entries, e)
  BY DEF EndEntry
<1>3. Covers(entry, a) <=> Covers(e, a)
  BY DEF Covers
<1>4. FindCFIFrameInfo(initial, changes, entry.base, a) = Found(e, a)
  BY DEF Found
<1> HIDE DEF e
<1>5. /\ DOMAIN entries' = 1..n + 1 /\ entries'[n + 1] = e /\ DOMAIN entries = 1..n
      /\ \A i \in 1..n : entries'[i] = entries[i]
      /\ n \in Nat
  BY <1>1, <1>2
<1>6. CASE InEntry(a) /\ table'[a] = table[a]
  <2>1. PICK i \in DOMAIN entries : Covers(entries[i], a) /\ Agrees(table[a], Found(entries[i], a))
    BY <1>6 DEF InEntry
  <2>2. i \in DOMAIN entries' /\ entries'[i] = entries[i]
    BY <1>5
  <2> QED BY <1>6, <2>1, <2>2 DEF InEntry
<1>7. CASE Covers(entry, a) /\ Agrees(table'[a], FindCFIFrameInfo(initial, changes, entry.base, a))
  <2>1. n + 1 \in DOMAIN entries'
    BY <1>5
  <2> QED BY <1>3, <1>4, <1>5, <1>7, <2>1 DEF InEntry
<1> QED BY <1>6, <1>7

\* An instruction other than an advance leaves the rows alone.
LEMMA RecordKeepsRows ==
    ASSUME TableInv, InRange', at # "idle", UNCHANGED <<at, entry, address, entries, table>>,
           \/ UNCHANGED <<initial, changes>>
           \/ \E reported : Record(reported)
    PROVE  RowsInv'
<1> SUFFICES ASSUME NEW a \in DOMAIN table PROVE a \in Nat /\ (InEntry(a)' \/ InCurrent(a)')
  BY DEF RowsInv
<1>1. a \in Nat /\ (InEntry(a) \/ InCurrent(a)) /\ InRange
  BY DEF TableInv, RowsInv, RuleInv
<1>2. CASE InEntry(a)
  BY <1>1, <1>2, FinishedStay
<1>3. CASE InCurrent(a)
  <2>1. entry.base <= a /\ a < address
    BY <1>3 DEF InCurrent, Covers
  <2>2. FindCFIFrameInfo(initial', changes', entry.base, a)
          = FindCFIFrameInfo(initial, changes, entry.base, a)
    BY <1>1, <2>1, RecordAbove
  <2> QED BY <1>1, <1>3, <2>2 DEF InCurrent
<1> QED BY <1>1, <1>2, <1>3

\* The rows that an advance, or the end of an entry, completes.
LEMMA RowsUpToAre ==
    ASSUME NEW next \in Nat, address \in Nat, RowsUpTo(next)
    PROVE  \A a \in DOMAIN table' :
                 \/ a \in address .. next - 1 /\ a < entry.base + entry.size /\ table'[a] = rules
                 \/ a \in DOMAIN table /\ table'[a] = table[a]
<1> DEFINE rows == [a \in {b \in address .. next - 1 : b < entry.base + entry.size} |-> rules]
<1>1. table' = Override(table, rows)
  BY DEF RowsUpTo
<1>2. DOMAIN rows = {b \in address .. next - 1 : b < entry.base + entry.size}
      /\ \A a \in DOMAIN rows : rows[a] = rules
  OBVIOUS
<1> HIDE DEF rows
<1>3. /\ DOMAIN table' = DOMAIN table \cup DOMAIN rows
      /\ \A a \in DOMAIN rows : table'[a] = rows[a]
      /\ \A a \in DOMAIN table \ DOMAIN rows : table'[a] = table[a]
  BY <1>1 DEF Override
<1> QED BY <1>2, <1>3

\* Every row stays in an entry whose records agree with it.
LEMMA RowsStay ==
    ASSUME ~Overrun, TableInv, RuleInv', CFAInv', EntriesInv', [CFINext]_cfiVars
    PROVE  RowsInv'
<1>1. /\ RuleInv /\ CFAInv /\ EntriesInv /\ InRange /\ CFITypeOK /\ InRange'
      /\ \A a \in DOMAIN table : a \in Nat /\ (InEntry(a) \/ InCurrent(a))
  BY DEF TableInv, RuleInv, RowsInv
<1>2. CASE Entry
  <2>1. at = "idle" /\ UNCHANGED <<entries, table>>
    BY <1>2 DEF Entry
  <2>2. ASSUME NEW a \in DOMAIN table PROVE InEntry(a)'
    <3>1. InEntry(a)
      BY <1>1, <2>1 DEF InCurrent
    <3> QED BY <2>1, <3>1, FinishedStay
  <2> QED BY <1>1, <2>1, <2>2 DEF RowsInv
<1>3. CASE DoInstruction /\ Advance
  <2>1. PICK next \in UNION {fde.base .. fde.base + fde.size : fde \in FDEs} :
          /\ address < next /\ next < entry.base + entry.size
          /\ address' = next /\ RowsUpTo(next)
          /\ UNCHANGED <<at, entry, rules, cieRules, saved, translator>>
    BY <1>3 DEF Advance
  <2>2. at # "idle" /\ UNCHANGED <<at, entry, entries, initial, changes>>
    BY <1>3, <2>1 DEF DoInstruction, translator
  <2>3. /\ next \in Nat /\ address \in Nat /\ entry.base \in Nat /\ entry.size \in Nat
        /\ entry.base <= address
    BY <1>1, <2>1, <2>2, DwarfCFIAssumption DEF InRange, CFITypeOK
  <2>4. ASSUME NEW a \in DOMAIN table' PROVE a \in Nat /\ (InEntry(a)' \/ InCurrent(a)')
    <3>1. CASE a \in address .. next - 1 /\ a < entry.base + entry.size /\ table'[a] = rules
      <4>1. a \in Nat /\ address <= a /\ a < next /\ entry.base <= a
        BY <2>3, <3>1
      <4>2. Agrees(rules, FindCFIFrameInfo(initial, changes, entry.base, a))
        BY <1>1, <2>2, <4>1, RowAgrees
      <4>3. InCurrent(a)'
        BY <2>1, <2>2, <3>1, <4>1, <4>2 DEF InCurrent, Covers
      <4> QED BY <4>1, <4>3
    <3>2. CASE a \in DOMAIN table /\ table'[a] = table[a]
      <4>1. CASE InEntry(a)
        BY <1>1, <2>2, <3>2, <4>1, FinishedStay
      <4>2. CASE InCurrent(a)
        <5>1. a \in Nat /\ a < next
          BY <1>1, <2>1, <2>3, <3>2, <4>2 DEF InCurrent
        <5> QED BY <2>1, <2>2, <3>2, <4>2, <5>1 DEF InCurrent
      <4> QED BY <1>1, <3>2, <4>1, <4>2
    <3> QED BY <2>1, <2>3, <3>1, <3>2, RowsUpToAre
  <2> QED BY <2>4 DEF RowsInv
<1>4. CASE DoInstruction /\ ~Advance
  <2>1. at # "idle" /\ UNCHANGED <<at, entry, address, entries, table>>
    BY <1>4 DEF DoInstruction, DefCFA, SetRule, DoRestore, DoRule, RememberState,
       RestoreState, translator
  <2>2. UNCHANGED <<initial, changes>> \/ \E reported : Record(reported)
    BY <1>4 DEF DoInstruction, DefCFA, SetRule, DoRestore, DoRule, RememberState,
       RestoreState, translator
  <2> QED BY <1>1, <2>1, <2>2, RecordKeepsRows
<1>5. CASE CIEEnds
  <2>1. at # "idle" /\ at' # "idle"
        /\ UNCHANGED <<entry, address, initial, changes, entries, table>>
    BY <1>5 DEF CIEEnds, translator
  <2>2. ASSUME NEW a \in DOMAIN table PROVE InEntry(a)' \/ InCurrent(a)'
    <3>1. CASE InEntry(a)
      BY <2>1, <3>1, FinishedStay
    <3>2. CASE InCurrent(a)
      BY <2>1, <3>2 DEF InCurrent
    <3> QED BY <1>1, <3>1, <3>2
  <2> QED BY <1>1, <2>1, <2>2 DEF RowsInv
<1>6. CASE FDEEnds
  <2> DEFINE next == entry.base + entry.size
  <2>1. at # "idle" /\ EndEntry /\ RowsUpTo(next)
    BY <1>6 DEF FDEEnds
  <2>2. /\ next \in Nat /\ address \in Nat /\ entry.base \in Nat /\ entry.size \in Nat
        /\ entry.base <= address
    BY <1>1, <2>1 DEF InRange, CFITypeOK
  <2>3. \A a \in DOMAIN table' :
           \/ a \in address .. next - 1 /\ a < next /\ table'[a] = rules
           \/ a \in DOMAIN table /\ table'[a] = table[a]
    <3>1. next = entry.base + entry.size
      OBVIOUS
    <3> HIDE DEF next
    <3> QED BY <2>1, <2>2, <3>1, RowsUpToAre
  <2>4. ASSUME NEW a \in DOMAIN table' PROVE a \in Nat /\ InEntry(a)'
    <3>1. CASE a \in address .. next - 1 /\ a < next /\ table'[a] = rules
      <4>1. a \in Nat /\ address <= a /\ Covers(entry, a)
        BY <2>2, <3>1 DEF Covers
      <4>2. Agrees(table'[a], FindCFIFrameInfo(initial, changes, entry.base, a))
        BY <1>1, <2>1, <3>1, <4>1, RowAgrees
      <4> QED BY <2>1, <4>1, <4>2, EndKeepsRows
    <3>2. CASE a \in DOMAIN table /\ table'[a] = table[a]
      <4>1. CASE InEntry(a)
        BY <1>1, <2>1, <3>2, <4>1, EndKeepsRows
      <4>2. CASE InCurrent(a)
        <5>1. /\ Covers(entry, a)
              /\ Agrees(table'[a], FindCFIFrameInfo(initial, changes, entry.base, a))
          BY <3>2, <4>2 DEF InCurrent
        <5> QED BY <1>1, <2>1, <3>2, <5>1, EndKeepsRows
      <4> QED BY <1>1, <3>2, <4>1, <4>2
    <3> HIDE DEF next
    <3> QED BY <2>3, <3>1, <3>2
  <2> QED BY <2>4 DEF RowsInv
<1>7. CASE Fails
  <2>1. at # "idle" /\ EndEntry /\ table' = table
    BY <1>7 DEF Fails
  <2>2. ASSUME NEW a \in DOMAIN table PROVE InEntry(a)'
    <3>1. CASE InEntry(a)
      BY <1>1, <2>1, <3>1, EndKeepsRows
    <3>2. CASE InCurrent(a)
      <4>1. /\ Covers(entry, a)
            /\ Agrees(table'[a], FindCFIFrameInfo(initial, changes, entry.base, a))
        BY <2>1, <3>2 DEF InCurrent
      <4> QED BY <1>1, <2>1, <4>1, EndKeepsRows
    <3> QED BY <1>1, <3>1, <3>2
  <2> QED BY <1>1, <2>1, <2>2 DEF RowsInv
<1>8. CASE UNCHANGED cfiVars
  <2>1. UNCHANGED <<at, entry, address, initial, changes, entries, table>>
    BY <1>8 DEF cfiVars, reader, translator
  <2> QED BY <1>1, <2>1 DEF RowsInv, InEntry, InCurrent
<1> QED BY <1>2, <1>3, <1>4, <1>5, <1>6, <1>7, <1>8 DEF CFINext

\* What the rows and the records of an address agree on is what RulesSurvive says.
LEMMA AgreementSurvives ==
    ASSUME NEW dwarf, NEW found, Agrees(dwarf, found)
    PROVE  /\ Usable(found) =>
                 /\ \A c \in DOMAIN dwarf : Translatable(dwarf[c]) => found[c] = Meaning(c, dwarf[c])
                 /\ \A c \in DOMAIN found \ DOMAIN dwarf : found[c] = <<"value", c>>
           /\ /\ CFA \in DOMAIN dwarf /\ \A c \in DOMAIN dwarf : Expressed(c, dwarf[c])
              /\ ReturnAddress \in DOMAIN dwarf
              => Usable(found)
<1>1. /\ DOMAIN found \subseteq Columns /\ DOMAIN dwarf \subseteq Columns
      /\ \A c \in DOMAIN dwarf : dwarf[c] \in Rules
      /\ \A c \in DOMAIN dwarf : Translatable(dwarf[c]) =>
             c \in DOMAIN found /\ found[c] = Translated(c, dwarf[c])
      /\ \A c \in DOMAIN found \ DOMAIN dwarf : Unruled(c, found[c])
      /\ CFA \in DOMAIN dwarf => IsCFARule(dwarf[CFA])
  BY RuleMapHas DEF Agrees, CFARule
<1>2. ReturnAddress \in Registers /\ CFA \notin Registers /\ ".ra" \notin Registers
      /\ CFA # ".ra" /\ CFA # ReturnAddress
  BY DwarfCFIAssumption DEF CFA
\* A translation that does not name the return address says what the rule means.
<1>3. ASSUME NEW c, NEW rule \in Rules, Translatable(rule), Translated(c, rule)[2] # ".ra"
      PROVE  Translated(c, rule) = Meaning(c, rule)
  <2>1. \/ rule = <<"same">>
        \/ \E r \in Registers : rule = <<"register", r>>
        \/ \E kind \in {"offset", "sum"}, d \in Columns, n \in Offsets : rule = <<kind, d, n>>
    BY <1>3 DEF Rules, Translatable
  <2>2. CASE rule = <<"same">>
    BY <1>3, <2>2 DEF Translated, Meaning, RegisterName
  <2>3. CASE \E r \in Registers : rule = <<"register", r>>
    BY <1>3, <2>3 DEF Translated, Meaning, RegisterName
  <2>4. CASE \E d \in Columns, n \in Offsets : rule = <<"offset", d, n>>
    BY <1>3, <2>4 DEF Translated, Meaning, RegisterName
  <2>5. CASE \E d \in Columns, n \in Offsets : rule = <<"sum", d, n>>
    BY <1>3, <2>5 DEF Translated, Meaning, RegisterName
  <2> QED BY <2>1, <2>2, <2>3, <2>4, <2>5
<1>4. ASSUME NEW c, Unruled(c, found[c]), found[c][2] # ".ra"
      PROVE  found[c] = <<"value", c>>
  BY <1>4 DEF Unruled, Translated, Same, RegisterName
<1>5. ASSUME Usable(found)
      PROVE  /\ \A c \in DOMAIN dwarf : Translatable(dwarf[c]) => found[c] = Meaning(c, dwarf[c])
             /\ \A c \in DOMAIN found \ DOMAIN dwarf : found[c] = <<"value", c>>
  <2>1. \A c \in DOMAIN found : found[c][2] # ".ra"
    BY <1>2, <1>5 DEF Usable
  <2> QED BY <1>1, <1>3, <1>4, <2>1
<1>6. ASSUME CFA \in DOMAIN dwarf, \A c \in DOMAIN dwarf : Expressed(c, dwarf[c]),
             ReturnAddress \in DOMAIN dwarf
      PROVE  Usable(found)
  <2>1. \A c \in DOMAIN dwarf : /\ c \in DOMAIN found /\ found[c] = Meaning(c, dwarf[c])
                              /\ Translatable(dwarf[c]) /\ dwarf[c] \in Rules
                              /\ Translated(c, dwarf[c]) = Meaning(c, dwarf[c])
    BY <1>1, <1>6 DEF Expressed
  <2>2. found[CFA][2] \in Registers
    <3>1. PICK r \in Registers, n \in Offsets : dwarf[CFA] = <<"sum", r, n>>
      BY <1>1, <1>6, <2>1 DEF IsCFARule, Translatable
    <3>2. found[CFA] = Meaning(CFA, <<"sum", r, n>>)
      BY <1>6, <2>1, <3>1
    <3>3. Meaning(CFA, <<"sum", r, n>>) = <<"sum", r, n>>
      BY DEF Meaning
    <3> QED BY <3>2, <3>3
  <2>3. ASSUME NEW c \in DOMAIN dwarf, c # CFA PROVE found[c][2] \in Registers \cup {CFA}
    <3> DEFINE rule == dwarf[c]
    <3>1. c \in Registers
      BY <1>1, <2>3 DEF Columns
    <3>2. \/ rule = <<"same">>
          \/ \E r \in Registers : rule = <<"register", r>>
          \/ \E kind \in {"offset", "sum"}, d \in Columns, n \in Offsets : rule = <<kind, d, n>>
      BY <2>1, <2>3 DEF Rules, Translatable
    <3>3. found[c] = Meaning(c, rule)
      BY <2>1, <2>3
    <3> HIDE DEF rule
    <3>4. CASE rule = <<"same">>
      BY <3>1, <3>3, <3>4 DEF Meaning
    <3>5. CASE \E r \in Registers : rule = <<"register", r>>
      BY <3>3, <3>5 DEF Meaning
    <3>6. CASE \E d \in Columns, n \in Offsets : rule = <<"offset", d, n>>
      BY <3>3, <3>6 DEF Meaning, Columns
    <3>7. CASE \E d \in Columns, n \in Offsets : rule = <<"sum", d, n>>
      BY <3>3, <3>7 DEF Meaning, Columns
    <3> QED BY <3>2, <3>4, <3>5, <3>6, <3>7
  <2>4. ASSUME NEW c \in DOMAIN found \ DOMAIN dwarf PROVE c # CFA /\ found[c][2] \in Registers
    <3>1. c \in Registers /\ c # ReturnAddress /\ c # CFA /\ Unruled(c, found[c])
      BY <1>1, <1>6, <2>4 DEF Columns
    <3>2. found[c] = <<"value", c>>
      BY <3>1 DEF Unruled, Translated, Same, RegisterName
    <3> QED BY <3>1, <3>2
  <2>5. {CFA, ReturnAddress} \subseteq DOMAIN found
    BY <1>6, <2>1
  <2> QED BY <2>2, <2>3, <2>4, <2>5 DEF Usable
<1> QED BY <1>5, <1>6

\* Rows and records of every entry agree in every state: the inductive invariant.
THEOREM RowsAndRecords == ASSUME ~Overrun PROVE CFISpec => []TableInv
<1>1. CFIInit => TableInv
  <2> SUFFICES ASSUME CFIInit PROVE TableInv
    OBVIOUS
  <2>1. RuleInv
    BY RulesBegin
  <2>2. DOMAIN rules = {} /\ saved = <<>> /\ entries = <<>> /\ DOMAIN table = {} /\ at = "idle"
    BY DEF CFIInit, Nothing
  <2>3. entries \in Seq({}) /\ DOMAIN entries = {}
    BY <2>2
  <2> QED BY <2>1, <2>2, <2>3 DEF TableInv, CFAInv, CFARule, EntriesInv, InOrder, OneByOne, FirstOf, RowsInv
<1>2. TableInv /\ [CFINext]_cfiVars => TableInv'
  <2> SUFFICES ASSUME TableInv, [CFINext]_cfiVars PROVE TableInv'
    OBVIOUS
  <2>1. RuleInv'
    BY RulesKeepRuleInv DEF TableInv
  <2>2. CFAInv'
    <3>1. CASE DoInstruction
      BY <3>1, InstructionKeepsCFA DEF TableInv
    <3>2. CASE Entry
      BY <3>2 DEF Entry, CFAInv, CFARule, Nothing
    <3>3. CASE CIEEnds \/ FDEEnds \/ Fails \/ UNCHANGED cfiVars
      <4>1. UNCHANGED <<rules, saved>>
        BY <3>3 DEF CIEEnds, FDEEnds, Fails, EndEntry, cfiVars, reader
      <4> QED BY <4>1 DEF TableInv, CFAInv
    <3> QED BY <3>1, <3>2, <3>3 DEF CFINext
  <2>3. EntriesInv'
    BY EntriesStayApart
  <2>4. RowsInv'
    BY <2>1, <2>2, <2>3, RowsStay
  <2> QED BY <2>1, <2>2, <2>3, <2>4 DEF TableInv
<1> QED BY <1>1, <1>2, PTL DEF CFISpec

\* Where a walker can use the rules that a symbol file has for an address, they mean what the
\* row of DWARF's table for it says, and it can where they can be expressed at all: for any
\* registers, any entries that do not overlap, and any instructions that stay in their entry.
THEOREM RulesComeThrough == ASSUME ~Overrun PROVE CFISpec => []RulesSurvive
<1>1. TableInv => RulesSurvive
  <2> SUFFICES ASSUME TableInv, at = "idle", NEW a \in DOMAIN table
               PROVE  LET dwarf == table[a]
                          found == RulesFor(a)
                      IN  /\ Usable(found) =>
                                /\ \A c \in DOMAIN dwarf :
                                      Translatable(dwarf[c]) => found[c] = Meaning(c, dwarf[c])
                                /\ \A c \in DOMAIN found \ DOMAIN dwarf : found[c] = <<"value", c>>
                          /\ /\ CFA \in DOMAIN dwarf /\ \A c \in DOMAIN dwarf : Expressed(c, dwarf[c])
                             /\ ReturnAddress \in DOMAIN dwarf
                             => Usable(found)
    BY DEF RulesSurvive
  <2>1. a \in Nat /\ InEntry(a)
    BY DEF TableInv, RowsInv, InCurrent
  <2>2. PICK i \in DOMAIN entries : Covers(entries[i], a) /\ Agrees(table[a], Found(entries[i], a))
    BY <2>1 DEF InEntry
  <2>3. PICK S : entries \in Seq(S)
    BY DEF TableInv, EntriesInv
  <2>4. InOrder(entries)
    BY DEF TableInv, EntriesInv
  <2>5. RulesFor(a) = Found(entries[i], a)
    BY <2>1, <2>2, <2>3, <2>4, RulesOfEntry
  <2>6. Agrees(table[a], RulesFor(a))
    BY <2>2, <2>5
  <2> QED BY <2>6, AgreementSurvives
<1> QED BY <1>1, RowsAndRecords, PTL

-----------------------------------------------------------------------------
(* DwarfLines: the invariant. *)

\* Where an item ends, which may be at the end of the address space.
Until(item) == item.address + item.size
Inside(item, a) == item.address <= a /\ a < Until(item)
Apart(items) == \A i, j \in DOMAIN items : i < j => Until(items[i]) <= items[j].address

RowRecords == [address : Addresses, end : 0..Modulus]
LineRecords == [address : Addresses, size : Addresses, number : Nat]
FunctionRecords == [address : Addresses, size : Addresses, name : Nat, lines : Seq(LineRecords)]

\* A line is a row, and no other line is; a row without a line is in what may be dropped.
LineOfRow(l) == /\ l.number \in DOMAIN program /\ l.address = program[l.number].address
                /\ 0 < l.address /\ 0 < l.size /\ Until(l) = program[l.number].end
ProgramInv ==
    /\ program \in Seq(RowRecords) /\ lines \in Seq(LineRecords)
    /\ \A i \in DOMAIN program : program[i].address <= program[i].end
    /\ \A j \in DOMAIN lines : LineOfRow(lines[j])
    /\ \A i, j \in DOMAIN lines : lines[i].number = lines[j].number => i = j
    /\ \A a \in Addresses : \A i \in RowsAt(a) :
          (\E j \in DOMAIN lines : lines[j].number = i) \/ MayBeDropped(a)

\* The row whose length is not known is the last, still empty, and has no line; up to the
\* end of what was omitted there are rows.
PendingInv ==
    phase = "rows" =>
       /\ omitted \in Addresses
       /\ \A a \in Addresses : a < omitted => RowsAt(a) # {}
       /\ row # <<>> => /\ Len(program) > 0
                        /\ row = <<program[Len(program)].address>>
                        /\ program[Len(program)].end = program[Len(program)].address
                        /\ \A j \in DOMAIN lines : lines[j].number < Len(program)

FunctionInv ==
    /\ functions \in Seq(FunctionRecords)
    /\ \A i \in DOMAIN functions : 0 < functions[i].size /\ Until(functions[i]) < Modulus

\* The lines that a function has been given lie in it, before the current address, one after
\* the other, and each in a line of its number.
PieceOf(f, piece) ==
    /\ 0 < piece.size /\ f.address <= piece.address
    /\ Until(piece) <= Until(f) /\ Until(piece) <= current
    /\ \E j \in DOMAIN lines : /\ lines[j].number = piece.number
                               /\ lines[j].address <= piece.address
                               /\ Until(piece) <= Until(lines[j])
PieceInv ==
    phase # "rows" => \A i \in DOMAIN functions :
       /\ \A k \in DOMAIN functions[i].lines : PieceOf(functions[i], functions[i].lines[k])
       /\ Apart(functions[i].lines)

\* What the iterators have passed ends here or before, what they are at does not.
Passed(items, i) == /\ i \in 1 .. Len(items) + 1
                    /\ \A j \in 1 .. i - 1 : Until(items[j]) <= current
                    /\ i <= Len(items) => current < Until(items[i])
AssignInv ==
    phase # "rows" =>
       /\ Sorted(functions) /\ Sorted(lines) /\ current \in 0..Modulus
       /\ phase = "assign" => Passed(functions, func) /\ Passed(lines, line)

\* Where neither functions nor lines overlap, a function has a line for every address up to
\* here that is in both.
CoverInv ==
    phase # "rows" /\ Apart(functions) /\ Apart(lines) =>
       \A a \in Addresses : \A i \in DOMAIN functions, j \in DOMAIN lines :
          Inside(functions[i], a) /\ Inside(lines[j], a) /\ (a < current \/ phase = "done")
             => \E k \in DOMAIN functions[i].lines : Inside(functions[i].lines[k], a)

LinesInv == /\ phase \in {"rows", "assign", "done"} /\ ProgramInv /\ PendingInv /\ FunctionInv
            /\ AssignInv /\ PieceInv /\ CoverInv

\* An address is in an item, as the program computes it, if it is not before or after it.
LEMMA WithinIs ==
    ASSUME NEW item, item.address \in Nat, item.size \in Nat, Until(item) <= Modulus,
           NEW a \in Addresses
    PROVE  Within(item, a) <=> Inside(item, a)
<1> DEFINE b == item.address
           s == item.size
<1>1. /\ b \in Nat /\ s \in Nat /\ b + s <= Modulus /\ a \in Nat /\ a < Modulus
      /\ Modulus \in Nat \ {0}
  BY OrderedMapAssumption DEF Addresses, Until
<1>2. Within(item, a) <=> (a - b) % Modulus < s
  BY DEF Within
<1>3. Inside(item, a) <=> b <= a /\ a < b + s
  BY DEF Inside, Until
<1> HIDE DEF b, s
<1>4. CASE b <= a
  <2>1. (a - b) % Modulus = a - b
    BY <1>1, <1>4
  <2> QED BY <1>1, <1>2, <1>3, <1>4, <2>1
<1>5. CASE a < b
  <2>1. (s = 0 /\ (a - b) % Modulus \in Nat) \/ (a - b) % Modulus = a - b + Modulus
    BY <1>1, <1>5
  <2> QED BY <1>1, <1>2, <1>3, <1>5, <2>1
<1> QED BY <1>1, <1>4, <1>5

Fit(items) ==
    \A j \in DOMAIN items : /\ items[j].address \in Nat /\ items[j].size \in Nat \ {0}
                            /\ Until(items[j]) <= Modulus

\* An iterator passes what ends at or before an address, and stops at what does not.
LEMMA SkipIs ==
    ASSUME NEW S, NEW items \in Seq(S), Fit(items), NEW a \in Addresses,
           NEW i \in 1 .. Len(items) + 1
    PROVE  /\ Skip(items, i, a) \in i .. Len(items) + 1
           /\ \A j \in i .. Skip(items, i, a) - 1 : Until(items[j]) <= a
           /\ Skip(items, i, a) <= Len(items) => a < Until(items[Skip(items, i, a)])
<1> DEFINE n == Len(items)
           Ahead(j) == a < items[j].address \/ Within(items[j], a)
           T == {j \in i..n : Ahead(j)} \cup {n + 1}
<1>1. n \in Nat /\ DOMAIN items = 1..n /\ a \in Nat /\ a < Modulus
  BY OrderedMapAssumption DEF Addresses
<1>2. Skip(items, i, a) = Least(T)
  BY DEF Skip
<1>3. ASSUME NEW j \in i..n PROVE Ahead(j) <=> a < Until(items[j])
  <2>1. j \in DOMAIN items
    BY <1>1
  <2>2. items[j].address \in Nat /\ items[j].size \in Nat /\ Until(items[j]) <= Modulus
    BY <2>1 DEF Fit
  <2>3. Within(items[j], a) <=> items[j].address <= a /\ a < Until(items[j])
    BY <2>2, WithinIs DEF Inside
  <2>4. items[j].address <= Until(items[j]) /\ Until(items[j]) \in Nat
    BY <2>2 DEF Until
  <2> QED BY <1>1, <2>2, <2>3, <2>4
<1> HIDE DEF Ahead, n
<1>4. T \subseteq Nat /\ T # {}
  BY <1>1 DEF n
<1>5. Least(T) \in T /\ \A y \in T : Least(T) <= y
  <2> HIDE DEF T
  <2> QED BY <1>4, LeastExists
<1>6. Least(T) \in i .. n + 1
  BY <1>1, <1>5 DEF n
<1>7. Least(T) <= n => a < Until(items[Least(T)])
  BY <1>1, <1>3, <1>5
<1>8. ASSUME NEW j \in i .. Least(T) - 1 PROVE Until(items[j]) <= a
  <2>1. j \in i..n /\ j < Least(T)
    BY <1>1, <1>6
  <2>2. ~Ahead(j)
    BY <1>5, <1>6, <2>1
  <2>3. j \in DOMAIN items
    BY <1>1, <2>1
  <2>4. Until(items[j]) \in Nat
    BY <2>3 DEF Fit, Until
  <2> QED BY <1>1, <1>3, <2>1, <2>2, <2>4
<1> QED BY <1>2, <1>6, <1>7, <1>8 DEF n

-----------------------------------------------------------------------------
(* DwarfLines: the rows. *)

\* The invariant holds of an empty compilation unit.
LEMMA LinesBegin == LinesInit => LinesInv
<1> SUFFICES ASSUME LinesInit PROVE LinesInv
  OBVIOUS
<1>1. 0 \in Addresses /\ Modulus \in Nat
  BY OrderedMapAssumption DEF Addresses
<1>2. ProgramInv
  BY DEF LinesInit, ProgramInv, RowsAt
<1>3. PendingInv
  BY <1>1 DEF LinesInit, PendingInv, Addresses
<1>4. FunctionInv /\ PieceInv
  BY DEF LinesInit, FunctionInv, PieceInv
<1> QED BY <1>2, <1>3, <1>4 DEF LinesInit, LinesInv, AssignInv, CoverInv

\* What AddLine does with a line that ends at a: nothing if that is where it begins, or if
\* the line is the whole address space, of which the length is 0 too.
LEMMA AddLineIs ==
    ASSUME NEW r \in Addresses, NEW a \in 0..Modulus, r <= a, NEW n, AddLine(r, (a - r) % Modulus, n)
    PROVE  \/ /\ r = a \/ (r = 0 /\ a = Modulus)
              /\ UNCHANGED <<lines, omitted>>
           \/ /\ r < a
              /\ r = 0 \/ r = omitted
              /\ omitted' = a % Modulus /\ lines' = lines
           \/ /\ 0 < r /\ r < a /\ omitted' = 0
              /\ lines' = Append(lines, [address |-> r, size |-> a - r, number |-> n])
<1> DEFINE gap == (a - r) % Modulus
           extent == IF (r + gap) % Modulus < r THEN Modulus - r ELSE gap
           drop == r = 0 \/ r = omitted
<1>0. r \in Nat /\ r < Modulus /\ a \in Nat /\ a <= Modulus /\ Modulus \in Nat \ {0}
  BY OrderedMapAssumption DEF Addresses
<1>1. CASE r = a \/ (r = 0 /\ a = Modulus)
  <2>1. gap = 0
    BY <1>0, <1>1
  <2> QED BY <1>1, <2>1 DEF AddLine
<1>2. CASE ~(r = a \/ (r = 0 /\ a = Modulus))
  <2>1. gap = a - r /\ gap > 0
    <3> DEFINE d == a - r
    <3>1. d \in Nat /\ d > 0 /\ d < Modulus
      BY <1>0, <1>2
    <3> HIDE DEF d
    <3>2. d % Modulus = d
      BY <1>0, <3>1
    <3> QED BY <3>1, <3>2 DEF d
  <2>2. extent = a - r
    <3>1. CASE a < Modulus
      BY <1>0, <2>1, <3>1
    <3>2. CASE a = Modulus
      <4>1. (r + gap) % Modulus = 0 /\ r > 0
        BY <1>0, <1>2, <2>1, <3>2
      <4> QED BY <3>2, <4>1
    <3> QED BY <1>0, <3>1, <3>2
  <2>3. /\ omitted' = IF drop THEN (r + extent) % Modulus ELSE 0
        /\ lines' = IF drop THEN lines
                    ELSE Append(lines, [address |-> r, size |-> extent, number |-> n])
    BY <2>1 DEF AddLine
  <2>4. r + extent = a /\ r < a
    <3> HIDE DEF gap, extent
    <3> QED BY <1>0, <1>2, <2>2
  <2> HIDE DEF gap, extent
  <2> QED BY <1>0, <2>2, <2>3, <2>4
<1> QED BY <1>1, <1>2

\* With one more row, and the end of the last.
LEMMA RowsGrow ==
    ASSUME LinesInv, ReadLines
    PROVE  ProgramInv' /\ PendingInv'
<1>0. phase = "rows" /\ phase' = "rows" /\ Modulus \in Nat \ {0}
  BY OrderedMapAssumption DEF ReadLines
<1>1. PICK a \in 0..Modulus, ends \in BOOLEAN :
         /\ IF row = <<>> THEN ~ends ELSE a >= row[1]
         /\ ~ends => Len(program) < MaxRows /\ a < Modulus
         /\ IF row = <<>> THEN UNCHANGED <<lines, omitted>>
            ELSE AddLine(row[1], (a - row[1]) % Modulus, Len(program))
         /\ row' = IF ends THEN <<>> ELSE <<a>>
         /\ program' = LET known == IF row = <<>> THEN program
                                    ELSE [program EXCEPT ![Len(program)].end = a]
                       IN  IF ends THEN known ELSE Append(known, [address |-> a, end |-> a])
  BY DEF ReadLines
<1> DEFINE n == Len(program)
           m == Len(program')
           pending == row # <<>>
           r == row[1]
<1>2. /\ program \in Seq(RowRecords) /\ lines \in Seq(LineRecords)
      /\ \A i \in DOMAIN program : program[i].address <= program[i].end
      /\ \A j \in DOMAIN lines : LineOfRow(lines[j])
      /\ \A i, j \in DOMAIN lines : lines[i].number = lines[j].number => i = j
      /\ \A b \in Addresses : \A i \in RowsAt(b) :
            (\E j \in DOMAIN lines : lines[j].number = i) \/ MayBeDropped(b)
  BY DEF LinesInv, ProgramInv
<1>3. /\ omitted \in Addresses
      /\ \A b \in Addresses : b < omitted => RowsAt(b) # {}
      /\ pending => /\ n > 0 /\ r = program[n].address /\ program[n].end = r
                    /\ \A j \in DOMAIN lines : lines[j].number < n
  BY <1>0 DEF LinesInv, PendingInv
<1>4. n \in Nat /\ DOMAIN program = 1..n /\ a \in Nat /\ a <= Modulus
  BY <1>0, <1>2
<1>5. pending => r \in Addresses /\ r <= a
  <2> SUFFICES ASSUME pending PROVE r \in Addresses /\ r <= a
    OBVIOUS
  <2>1. n \in DOMAIN program /\ r = program[n].address
    BY <1>3, <1>4
  <2>2. program[n] \in RowRecords
    BY <1>2, <2>1
  <2>3. program[n].address \in Addresses
    BY <2>2 DEF RowRecords
  <2>4. a >= r
    BY <1>1
  <2> QED BY <1>4, <2>1, <2>3, <2>4 DEF Addresses
<1> DEFINE known == IF row = <<>> THEN program ELSE [program EXCEPT ![Len(program)].end = a]
<1>6. /\ known \in Seq(RowRecords) /\ Len(known) = n
      /\ \A i \in 1..n : known[i] = IF pending /\ i = n THEN [address |-> r, end |-> a]
                                    ELSE program[i]
  <2>1. CASE row = <<>>
    BY <1>2, <1>4, <2>1
  <2>2. CASE pending
    <3>1. n \in 1..n /\ program[n] \in RowRecords
      BY <1>2, <1>3, <1>4, <2>2
    <3>2. [program[n] EXCEPT !.end = a] = [address |-> r, end |-> a]
      BY <1>3, <2>2, <3>1 DEF RowRecords
    <3>3. known = [program EXCEPT ![n] = [address |-> r, end |-> a]]
      BY <2>2, <3>2
    <3>4. [address |-> r, end |-> a] \in RowRecords
      BY <1>4, <1>5, <2>2 DEF RowRecords
    <3> QED BY <1>2, <1>4, <2>2, <3>1, <3>3, <3>4
  <2> QED BY <2>1, <2>2
<1>7. program' = IF ends THEN known ELSE Append(known, [address |-> a, end |-> a])
  BY <1>1
<1> HIDE DEF known, r, pending, n
<1>8. /\ program' \in Seq(RowRecords)
      /\ m = IF ends THEN n ELSE n + 1
      /\ DOMAIN program' = 1..m
      /\ \A i \in 1..n : program'[i] = IF pending /\ i = n THEN [address |-> r, end |-> a]
                                       ELSE program[i]
      /\ ~ends => program'[n + 1] = [address |-> a, end |-> a]
  <2>1. CASE ends
    BY <1>4, <1>6, <1>7, <2>1
  <2>2. CASE ~ends
    <3>1. [address |-> a, end |-> a] \in RowRecords
      BY <1>0, <1>1, <1>4, <2>2 DEF RowRecords, Addresses
    <3> QED BY <1>4, <1>6, <1>7, <2>2, <3>1
  <2> QED BY <2>1, <2>2
<1> HIDE DEF m
<1>9. ASSUME NEW i \in 1..n, NEW b \in Addresses
      PROVE  i \in RowsAt(b)' <=> i \in RowsAt(b) \/ (pending /\ i = n /\ r <= b /\ b < a)
  <2>1. i \in DOMAIN program /\ i \in DOMAIN program'
    BY <1>4, <1>8
  <2>2. i \in RowsAt(b) <=> program[i].address <= b /\ b < program[i].end
    BY <2>1 DEF RowsAt
  <2>3. i \in RowsAt(b)' <=> program'[i].address <= b /\ b < program'[i].end
    BY <2>1 DEF RowsAt
  <2>4. CASE pending /\ i = n
    <3>1. program'[i] = [address |-> r, end |-> a]
      BY <1>8, <2>4
    <3>2. ~(i \in RowsAt(b))
      BY <1>3, <1>5, <2>2, <2>4 DEF Addresses
    <3> QED BY <2>3, <2>4, <3>1, <3>2
  <2>5. CASE ~(pending /\ i = n)
    <3>1. program'[i] = program[i]
      BY <1>8, <2>5
    <3> QED BY <2>2, <2>3, <2>5, <3>1, Zenon
  <2> QED BY <2>4, <2>5
<1>10. ASSUME NEW b \in Addresses, NEW i \in RowsAt(b)' PROVE i \in 1..n
  <2>1. i \in 1..m /\ program'[i].address <= b /\ b < program'[i].end
    BY <1>8, <1>10 DEF RowsAt
  <2>2. ~ends => i # n + 1
    <3>1. ~ends /\ i = n + 1 => a <= b /\ b < a
      BY <1>8, <2>1
    <3> QED BY <1>4, <3>1 DEF Addresses
  <2> QED BY <1>4, <1>8, <2>1, <2>2
<1>11. ASSUME NEW b \in Addresses, RowsAt(b) # {} PROVE RowsAt(b)' # {}
  <2>1. PICK i \in RowsAt(b) : TRUE
    BY <1>11
  <2>2. i \in 1..n
    BY <1>4, <2>1 DEF RowsAt
  <2> QED BY <1>9, <2>1, <2>2
<1>12. ASSUME pending, NEW b \in Addresses, r <= b, b < a PROVE n \in RowsAt(b)'
  <2>1. n \in 1..n
    BY <1>3, <1>4, <1>12
  <2> QED BY <1>9, <1>12, <2>1
<1>13. ASSUME NEW b \in Addresses, MayBeDropped(b) PROVE MayBeDropped(b)'
  <2>1. \A c \in 0..b : c \in Addresses
    BY <1>0 DEF Addresses
  <2> QED BY <1>11, <1>13, <2>1 DEF MayBeDropped
<1>14. \/ ~pending /\ UNCHANGED <<lines, omitted>>
       \/ /\ pending
          /\ r = a \/ (r = 0 /\ a = Modulus)
          /\ UNCHANGED <<lines, omitted>>
       \/ /\ pending /\ r < a
          /\ r = 0 \/ r = omitted
          /\ omitted' = a % Modulus /\ lines' = lines
       \/ /\ pending /\ 0 < r /\ r < a /\ omitted' = 0
          /\ lines' = Append(lines, [address |-> r, size |-> a - r, number |-> n])
  <2>1. CASE ~pending
    BY <1>1, <2>1 DEF pending
  <2>2. CASE pending
    <3>1. AddLine(r, (a - r) % Modulus, n)
      BY <1>1, <2>2 DEF pending, r, n
    <3> QED BY <1>5, <2>2, <3>1, AddLineIs
  <2> QED BY <2>1, <2>2
<1>15. Len(lines) \in Nat /\ DOMAIN lines = 1..Len(lines)
  BY <1>2
<1>16. ASSUME NEW j \in DOMAIN lines
       PROVE  /\ lines[j].number \in 1..n /\ lines[j].number \in DOMAIN program'
              /\ ~(pending /\ lines[j].number = n)
              /\ program'[lines[j].number] = program[lines[j].number]
  <2>1. lines[j].number \in 1..n
    BY <1>2, <1>4 DEF LineOfRow
  <2>2. ~(pending /\ lines[j].number = n)
    BY <1>3, <1>4, <2>1
  <2>3. program'[lines[j].number] = program[lines[j].number]
    BY <1>8, <2>1, <2>2
  <2>4. lines[j].number \in 1..m
    BY <1>4, <1>8, <2>1
  <2> QED BY <1>8, <2>1, <2>2, <2>3, <2>4
\* What becomes of a line that there was.
<1>17. ASSUME NEW j \in DOMAIN lines, NEW i \in DOMAIN lines', lines'[i] = lines[j]
       PROVE  LineOfRow(lines[i])'
  <2>1. LineOfRow(lines[j])
    BY <1>2
  <2> DEFINE l == lines[j]
  <2>2. /\ l.address = program'[l.number].address /\ l.number \in DOMAIN program'
        /\ 0 < l.address /\ 0 < l.size /\ Until(l) = program'[l.number].end
    BY <1>16, <2>1 DEF LineOfRow
  <2> HIDE DEF l
  <2>3. lines'[i] = l
    BY <1>17 DEF l
  <2> QED BY <2>2, <2>3 DEF LineOfRow, Until
<1>18. lines' = lines \/ (pending /\ 0 < r /\ r < a
            /\ lines' = Append(lines, [address |-> r, size |-> a - r, number |-> n]))
  BY <1>14
<1> DEFINE new == [address |-> r, size |-> a - r, number |-> n]
           more == pending /\ 0 < r /\ r < a /\ lines' = Append(lines, new)
<1>19. ASSUME more
       PROVE  /\ new \in LineRecords /\ n \in 1..n
              /\ lines' \in Seq(LineRecords) /\ Len(lines') = Len(lines) + 1
              /\ DOMAIN lines' = 1 .. Len(lines) + 1
              /\ \A j \in 1..Len(lines) : lines'[j] = lines[j]
              /\ lines'[Len(lines) + 1] = new
  <2>1. new \in LineRecords
    <3>1. r \in Addresses /\ a - r \in Addresses
      BY <1>0, <1>4, <1>5, <1>19 DEF Addresses
    <3> QED BY <1>4, <3>1 DEF LineRecords
  <2>2. n \in 1..n
    BY <1>3, <1>4, <1>19
  <2> HIDE DEF new
  <2> QED BY <1>2, <1>15, <1>19, <2>1, <2>2
<1> HIDE DEF new
<1>20. lines' \in Seq(LineRecords)
  BY <1>2, <1>18, <1>19 DEF new
<1>21. \A i \in DOMAIN program' : program'[i].address <= program'[i].end
  <2> TAKE i \in DOMAIN program'
  <2>1. CASE i = n + 1 /\ ~ends
    BY <1>4, <1>8, <2>1
  <2>2. CASE pending /\ i = n
    <3>1. i \in 1..n
      BY <1>3, <1>4, <2>2
    <3> QED BY <1>5, <1>8, <2>2, <3>1
  <2>3. CASE ~(i = n + 1 /\ ~ends) /\ ~(pending /\ i = n)
    <3>1. i \in 1..n
      BY <1>4, <1>8, <2>3
    <3> QED BY <1>2, <1>4, <1>8, <2>3, <3>1
  <2> QED BY <2>1, <2>2, <2>3
<1>22. \A j \in DOMAIN lines' : LineOfRow(lines[j])'
  <2>1. CASE lines' = lines
    BY <1>17, <2>1
  <2>2. CASE more
    <3> SUFFICES ASSUME NEW j \in DOMAIN lines' PROVE LineOfRow(lines[j])'
      OBVIOUS
    <3>1. CASE j \in 1..Len(lines)
      BY <1>15, <1>17, <1>19, <2>2, <3>1
    <3>2. CASE j = Len(lines) + 1
      <4>1. lines'[j] = new /\ n \in 1..n
        BY <1>19, <2>2, <3>2
      <4>2. program'[n] = [address |-> r, end |-> a] /\ n \in DOMAIN program'
        BY <1>4, <1>8, <2>2, <4>1
      <4>3. /\ new.number = n /\ new.address = r /\ new.size = a - r /\ 0 < r /\ r < a
            /\ r + (a - r) = a /\ 0 < a - r
        BY <1>4, <1>5, <2>2 DEF new, Addresses
      <4> QED BY <4>1, <4>2, <4>3 DEF LineOfRow, Until
    <3> QED BY <1>15, <1>19, <2>2, <3>1, <3>2
  <2> QED BY <1>18, <2>1, <2>2 DEF new
<1>23. \A i, j \in DOMAIN lines' : lines'[i].number = lines'[j].number => i = j
  <2>1. CASE lines' = lines
    BY <1>2, <2>1
  <2>2. CASE more
    <3>1. \A j \in 1..Len(lines) : lines'[j].number # n
      BY <1>15, <1>16, <1>19, <2>2
    <3>2. lines'[Len(lines) + 1].number = n
      BY <1>19, <2>2 DEF new
    <3>3. \A i, j \in 1..Len(lines) : lines'[i].number = lines'[j].number => i = j
      BY <1>2, <1>15, <1>19, <2>2
    <3> QED BY <1>15, <1>19, <2>2, <3>1, <3>2, <3>3
  <2> QED BY <1>18, <2>1, <2>2 DEF new
\* Where the last row is dropped there are rows from address 0 on.
<1>24. ASSUME pending, r < a,
              r = 0 \/ r = omitted,
              NEW b \in Addresses, b < a
       PROVE  RowsAt(b)' # {}
  <2>1. CASE r <= b
    BY <1>12, <1>24, <2>1
  <2>2. CASE b < r
    <3>1. b < omitted
      BY <1>24, <2>2 DEF Addresses
    <3> QED BY <1>3, <1>11, <3>1
  <2> QED BY <1>5, <1>24, <2>1, <2>2 DEF Addresses
<1>25. ASSUME NEW b \in Addresses, NEW i \in RowsAt(b)'
       PROVE  (\E j \in DOMAIN lines' : lines'[j].number = i) \/ MayBeDropped(b)'
  <2>0. i \in 1..n
    BY <1>10
  <2>1. CASE i \in RowsAt(b)
    <3>1. CASE \E j \in DOMAIN lines : lines[j].number = i
      <4>1. PICK j \in DOMAIN lines : lines[j].number = i
        BY <3>1
      <4>2. j \in DOMAIN lines' /\ lines'[j] = lines[j]
        BY <1>15, <1>18, <1>19 DEF new
      <4> QED BY <4>1, <4>2
    <3>2. CASE MayBeDropped(b)
      BY <1>13, <3>2
    <3> QED BY <1>2, <2>1, <3>1, <3>2
  <2>2. CASE pending /\ i = n /\ r <= b /\ b < a
    <3>1. \A c \in 0..b : c \in Addresses /\ c < a /\ c <= b
      BY <1>0, <1>4, <2>2 DEF Addresses
    <3>2. r \in Nat /\ b \in Nat
      BY <1>0, <1>5, <2>2 DEF Addresses
    <3>3. CASE r = 0 /\ a = Modulus
      <4>1. \A c \in 0..b : RowsAt(c)' # {}
        BY <1>12, <2>2, <3>1, <3>3
      <4> QED BY <4>1 DEF MayBeDropped
    <3>4. CASE r < a /\ (r = 0 \/ r = omitted)
      <4>1. \A c \in 0..b : RowsAt(c)' # {}
        BY <1>24, <2>2, <3>1, <3>4
      <4> QED BY <4>1 DEF MayBeDropped
    <3>5. CASE more
      <4>1. Len(lines) + 1 \in DOMAIN lines' /\ lines'[Len(lines) + 1].number = i
        BY <1>15, <1>19, <2>2, <3>5 DEF new
      <4> QED BY <4>1
    <3>6. r # a
      BY <1>4, <2>2, <3>2
    <3> QED BY <1>14, <2>2, <3>3, <3>4, <3>5, <3>6 DEF new
  <2> QED BY <1>9, <2>0, <2>1, <2>2
<1>26. ProgramInv'
  BY <1>8, <1>20, <1>21, <1>22, <1>23, <1>25 DEF ProgramInv
<1>27. /\ omitted' \in Addresses
       /\ \A b \in Addresses : b < omitted' => RowsAt(b)' # {}
  <2>1. CASE omitted' = omitted
    BY <1>3, <1>11, <2>1
  <2>2. CASE pending /\ r < a /\ (r = 0 \/ r = omitted) /\ omitted' = a % Modulus
    <3>1. a % Modulus \in Addresses /\ a % Modulus <= a
      BY <1>0, <1>4 DEF Addresses
    <3>2. \A b \in Addresses : b < a % Modulus => b < a
      BY <1>4, <3>1 DEF Addresses
    <3> QED BY <1>24, <2>2, <3>1, <3>2
  <2>3. CASE omitted' = 0
    BY <1>0, <2>3 DEF Addresses
  <2> QED BY <1>14, <2>1, <2>2, <2>3
<1>28. ASSUME row' # <<>>
       PROVE  /\ m > 0 /\ row' = <<program'[m].address>> /\ program'[m].end = program'[m].address
              /\ \A j \in DOMAIN lines' : lines'[j].number < m
  <2>1. ~ends /\ row' = <<a>>
    BY <1>1, <1>28
  <2>2. m = n + 1 /\ program'[m] = [address |-> a, end |-> a] /\ m > 0
    BY <1>4, <1>8, <2>1
  <2>3. ASSUME NEW j \in DOMAIN lines' PROVE lines'[j].number < m
    <3>1. CASE j \in DOMAIN lines /\ lines'[j] = lines[j]
      BY <1>4, <1>16, <2>2, <3>1
    <3>2. CASE more /\ j = Len(lines) + 1
      BY <1>4, <1>19, <2>2, <3>2 DEF new
    <3> QED BY <1>15, <1>18, <1>19, <3>1, <3>2 DEF new
  <2> QED BY <2>1, <2>2, <2>3
<1>29. PendingInv'
  BY <1>27, <1>28 DEF PendingInv, m
<1> QED BY <1>26, <1>29

-----------------------------------------------------------------------------
(* DwarfLines: the functions and the lines, in order. *)

\* Sorting lines changes none, and the pass begins where neither iterator has passed anything.
LEMMA SortKeeps ==
    ASSUME LinesInv, SortBoth
    PROVE  LinesInv'
<1>0. Modulus \in Nat \ {0} /\ phase' = "assign" /\ func' = 1 /\ line' = 1
      /\ UNCHANGED program /\ row' = row
  BY OrderedMapAssumption DEF SortBoth
<1>22. PICK n \in 0..MaxFunctions : \E fs \in [1..n -> Functions] :
         /\ Sorted(fs)
         /\ functions' = [i \in 1..n |-> [address |-> fs[i].address, size |-> fs[i].size,
                                          name |-> i, lines |-> <<>>]]
  BY DEF SortBoth
<1>1. PICK fs \in [1..n -> Functions] :
         /\ Sorted(fs)
         /\ functions' = [i \in 1..n |-> [address |-> fs[i].address, size |-> fs[i].size,
                                          name |-> i, lines |-> <<>>]]
  BY <1>22
<1>2. PICK order \in Bijection(DOMAIN lines, DOMAIN lines) :
         /\ lines' = [i \in DOMAIN lines |-> lines[order[i]]]
         /\ Sorted(lines')
  BY DEF SortBoth
<1>3. /\ order \in [DOMAIN lines -> DOMAIN lines]
      /\ \A j \in DOMAIN lines : \E i \in DOMAIN lines : order[i] = j
      /\ \A i, j \in DOMAIN lines : order[i] = order[j] => i = j
  BY <1>2 DEF Bijection, Injection, Surjection, IsInjective
<1>4. /\ program \in Seq(RowRecords) /\ lines \in Seq(LineRecords)
      /\ \A i \in DOMAIN program : program[i].address <= program[i].end
      /\ \A j \in DOMAIN lines : LineOfRow(lines[j])
      /\ \A i, j \in DOMAIN lines : lines[i].number = lines[j].number => i = j
      /\ \A b \in Addresses : \A i \in RowsAt(b) :
            (\E j \in DOMAIN lines : lines[j].number = i) \/ MayBeDropped(b)
  BY DEF LinesInv, ProgramInv
<1>5. /\ DOMAIN lines = 1..Len(lines) /\ Len(lines) \in Nat
      /\ \A i \in DOMAIN lines : lines[i] \in LineRecords
  BY <1>4
<1>6. /\ DOMAIN lines' = DOMAIN lines
      /\ \A i \in DOMAIN lines : order[i] \in DOMAIN lines /\ lines'[i] = lines[order[i]]
  BY <1>2, <1>3
<1>7. lines' \in Seq(LineRecords) /\ Len(lines') = Len(lines)
  <2>1. \A i \in 1..Len(lines) : lines[order[i]] \in LineRecords
    BY <1>5, <1>6
  <2>2. lines' = [i \in 1..Len(lines) |-> lines[order[i]]]
    BY <1>2, <1>5
  <2> QED BY <1>5, <2>1, <2>2
<1>8. ProgramInv'
  <2>1. ASSUME NEW j \in DOMAIN lines' PROVE LineOfRow(lines[j])'
    <3>1. LineOfRow(lines[order[j]]) /\ lines'[j] = lines[order[j]]
      BY <1>4, <1>6
    <3> QED BY <1>0, <3>1 DEF LineOfRow, Until
  <2>2. ASSUME NEW i \in DOMAIN lines', NEW j \in DOMAIN lines',
               lines'[i].number = lines'[j].number
        PROVE  i = j
    <3>1. i \in DOMAIN lines /\ j \in DOMAIN lines
      BY <1>6
    <3>2. /\ order[i] \in DOMAIN lines /\ order[j] \in DOMAIN lines
          /\ lines[order[i]].number = lines[order[j]].number
      BY <1>6, <2>2, <3>1
    <3>3. order[i] = order[j]
      BY <1>4, <3>2
    <3> QED BY <1>3, <3>1, <3>3
  <2>3. ASSUME NEW b \in Addresses, NEW i \in RowsAt(b)'
        PROVE  (\E j \in DOMAIN lines' : lines'[j].number = i) \/ MayBeDropped(b)'
    <3>1. \A c : RowsAt(c)' = RowsAt(c)
      BY <1>0 DEF RowsAt
    <3>2. MayBeDropped(b)' <=> MayBeDropped(b)
      BY <3>1 DEF MayBeDropped
    <3>3. ASSUME NEW j \in DOMAIN lines, lines[j].number = i
          PROVE  \E k \in DOMAIN lines' : lines'[k].number = i
      <4>1. PICK k \in DOMAIN lines : order[k] = j
        BY <1>3
      <4> QED BY <1>6, <3>3, <4>1
    <3> QED BY <1>4, <3>1, <3>2, <3>3
  <2> QED BY <1>0, <1>4, <1>7, <2>1, <2>2, <2>3 DEF ProgramInv
\* The functions.
<1>9. n \in Nat /\ \A i \in 1..n : fs[i] \in Functions
  BY DwarfLinesAssumption
<1>10. /\ DOMAIN functions' = 1..n
       /\ \A i \in 1..n : functions'[i] = [address |-> fs[i].address, size |-> fs[i].size,
                                           name |-> i, lines |-> <<>>]
  BY <1>1
<1>11. ASSUME NEW i \in 1..n
       PROVE  /\ fs[i].address \in Addresses /\ fs[i].size \in 1 .. Modulus - 1
              /\ fs[i].address + fs[i].size < Modulus
  BY <1>9 DEF Functions
<1>12. ASSUME NEW i \in 1..n
       PROVE  /\ functions'[i] \in FunctionRecords
              /\ functions'[i].lines = <<>> /\ functions'[i].address = fs[i].address
              /\ 0 < functions'[i].size /\ Until(functions'[i]) < Modulus
  <2> DEFINE f == [address |-> fs[i].address, size |-> fs[i].size, name |-> i, lines |-> <<>>]
  <2>1. /\ fs[i].address \in Addresses /\ fs[i].size \in Addresses /\ 0 < fs[i].size
        /\ i \in Nat /\ <<>> \in Seq(LineRecords)
    BY <1>0, <1>9, <1>11 DEF Addresses
  <2>2. f \in FunctionRecords
    BY <2>1 DEF FunctionRecords
  <2> QED BY <1>10, <1>11, <2>1, <2>2 DEF Until
<1>13. functions' \in Seq(FunctionRecords) /\ Len(functions') = n
  <2>1. functions' = [i \in 1..n |-> functions'[i]]
    BY <1>1
  <2>2. [i \in 1..n |-> functions'[i]] \in Seq(FunctionRecords)
    BY <1>9, <1>12
  <2>3. functions' \in Seq(FunctionRecords)
    BY <2>1, <2>2, Zenon
  <2> QED BY <1>9, <1>10, <2>3
<1>14. FunctionInv' /\ PieceInv'
  <2>1. FunctionInv'
    BY <1>10, <1>12, <1>13 DEF FunctionInv
  <2>2. PieceInv'
    BY <1>10, <1>12 DEF PieceInv, Apart
  <2> QED BY <2>1, <2>2
\* Where it begins.
<1> DEFINE T == {functions'[i].address : i \in DOMAIN functions'}
                \cup {lines'[i].address : i \in DOMAIN lines'} \cup {End}
<1>15. current' = Least(T)
  BY DEF SortBoth
<1>16. /\ \A i \in DOMAIN functions' : functions'[i].address \in Addresses
       /\ \A i \in DOMAIN lines' : lines'[i].address \in Addresses
  <2>1. \A i \in DOMAIN lines' : lines'[i] \in LineRecords
    BY <1>5, <1>6
  <2> QED BY <1>10, <1>11, <1>12, <2>1 DEF LineRecords
<1>17. /\ current' \in 0..Modulus
       /\ \A i \in DOMAIN functions' : current' <= functions'[i].address
       /\ \A i \in DOMAIN lines' : current' <= lines'[i].address
  <2>1. T \subseteq 0..Modulus /\ T # {}
    BY <1>0, <1>16 DEF End, Addresses
  <2>2. /\ \A i \in DOMAIN functions' : functions'[i].address \in T
        /\ \A i \in DOMAIN lines' : lines'[i].address \in T
    OBVIOUS
  <2> HIDE DEF T
  <2>3. Least(T) \in T /\ \A y \in T : Least(T) <= y
    <3>1. T \subseteq Nat
      BY <1>0, <2>1
    <3> QED BY <2>1, <3>1, LeastExists
  <2> QED BY <1>15, <2>1, <2>2, <2>3
<1>18. Passed(functions, func)'
  <2>1. 1 <= n => current' < Until(functions'[1])
    <3> SUFFICES ASSUME 1 <= n PROVE current' < Until(functions'[1])
      OBVIOUS
    <3>1. 1 \in 1..n
      BY <1>9
    <3>2. /\ functions'[1].address \in Addresses /\ functions'[1].size \in Nat
          /\ 0 < functions'[1].size /\ current' <= functions'[1].address
      BY <1>0, <1>10, <1>12, <1>16, <1>17, <3>1 DEF FunctionRecords, Addresses
    <3> QED BY <1>0, <1>17, <3>2 DEF Until, Addresses
  <2> QED BY <1>0, <1>9, <1>13, <2>1 DEF Passed
<1>19. Passed(lines, line)'
  <2>1. 1 <= Len(lines) => current' < Until(lines'[1])
    <3> SUFFICES ASSUME 1 <= Len(lines) PROVE current' < Until(lines'[1])
      OBVIOUS
    <3>1. 1 \in DOMAIN lines
      BY <1>5
    <3>2. LineOfRow(lines[order[1]]) /\ lines'[1] = lines[order[1]] /\ lines[order[1]] \in LineRecords
      BY <1>4, <1>5, <1>6, <3>1
    <3>3. lines'[1].address \in Addresses /\ lines'[1].size \in Nat /\ 0 < lines'[1].size
      BY <1>0, <3>2 DEF LineRecords, LineOfRow, Addresses
    <3>4. current' \in Nat /\ current' <= lines'[1].address
      BY <1>0, <1>6, <1>17, <3>1 DEF Addresses
    <3> DEFINE low == lines'[1].address
               span == lines'[1].size
    <3>5. low \in Nat /\ span \in Nat /\ 0 < span /\ current' <= low
      BY <1>0, <3>3, <3>4 DEF Addresses
    <3>6. Until(lines'[1]) = low + span
      BY DEF Until
    <3> HIDE DEF low, span
    <3> QED BY <3>4, <3>5, <3>6
  <2> QED BY <1>0, <1>5, <1>7, <2>1 DEF Passed
<1>20. AssignInv'
  <2>1. Sorted(functions)'
    BY <1>1, <1>10, <1>12 DEF Sorted
  <2>2. Sorted(lines)'
    BY <1>2
  <2> QED BY <1>17, <1>18, <1>19, <2>1, <2>2 DEF AssignInv
<1>21. CoverInv'
  <2> SUFFICES ASSUME NEW a \in Addresses, NEW i \in DOMAIN functions',
                      functions'[i].address <= a, a < current'
               PROVE  FALSE
    BY <1>0 DEF CoverInv, Inside
  <2> QED BY <1>0, <1>16, <1>17 DEF Addresses
<1> QED BY <1>0, <1>8, <1>14, <1>20, <1>21 DEF LinesInv, PendingInv

-----------------------------------------------------------------------------
(* DwarfLines: the transitions. *)

\* An iterator is at an item that has begun if the current address is in it; else nothing
\* from here up to where it begins, and if items do not overlap nothing else up to its end,
\* is in an item.
LEMMA IteratorIs ==
    ASSUME NEW S, NEW items \in Seq(S), Fit(items), Sorted(items), NEW i, Passed(items, i),
           current \in Addresses
    PROVE  /\ Begun(items, i) <=> i \in DOMAIN items /\ Inside(items[i], current)
           /\ i \in DOMAIN items <=> i <= Len(items)
           /\ \A a \in Addresses : \A j \in DOMAIN items :
                 current <= a /\ Inside(items[j], a) =>
                    /\ i \in DOMAIN items /\ items[i].address <= a
                    /\ Begun(items, i) /\ Apart(items) /\ a < Until(items[i]) => j = i
<1>1. /\ Len(items) \in Nat /\ DOMAIN items = 1..Len(items) /\ i \in 1 .. Len(items) + 1
      /\ \A j \in 1 .. i - 1 : Until(items[j]) <= current
      /\ i <= Len(items) => current < Until(items[i])
  BY DEF Passed
<1>2. i \in DOMAIN items <=> i <= Len(items)
  BY <1>1
<1>3. Begun(items, i) <=> i \in DOMAIN items /\ Inside(items[i], current)
  <2>1. Begun(items, i) <=> i <= Len(items) /\ current >= items[i].address
    BY DEF Begun
  <2>2. i \in DOMAIN items => items[i].address \in Nat
    BY DEF Fit
  <2>3. current \in Nat
    BY OrderedMapAssumption DEF Addresses
  <2> QED BY <1>1, <1>2, <2>1, <2>2, <2>3 DEF Inside
<1>4. ASSUME NEW a \in Addresses, NEW j \in DOMAIN items, current <= a, Inside(items[j], a)
      PROVE  /\ i \in DOMAIN items /\ items[i].address <= a
             /\ Begun(items, i) /\ Apart(items) /\ a < Until(items[i]) => j = i
  <2>1. /\ items[j].address \in Nat /\ Until(items[j]) \in Nat /\ a \in Nat /\ current \in Nat
        /\ items[j].address <= a /\ a < Until(items[j])
    BY <1>4, OrderedMapAssumption DEF Fit, Until, Inside, Addresses
  <2>2. ~(j \in 1 .. i - 1)
    BY <1>1, <1>4, <2>1
  <2>3. i <= j /\ i \in DOMAIN items
    BY <1>1, <2>2
  <2>4. items[i].address \in Nat /\ Until(items[i]) \in Nat
    BY <2>3 DEF Fit, Until
  <2>5. items[i].address <= items[j].address
    <3>1. i < j => items[i].address <= items[j].address
      BY <2>3 DEF Sorted
    <3>2. i = j => items[i].address <= items[j].address
      BY <2>1
    <3> QED BY <1>1, <2>3, <3>1, <3>2
  <2>6. ASSUME Apart(items), a < Until(items[i]) PROVE j = i
    <3>1. i < j => Until(items[i]) <= items[j].address
      BY <2>3, <2>6 DEF Apart
    <3>2. ~(i < j)
      BY <2>1, <2>4, <2>6, <3>1
    <3> QED BY <1>1, <2>3, <3>2
  <2> QED BY <2>1, <2>3, <2>4, <2>5, <2>6
<1>5. \A a \in Addresses : \A j \in DOMAIN items :
         current <= a /\ Inside(items[j], a) =>
            /\ i \in DOMAIN items /\ items[i].address <= a
            /\ Begun(items, i) /\ Apart(items) /\ a < Until(items[i]) => j = i
  BY <1>4, Zenon
<1> QED BY <1>2, <1>3, <1>5, Zenon

\* What is left of an item at an address in it.
LEMMA LeftIs ==
    ASSUME NEW item, item.address \in Nat, item.size \in Addresses, Until(item) <= Modulus,
           current \in Addresses, Inside(item, current)
    PROVE  Left(item) = Until(item) - current /\ Left(item) \in Nat \ {0}
<1> DEFINE b == item.address
           s == item.size
           d == s - (current - b)
<1>1. /\ b \in Nat /\ s \in Nat /\ s < Modulus /\ current \in Nat /\ b <= current
      /\ current < b + s /\ Modulus \in Nat \ {0}
  BY OrderedMapAssumption DEF Addresses, Inside, Until
<1>2. Left(item) = d % Modulus /\ Until(item) = b + s
  BY DEF Left, Until
<1> HIDE DEF b, s
<1>3. d \in Nat \ {0} /\ d < Modulus /\ d = b + s - current
  BY <1>1
<1> HIDE DEF d
<1>4. d % Modulus = d
  BY <1>1, <1>3
<1>5. Left(item) = d
  BY <1>2, <1>4
<1> QED BY <1>1, <1>2, <1>3, <1>5

\* In an assignment that is not over.
LEMMA AssignmentIs ==
    ASSUME LinesInv, phase = "assign", func <= Len(functions) \/ line <= Len(lines)
    PROVE  /\ functions \in Seq(FunctionRecords) /\ lines \in Seq(LineRecords)
           /\ Fit(functions) /\ Fit(lines)
           /\ \A i \in DOMAIN functions :
                 functions[i].size \in Addresses /\ Until(functions[i]) < Modulus
           /\ \A j \in DOMAIN lines : lines[j].size \in Addresses
           /\ Sorted(functions) /\ Sorted(lines) /\ Passed(functions, func) /\ Passed(lines, line)
           /\ current \in Addresses
<1>1. /\ functions \in Seq(FunctionRecords) /\ lines \in Seq(LineRecords)
      /\ program \in Seq(RowRecords)
      /\ Sorted(functions) /\ Sorted(lines) /\ Passed(functions, func) /\ Passed(lines, line)
      /\ current \in 0..Modulus
  BY DEF LinesInv, ProgramInv, FunctionInv, AssignInv
<1>2. ASSUME NEW i \in DOMAIN functions
      PROVE  /\ functions[i].address \in Nat /\ functions[i].size \in Addresses
             /\ functions[i].size \in Nat \ {0} /\ Until(functions[i]) < Modulus
             /\ Until(functions[i]) \in Nat
  <2>1. functions[i] \in FunctionRecords
    BY <1>1
  <2>2. functions[i].address \in Addresses /\ functions[i].size \in Addresses
    BY <2>1 DEF FunctionRecords
  <2>3. 0 < functions[i].size /\ Until(functions[i]) < Modulus
    BY DEF LinesInv, FunctionInv
  <2> QED BY <2>2, <2>3, OrderedMapAssumption DEF Addresses, Until
<1>3. ASSUME NEW j \in DOMAIN lines
      PROVE  /\ lines[j].address \in Nat /\ lines[j].size \in Addresses
             /\ lines[j].size \in Nat \ {0} /\ Until(lines[j]) <= Modulus
             /\ Until(lines[j]) \in Nat
  <2>1. lines[j] \in LineRecords /\ LineOfRow(lines[j])
    BY <1>1 DEF LinesInv, ProgramInv
  <2>2. lines[j].address \in Addresses /\ lines[j].size \in Addresses
    BY <2>1 DEF LineRecords
  <2>3. /\ lines[j].number \in DOMAIN program /\ 0 < lines[j].size
        /\ Until(lines[j]) = program[lines[j].number].end
    BY <2>1 DEF LineOfRow
  <2>4. program[lines[j].number].end \in 0..Modulus
    <3>1. program[lines[j].number] \in RowRecords
      BY <1>1, <2>3
    <3> QED BY <3>1 DEF RowRecords
  <2> QED BY <2>2, <2>3, <2>4, OrderedMapAssumption DEF Addresses
<1>4. Fit(functions) /\ Fit(lines)
  BY <1>2, <1>3, OrderedMapAssumption DEF Fit
<1>5. current \in Addresses
  <2>1. CASE func <= Len(functions)
    <3>1. func \in DOMAIN functions /\ current < Until(functions[func])
      BY <1>1, <2>1 DEF Passed
    <3> QED BY <1>1, <1>2, <3>1, OrderedMapAssumption DEF Addresses
  <2>2. CASE line <= Len(lines)
    <3>1. line \in DOMAIN lines /\ current < Until(lines[line])
      BY <1>1, <2>2 DEF Passed
    <3> QED BY <1>1, <1>3, <3>1, OrderedMapAssumption DEF Addresses
  <2> QED BY <2>1, <2>2
<1> QED BY <1>1, <1>2, <1>3, <1>4, <1>5

\* The next transition is above, or at the end of the address space; when both a function
\* and a line have begun both go on up to there; and otherwise nothing is in both before it.
LEMMA NextIs ==
    ASSUME LinesInv, phase = "assign", func <= Len(functions) \/ line <= Len(lines)
    PROVE  LET next == NextTransition
               both == Begun(functions, func) /\ Begun(lines, line)
           IN  /\ FirstInvariant
               /\ next \in Addresses
               /\ next = 0 \/ current < next
               /\ both => /\ func \in DOMAIN functions /\ line \in DOMAIN lines
                          /\ Inside(functions[func], current) /\ Inside(lines[line], current)
                          /\ current < next
                          /\ next <= Until(functions[func]) /\ next <= Until(lines[line])
               /\ Apart(functions) /\ Apart(lines) =>
                     \A a \in Addresses : \A i \in DOMAIN functions, j \in DOMAIN lines :
                        /\ current <= a /\ Inside(functions[i], a) /\ Inside(lines[j], a)
                        /\ next = 0 \/ a < next
                        => both /\ i = func /\ j = line
<1> DEFINE f == functions[func]
           l == lines[line]
           next == NextTransition
           fb == Begun(functions, func)
           lb == Begun(lines, line)
           In(i, j, a) == current <= a /\ Inside(functions[i], a) /\ Inside(lines[j], a)
<1>1. /\ functions \in Seq(FunctionRecords) /\ lines \in Seq(LineRecords)
      /\ Fit(functions) /\ Fit(lines)
      /\ \A i \in DOMAIN functions :
            functions[i].size \in Addresses /\ Until(functions[i]) < Modulus
      /\ \A j \in DOMAIN lines : lines[j].size \in Addresses
      /\ Sorted(functions) /\ Sorted(lines) /\ Passed(functions, func) /\ Passed(lines, line)
      /\ current \in Addresses
  BY AssignmentIs
<1>2. /\ fb <=> func \in DOMAIN functions /\ Inside(f, current)
      /\ func \in DOMAIN functions <=> func <= Len(functions)
      /\ \A a \in Addresses : \A i \in DOMAIN functions :
            current <= a /\ Inside(functions[i], a) =>
               /\ func \in DOMAIN functions /\ f.address <= a
               /\ fb /\ Apart(functions) /\ a < Until(f) => i = func
  BY <1>1, IteratorIs
<1>3. /\ lb <=> line \in DOMAIN lines /\ Inside(l, current)
      /\ line \in DOMAIN lines <=> line <= Len(lines)
      /\ \A a \in Addresses : \A i \in DOMAIN lines :
            current <= a /\ Inside(lines[i], a) =>
               /\ line \in DOMAIN lines /\ l.address <= a
               /\ lb /\ Apart(lines) /\ a < Until(l) => i = line
  BY <1>1, IteratorIs
<1>4. /\ func \in DOMAIN functions =>
            /\ f.address \in Nat /\ f.size \in Nat \ {0} /\ f.size \in Addresses
            /\ Until(f) \in Nat /\ Until(f) < Modulus /\ f.address < Until(f)
            /\ ~fb => current < f.address
      /\ line \in DOMAIN lines =>
            /\ l.address \in Nat /\ l.size \in Nat \ {0} /\ l.size \in Addresses
            /\ Until(l) \in Nat /\ Until(l) <= Modulus /\ l.address < Until(l)
            /\ ~lb => current < l.address
      /\ current \in Nat /\ current < Modulus /\ Modulus \in Nat \ {0}
  <2>1. current \in Nat /\ current < Modulus /\ Modulus \in Nat \ {0}
    BY <1>1, OrderedMapAssumption DEF Addresses
  <2>2. ASSUME func \in DOMAIN functions
        PROVE  /\ f.address \in Nat /\ f.size \in Nat \ {0} /\ f.size \in Addresses
               /\ Until(f) \in Nat /\ Until(f) < Modulus /\ f.address < Until(f)
    BY <1>1, <2>2 DEF Fit, Until
  <2>3. ASSUME line \in DOMAIN lines
        PROVE  /\ l.address \in Nat /\ l.size \in Nat \ {0} /\ l.size \in Addresses
               /\ Until(l) \in Nat /\ Until(l) <= Modulus /\ l.address < Until(l)
    BY <1>1, <2>3 DEF Fit, Until
  <2>4. func \in DOMAIN functions /\ ~fb => current < f.address
    BY <1>2, <2>1, <2>2 DEF Begun
  <2>5. line \in DOMAIN lines /\ ~lb => current < l.address
    BY <1>3, <2>1, <2>3 DEF Begun
  <2> HIDE DEF f, l, fb, lb
  <2> QED BY <2>1, <2>2, <2>3, <2>4, <2>5
<1>5. FirstInvariant
  <2>1. fb => Within(f, current)
    BY <1>1, <1>2, <1>4, WithinIs
  <2>2. lb => Within(l, current)
    BY <1>1, <1>3, <1>4, WithinIs
  <2> QED BY <2>1, <2>2 DEF FirstInvariant
<1>6. \A a \in Addresses : a \in Nat /\ a < Modulus
  BY OrderedMapAssumption DEF Addresses
<1>7. \A a \in Nat : a < Modulus => a \in Addresses
  BY OrderedMapAssumption DEF Addresses
<1>8. func \in DOMAIN functions /\ line \in DOMAIN lines =>
         /\ Within(f, l.address) <=> Inside(f, l.address)
         /\ Within(l, f.address) <=> Inside(l, f.address)
  <2> SUFFICES ASSUME func \in DOMAIN functions, line \in DOMAIN lines
               PROVE  /\ Within(f, l.address) <=> Inside(f, l.address)
                      /\ Within(l, f.address) <=> Inside(l, f.address)
    OBVIOUS
  <2> HIDE DEF f, l
  <2>1. l.address \in Addresses /\ f.address \in Addresses
    BY <1>4, <1>7
  <2>2. /\ f.address \in Nat /\ f.size \in Nat /\ Until(f) <= Modulus
        /\ l.address \in Nat /\ l.size \in Nat /\ Until(l) <= Modulus
    BY <1>4
  <2>3. Within(f, l.address) <=> Inside(f, l.address)
    BY <2>1, <2>2, WithinIs
  <2>4. Within(l, f.address) <=> Inside(l, f.address)
    BY <2>1, <2>2, WithinIs
  <2> QED BY <2>3, <2>4
<1>9. next = IF fb THEN IF lb THEN (current + Least({Left(f), Left(l)})) % Modulus
                        ELSE IF line <= Len(lines) /\ Within(f, l.address) THEN l.address
                        ELSE EndOf(f)
             ELSE IF lb THEN IF func <= Len(functions) /\ Within(l, f.address) THEN f.address
                             ELSE EndOf(l)
             ELSE Least({functions[i].address : i \in {func} \cap DOMAIN functions}
                        \cup {lines[i].address : i \in {line} \cap DOMAIN lines})
  BY DEF NextTransition
\* Both have begun.
<1>10. CASE fb /\ lb
  <2>1. func \in DOMAIN functions /\ line \in DOMAIN lines /\ Inside(f, current) /\ Inside(l, current)
    BY <1>2, <1>3, <1>10
  <2>2. /\ Left(f) = Until(f) - current /\ Left(f) \in Nat \ {0}
        /\ Left(l) = Until(l) - current /\ Left(l) \in Nat \ {0}
    <3>1. current \in Addresses
      BY <1>1
    <3>2. /\ f.address \in Nat /\ f.size \in Addresses /\ Until(f) <= Modulus
          /\ l.address \in Nat /\ l.size \in Addresses /\ Until(l) <= Modulus
      BY <1>4, <2>1
    <3> HIDE DEF f, l
    <3>3. Left(f) = Until(f) - current /\ Left(f) \in Nat \ {0}
      BY <2>1, <3>1, <3>2, LeftIs
    <3>4. Left(l) = Until(l) - current /\ Left(l) \in Nat \ {0}
      BY <2>1, <3>1, <3>2, LeftIs
    <3> QED BY <3>3, <3>4
  <2> DEFINE min == Least({Left(f), Left(l)})
  <2>3. min \in {Left(f), Left(l)} /\ min <= Left(f) /\ min <= Left(l)
    <3> DEFINE U == {Left(f), Left(l)}
    <3>1. U \subseteq Nat /\ U # {}
      BY <2>2
    <3>2. Least(U) \in U /\ \A y \in U : Least(U) <= y
      <4> HIDE DEF U
      <4> QED BY <3>1, LeastExists
    <3> QED BY <3>2
  <2> HIDE DEF min, f, l, fb, lb
  <2>4. next = (current + min) % Modulus
    BY <1>9, <1>10 DEF min
  <2> HIDE DEF next
  <2>5. min \in Nat \ {0} /\ current + min <= Until(f) /\ current + min <= Until(l)
    <3> DEFINE u == Until(f)
               v == Until(l)
               p == Left(f)
               q == Left(l)
    <3>1. current \in Nat /\ u \in Nat /\ v \in Nat
      BY <1>4, <2>1
    <3>2. p = u - current /\ p \in Nat \ {0} /\ q = v - current /\ q \in Nat \ {0}
      BY <2>2
    <3>3. (min = p \/ min = q) /\ min <= p /\ min <= q
      BY <2>3
    <3> HIDE DEF u, v, p, q
    <3>4. min \in Nat \ {0} /\ current + min <= u /\ current + min <= v
      BY <3>1, <3>2, <3>3
    <3> QED BY <3>4 DEF u, v
  <2>6. next = current + min
    <3> DEFINE sum == current + min
    <3>1. sum \in Nat /\ sum < Modulus
      BY <1>4, <2>1, <2>5
    <3> HIDE DEF sum
    <3>2. sum % Modulus = sum
      BY <1>4, <3>1
    <3> QED BY <2>4, <3>2 DEF sum
  <2>7. next \in Addresses /\ current < next /\ next <= Until(f) /\ next <= Until(l)
    BY <1>4, <1>7, <2>1, <2>5, <2>6
  <2>8. ASSUME Apart(functions), Apart(lines), NEW a \in Addresses,
               NEW i \in DOMAIN functions, NEW j \in DOMAIN lines, In(i, j, a), next = 0 \/ a < next
        PROVE  i = func /\ j = line
    <3>1. a < Until(f) /\ a < Until(l)
      BY <1>4, <1>6, <2>1, <2>7, <2>8
    <3> QED BY <1>2, <1>3, <1>10, <2>8, <3>1
  <2> QED BY <1>5, <1>10, <2>1, <2>7, <2>8 DEF next, f, l, fb, lb
\* A function has, and no line.
<1>11. CASE fb /\ ~lb
  <2>1. func \in DOMAIN functions /\ Inside(f, current)
    BY <1>2, <1>11
  <2>2. f.address <= current /\ current < Until(f)
    BY <2>1 DEF Inside
  <2>3. CASE line \in DOMAIN lines /\ Within(f, l.address)
    <3>1. next = l.address
      BY <1>3, <1>9, <1>11, <2>3
    <3> HIDE DEF next, f, l, fb, lb
    <3>2. next \in Addresses /\ current < next
      BY <1>4, <1>7, <1>8, <1>11, <2>1, <2>3, <3>1 DEF Inside
    <3>3. ASSUME NEW a \in Addresses, NEW i \in DOMAIN functions, NEW j \in DOMAIN lines,
                 In(i, j, a), next = 0 \/ a < next
          PROVE  FALSE
      BY <1>3, <1>4, <1>6, <2>3, <3>1, <3>2, <3>3
    <3> QED BY <1>5, <1>11, <3>2, <3>3 DEF next, fb, lb
  <2>4. CASE ~(line \in DOMAIN lines /\ Within(f, l.address))
    <3>1. next = EndOf(f)
      BY <1>3, <1>9, <1>11, <2>4
    <3>2. EndOf(f) = Until(f) % Modulus
      BY DEF EndOf, Until
    <3> HIDE DEF next, f, l, fb, lb
    <3>3. Until(f) % Modulus = Until(f)
      <4> DEFINE u == Until(f)
      <4>1. u \in Nat /\ u < Modulus /\ Modulus \in Nat \ {0}
        BY <1>4, <2>1
      <4> HIDE DEF u
      <4>2. u % Modulus = u
        BY <4>1
      <4> QED BY <4>2 DEF u
    <3>4. next = Until(f) /\ next \in Addresses /\ current < next
      BY <1>4, <1>7, <2>1, <2>2, <3>1, <3>2, <3>3
    <3>5. ASSUME NEW a \in Addresses, NEW i \in DOMAIN functions, NEW j \in DOMAIN lines,
                 In(i, j, a), next = 0 \/ a < next
          PROVE  FALSE
      <4>1. line \in DOMAIN lines /\ l.address <= a /\ a < Until(f)
        BY <1>3, <1>4, <3>4, <3>5
      <4>2. Inside(f, l.address)
        BY <1>4, <1>6, <1>11, <2>1, <2>2, <4>1 DEF Inside
      <4> QED BY <1>8, <2>1, <2>4, <4>1, <4>2
    <3> QED BY <1>5, <1>11, <3>4, <3>5 DEF next, fb, lb
  <2> QED BY <2>3, <2>4
\* A line has, and no function.
<1>12. CASE ~fb /\ lb
  <2>1. line \in DOMAIN lines /\ Inside(l, current)
    BY <1>3, <1>12
  <2>2. l.address <= current /\ current < Until(l)
    BY <2>1 DEF Inside
  <2>3. CASE func \in DOMAIN functions /\ Within(l, f.address)
    <3>1. next = f.address
      BY <1>2, <1>9, <1>12, <2>3
    <3> HIDE DEF next, f, l, fb, lb
    <3>2. next \in Addresses /\ current < next
      BY <1>4, <1>7, <1>12, <2>3, <3>1
    <3>3. ASSUME NEW a \in Addresses, NEW i \in DOMAIN functions, NEW j \in DOMAIN lines,
                 In(i, j, a), next = 0 \/ a < next
          PROVE  FALSE
      BY <1>2, <1>4, <1>6, <2>3, <3>1, <3>2, <3>3
    <3> QED BY <1>5, <1>12, <3>2, <3>3 DEF next, fb, lb
  <2>4. CASE ~(func \in DOMAIN functions /\ Within(l, f.address))
    <3>1. next = EndOf(l)
      BY <1>2, <1>9, <1>12, <2>4
    <3>2. EndOf(l) = Until(l) % Modulus
      BY DEF EndOf, Until
    <3> HIDE DEF next, f, l, fb, lb
    <3>3. IF Until(l) = Modulus THEN next = 0 ELSE next = Until(l)
      <4> DEFINE u == Until(l)
      <4>1. u \in Nat /\ u <= Modulus /\ Modulus \in Nat \ {0}
        BY <1>4, <2>1
      <4> HIDE DEF u
      <4>2. IF u = Modulus THEN u % Modulus = 0 ELSE u % Modulus = u
        BY <4>1
      <4> QED BY <3>1, <3>2, <4>2 DEF u
    <3>4. next \in Addresses /\ (next = 0 \/ current < next)
      BY <1>4, <1>7, <2>1, <2>2, <3>3
    <3>5. ASSUME NEW a \in Addresses, NEW i \in DOMAIN functions, NEW j \in DOMAIN lines,
                 In(i, j, a), next = 0 \/ a < next
          PROVE  FALSE
      <4>1. func \in DOMAIN functions /\ f.address <= a /\ a < Until(l)
        BY <1>2, <1>4, <1>6, <2>1, <2>2, <3>3, <3>5
      <4>2. Inside(l, f.address)
        BY <1>4, <1>6, <1>12, <2>1, <2>2, <4>1 DEF Inside
      <4> QED BY <1>8, <2>1, <2>4, <4>1, <4>2
    <3> QED BY <1>5, <1>12, <3>4, <3>5 DEF next, fb, lb
  <2> QED BY <2>3, <2>4
\* Neither has.
<1>13. CASE ~fb /\ ~lb
  <2> DEFINE U == {functions[i].address : i \in {func} \cap DOMAIN functions}
                  \cup {lines[i].address : i \in {line} \cap DOMAIN lines}
  <2>1. next = Least(U)
    BY <1>9, <1>13
  <2>2. \A u \in U : \/ func \in DOMAIN functions /\ u = f.address
                     \/ line \in DOMAIN lines /\ u = l.address
    OBVIOUS
  <2>3. func \in DOMAIN functions => f.address \in U
    OBVIOUS
  <2>4. line \in DOMAIN lines => l.address \in U
    OBVIOUS
  <2> HIDE DEF next, f, l, fb, lb, U
  <2>5. U \subseteq Nat /\ U # {}
    BY <1>2, <1>3, <1>4, <2>2, <2>3, <2>4
  <2>6. Least(U) \in U /\ \A y \in U : Least(U) <= y
    BY <2>5, LeastExists
  <2>7. next \in Addresses /\ current < next
    BY <1>4, <1>7, <1>13, <2>1, <2>2, <2>6
  <2>8. ASSUME NEW a \in Addresses, NEW i \in DOMAIN functions, NEW j \in DOMAIN lines,
               In(i, j, a), next = 0 \/ a < next
        PROVE  FALSE
    <3>1. func \in DOMAIN functions /\ f.address <= a
      BY <1>2, <2>8
    <3>2. next <= f.address
      BY <2>1, <2>3, <2>6, <3>1
    <3> QED BY <1>4, <1>6, <2>7, <2>8, <3>1, <3>2
  <2> QED BY <1>5, <1>13, <2>7, <2>8 DEF next, fb, lb
<1> QED BY <1>10, <1>11, <1>12, <1>13

\* One round of the loop.
LEMMA AssignKeeps ==
    ASSUME LinesInv, AssignLines
    PROVE  LinesInv'
<1> DEFINE next == NextTransition
           both == Begun(functions, func) /\ Begun(lines, line)
           piece == [address |-> current, size |-> (next - current) % Modulus,
                     number |-> lines[line].number]
<1>1. /\ phase = "assign" /\ (func <= Len(functions) \/ line <= Len(lines))
      /\ UNCHANGED <<row, omitted, lines, program>>
      /\ functions' = IF both THEN [functions EXCEPT ![func].lines = Append(@, piece)]
                      ELSE functions
      /\ IF next = 0 THEN phase' = "done" /\ UNCHANGED <<func, line, current>>
         ELSE /\ func' = Skip(functions, func, next)
              /\ line' = Skip(lines, line, next)
              /\ phase' = IF next > current THEN "assign" ELSE "aborted"
              /\ current' = next
  BY DEF AssignLines
<1>2. /\ functions \in Seq(FunctionRecords) /\ lines \in Seq(LineRecords)
      /\ Fit(functions) /\ Fit(lines)
      /\ \A i \in DOMAIN functions :
            functions[i].size \in Addresses /\ Until(functions[i]) < Modulus
      /\ \A j \in DOMAIN lines : lines[j].size \in Addresses
      /\ Sorted(functions) /\ Sorted(lines) /\ Passed(functions, func) /\ Passed(lines, line)
      /\ current \in Addresses
  BY <1>1, AssignmentIs
<1>3. /\ next \in Addresses
      /\ next = 0 \/ current < next
      /\ both => /\ func \in DOMAIN functions /\ line \in DOMAIN lines
                 /\ Inside(functions[func], current) /\ Inside(lines[line], current)
                 /\ current < next
                 /\ next <= Until(functions[func]) /\ next <= Until(lines[line])
      /\ Apart(functions) /\ Apart(lines) =>
            \A a \in Addresses : \A i \in DOMAIN functions, j \in DOMAIN lines :
               /\ current <= a /\ Inside(functions[i], a) /\ Inside(lines[j], a)
               /\ next = 0 \/ a < next
               => both /\ i = func /\ j = line
  BY <1>1, NextIs
<1>4. /\ \A a \in Addresses : a \in Nat /\ a < Modulus
      /\ \A a \in Nat : a < Modulus => a \in Addresses
      /\ Modulus \in Nat \ {0}
  BY OrderedMapAssumption DEF Addresses
<1>5. PieceInv /\ CoverInv /\ FunctionInv /\ ProgramInv /\ phase # "rows"
  BY <1>1 DEF LinesInv
<1> HIDE DEF next, both
<1>6. /\ phase' \in {"assign", "done"}
      /\ current' = IF next = 0 THEN current ELSE next
      /\ current <= current' /\ current' \in Addresses
      /\ phase' = "done" <=> next = 0
  BY <1>1, <1>2, <1>3, <1>4
\* The new piece.
<1>7. both => piece \in LineRecords /\ Until(piece) = next /\ 0 < piece.size
  <2> SUFFICES ASSUME both PROVE piece \in LineRecords /\ Until(piece) = next /\ 0 < piece.size
    OBVIOUS
  <2>1. (next - current) % Modulus = next - current
    <3> DEFINE d == next - current
    <3>1. d \in Nat /\ d < Modulus
      BY <1>2, <1>3, <1>4
    <3> HIDE DEF d
    <3>2. d % Modulus = d
      BY <1>4, <3>1
    <3> QED BY <3>2 DEF d
  <2>2. next - current \in Addresses /\ 0 < next - current /\ current + (next - current) = next
    BY <1>2, <1>3, <1>4
  <2>3. lines[line].number \in Nat
    <3>1. lines[line] \in LineRecords
      BY <1>2, <1>3
    <3> QED BY <3>1 DEF LineRecords
  <2> QED BY <1>2, <2>1, <2>2, <2>3 DEF LineRecords, Until
<1> HIDE DEF piece
<1>8. DOMAIN functions = 1..Len(functions) /\ Len(functions) \in Nat
      /\ \A i \in DOMAIN functions : functions[i] \in FunctionRecords
  BY <1>2
<1>9. /\ DOMAIN functions' = DOMAIN functions
      /\ \A i \in DOMAIN functions :
            functions'[i] = IF both /\ i = func
                            THEN [functions[i] EXCEPT !.lines = Append(@, piece)]
                            ELSE functions[i]
  BY <1>1, <1>3
<1>10. ASSUME NEW i \in DOMAIN functions
       PROVE  /\ functions'[i] \in FunctionRecords
              /\ functions'[i].address = functions[i].address
              /\ functions'[i].size = functions[i].size
              /\ Until(functions'[i]) = Until(functions[i])
              /\ \A a : Inside(functions'[i], a) <=> Inside(functions[i], a)
              /\ functions[i].lines \in Seq(LineRecords)
              /\ functions'[i].lines = IF both /\ i = func THEN Append(functions[i].lines, piece)
                                       ELSE functions[i].lines
  <2>1. functions[i] \in FunctionRecords
    BY <1>8
  <2>2. functions[i].lines \in Seq(LineRecords)
    BY <2>1 DEF FunctionRecords
  <2>3. CASE both /\ i = func
    <3> DEFINE g == [functions[i] EXCEPT !.lines = Append(@, piece)]
    <3>1. Append(functions[i].lines, piece) \in Seq(LineRecords)
      BY <1>7, <2>2, <2>3
    <3>2. /\ g \in FunctionRecords /\ g.address = functions[i].address
          /\ g.size = functions[i].size /\ g.lines = Append(functions[i].lines, piece)
      BY <2>1, <3>1 DEF FunctionRecords
    <3>3. functions'[i] = g
      BY <1>9, <2>3
    <3> HIDE DEF g
    <3> QED BY <2>2, <2>3, <3>2, <3>3 DEF Until, Inside
  <2>4. CASE ~(both /\ i = func)
    <3>1. functions'[i] = functions[i]
      BY <1>9, <2>4
    <3> QED BY <2>1, <2>2, <2>4, <3>1
  <2> QED BY <2>3, <2>4
<1>11. functions' \in Seq(FunctionRecords) /\ Len(functions') = Len(functions)
  <2>1. functions' = [i \in 1..Len(functions) |-> functions'[i]]
    <3>1. CASE both
      BY <1>1, <1>8, <3>1
    <3>2. CASE ~both
      BY <1>1, <1>2, <3>2
    <3> QED BY <3>1, <3>2
  <2>2. [i \in 1..Len(functions) |-> functions'[i]] \in Seq(FunctionRecords)
    BY <1>8, <1>10
  <2>3. functions' \in Seq(FunctionRecords)
    BY <2>1, <2>2, Zenon
  <2> QED BY <1>8, <1>9, <2>3
<1>12. FunctionInv'
  BY <1>5, <1>9, <1>10, <1>11 DEF FunctionInv
<1>13. ProgramInv'
  <2>1. \A j \in DOMAIN lines : LineOfRow(lines[j])' <=> LineOfRow(lines[j])
    BY <1>1 DEF LineOfRow
  <2>2. \A a : RowsAt(a)' = RowsAt(a)
    BY <1>1 DEF RowsAt
  <2>3. \A a : MayBeDropped(a)' <=> MayBeDropped(a)
    BY <2>2 DEF MayBeDropped
  <2> QED BY <1>1, <1>5, <2>1, <2>2, <2>3 DEF ProgramInv
\* The iterators.
<1>14. AssignInv'
  <2>1. Sorted(functions)' /\ Sorted(lines)'
    BY <1>1, <1>2, <1>9, <1>10 DEF Sorted
  <2>2. ASSUME phase' = "assign" PROVE Passed(functions, func)'
    <3> DEFINE top == Skip(functions, func, next)
    <3>1. func \in 1 .. Len(functions) + 1
      BY <1>2 DEF Passed
    <3>2. /\ func' = top /\ current' = next /\ current < next
      BY <1>1, <1>3, <1>6, <2>2
    <3>3. /\ top \in func .. Len(functions) + 1
          /\ \A j \in func .. top - 1 : Until(functions[j]) <= next
          /\ top <= Len(functions) => next < Until(functions[top])
      BY <1>2, <1>3, <3>1, <3>2, SkipIs
    <3> HIDE DEF top
    <3>4. \A j \in 1 .. top - 1 : Until(functions'[j]) <= next
      <4> TAKE j \in 1 .. top - 1
      <4>1. j \in DOMAIN functions
        BY <1>8, <3>1, <3>3
      <4>2. Until(functions[j]) \in Nat
        BY <1>2, <4>1 DEF Fit, Until
      <4>3. CASE j \in 1 .. func - 1
        <5>1. Until(functions[j]) <= current
          BY <1>2, <4>3 DEF Passed
        <5> QED BY <1>2, <1>3, <1>4, <1>10, <3>2, <4>1, <4>2, <5>1
      <4>4. CASE j \in func .. top - 1
        BY <1>10, <3>3, <4>1, <4>4
      <4>5. j \in 1 .. func - 1 \/ j \in func .. top - 1
        BY <1>8, <3>1, <3>3
      <4> QED BY <4>3, <4>4, <4>5
    <3>5. top <= Len(functions) => next < Until(functions'[top])
      BY <1>8, <1>10, <3>1, <3>3
    <3>6. top \in 1 .. Len(functions) + 1
      BY <1>8, <3>1, <3>3
    <3> QED BY <1>11, <3>2, <3>4, <3>5, <3>6 DEF Passed
  <2>3. ASSUME phase' = "assign" PROVE Passed(lines, line)'
    <3> DEFINE top == Skip(lines, line, next)
    <3>0. DOMAIN lines = 1..Len(lines) /\ Len(lines) \in Nat
      BY <1>2
    <3>1. line \in 1 .. Len(lines) + 1
      BY <1>2 DEF Passed
    <3>2. /\ line' = top /\ current' = next /\ current < next
      BY <1>1, <1>3, <1>6, <2>3
    <3>3. /\ top \in line .. Len(lines) + 1
          /\ \A j \in line .. top - 1 : Until(lines[j]) <= next
          /\ top <= Len(lines) => next < Until(lines[top])
      BY <1>2, <1>3, <3>1, <3>2, SkipIs
    <3> HIDE DEF top
    <3>4. \A j \in 1 .. top - 1 : Until(lines[j]) <= next
      <4> TAKE j \in 1 .. top - 1
      <4>1. j \in DOMAIN lines
        BY <3>0, <3>1, <3>3
      <4>2. Until(lines[j]) \in Nat
        BY <1>2, <4>1 DEF Fit, Until
      <4>3. CASE j \in 1 .. line - 1
        <5>1. Until(lines[j]) <= current
          BY <1>2, <4>3 DEF Passed
        <5> QED BY <1>2, <1>3, <1>4, <3>2, <4>2, <5>1
      <4>4. CASE j \in line .. top - 1
        BY <3>3, <4>4
      <4>5. j \in 1 .. line - 1 \/ j \in line .. top - 1
        BY <3>0, <3>1, <3>3
      <4> QED BY <4>3, <4>4, <4>5
    <3>5. top \in 1 .. Len(lines) + 1
      BY <3>0, <3>1, <3>3
    <3> QED BY <1>1, <3>2, <3>3, <3>4, <3>5 DEF Passed
  <2>4. current' \in 0..Modulus
    BY <1>4, <1>6
  <2> QED BY <2>1, <2>2, <2>3, <2>4 DEF AssignInv
\* The pieces.
<1>15. ASSUME NEW i \in DOMAIN functions, NEW k \in DOMAIN functions[i].lines
       PROVE  PieceOf(functions[i], functions[i].lines[k])'
  <2> DEFINE q == functions[i].lines[k]
  <2>1. PieceOf(functions[i], q) /\ q \in LineRecords
    BY <1>5, <1>10 DEF PieceInv
  <2>2. functions'[i].lines[k] = q
    <3> DEFINE ls == functions[i].lines
    <3>1. ls \in Seq(LineRecords) /\ k \in DOMAIN ls
      BY <1>10
    <3>2. functions'[i].lines = ls \/ functions'[i].lines = Append(ls, piece)
      BY <1>10
    <3> HIDE DEF ls
    <3>3. functions'[i].lines[k] = ls[k]
      BY <3>1, <3>2
    <3> QED BY <3>3 DEF ls, q
  <2> HIDE DEF q
  <2>3. Until(q) \in Nat
    BY <1>4, <2>1 DEF LineRecords, Until
  <2>4. Until(q) <= current'
    BY <1>2, <1>4, <1>6, <2>1, <2>3 DEF PieceOf
  <2> QED BY <1>1, <1>10, <2>1, <2>2, <2>4 DEF PieceOf
<1>16. ASSUME both
       PROVE  /\ 0 < piece.size /\ functions[func].address <= piece.address
              /\ Until(piece) <= Until(functions[func]) /\ Until(piece) <= current'
              /\ \E j \in DOMAIN lines : /\ lines[j].number = piece.number
                                         /\ lines[j].address <= piece.address
                                         /\ Until(piece) <= Until(lines[j])
  <2>1. next # 0 /\ current' = next
    BY <1>2, <1>3, <1>4, <1>6, <1>16
  <2>2. piece.address = current /\ piece.number = lines[line].number
    BY DEF piece
  <2> QED BY <1>3, <1>4, <1>7, <1>16, <2>1, <2>2 DEF Inside
<1>17. PieceInv'
  <2> SUFFICES ASSUME NEW i \in DOMAIN functions'
               PROVE  /\ \A k \in DOMAIN functions'[i].lines :
                            PieceOf(functions[i], functions[i].lines[k])'
                      /\ Apart(functions[i].lines)'
    BY DEF PieceInv
  <2>0. i \in DOMAIN functions
    BY <1>9
  <2> DEFINE ls == functions[i].lines
  <2>1. ls \in Seq(LineRecords) /\ Apart(ls)
    BY <1>5, <1>10, <2>0 DEF PieceInv
  <2>2. CASE ~(both /\ i = func)
    <3>1. functions'[i].lines = ls
      BY <1>10, <2>0, <2>2
    <3> QED BY <1>15, <2>0, <2>1, <3>1 DEF Apart
  <2>3. CASE both /\ i = func
    <3> DEFINE top == Len(ls) + 1
    <3>1. functions'[i].lines = Append(ls, piece)
      BY <1>10, <2>0, <2>3
    <3>2. /\ DOMAIN ls = 1..Len(ls) /\ Len(ls) \in Nat
          /\ DOMAIN functions'[i].lines = 1 .. Len(ls) + 1
          /\ \A k \in 1..Len(ls) : functions'[i].lines[k] = ls[k]
          /\ functions'[i].lines[Len(ls) + 1] = piece
      <4> HIDE DEF ls
      <4> QED BY <2>1, <3>1
    <3>3. ASSUME NEW k, k = top PROVE PieceOf(functions[i], functions[i].lines[k])'
      <4> HIDE DEF top
      <4>1. functions'[i].lines[k] = piece /\ Until(functions'[i]) = Until(functions[i])
            /\ functions'[i].address = functions[i].address
        BY <1>10, <2>0, <3>2, <3>3 DEF top
      <4> QED BY <1>1, <1>16, <2>3, <4>1 DEF PieceOf
    <3>4. \A k \in 1..Len(ls) : Until(ls[k]) <= piece.address
      BY <1>5, <2>0, <3>2 DEF PieceInv, PieceOf, piece
    <3>5. ASSUME NEW x \in 1 .. Len(ls) + 1, NEW y \in 1 .. Len(ls) + 1, x < y
          PROVE  Until(functions'[i].lines[x]) <= functions'[i].lines[y].address
      <4> HIDE DEF ls
      <4>1. x \in 1..Len(ls) /\ functions'[i].lines[x] = ls[x]
        BY <3>2, <3>5
      <4>2. CASE y = Len(ls) + 1
        BY <3>2, <3>4, <4>1, <4>2
      <4>3. CASE y \in 1..Len(ls)
        BY <2>1, <3>2, <3>5, <4>1, <4>3 DEF Apart
      <4> QED BY <3>2, <4>2, <4>3
    <3>6. Apart(functions[i].lines)'
      BY <3>2, <3>5 DEF Apart, Until
    <3>7. \A k \in 1 .. Len(ls) + 1 : PieceOf(functions[i], functions[i].lines[k])'
      <4> TAKE k \in 1 .. Len(ls) + 1
      <4>1. CASE k \in 1..Len(ls)
        BY <1>15, <2>0, <3>2, <4>1
      <4>2. CASE k = Len(ls) + 1
        BY <3>3, <4>2
      <4>3. k \in 1..Len(ls) \/ k = Len(ls) + 1
        <5> HIDE DEF ls
        <5> QED BY <3>2
      <4> QED BY <4>1, <4>2, <4>3
    <3> QED BY <3>2, <3>6, <3>7
  <2> QED BY <2>2, <2>3
\* What is covered.
<1>18. CoverInv'
  <2> SUFFICES ASSUME Apart(functions)', Apart(lines)', NEW a \in Addresses,
                      NEW i \in DOMAIN functions', NEW j \in DOMAIN lines',
                      Inside(functions'[i], a), Inside(lines'[j], a),
                      a < current' \/ phase' = "done"
               PROVE  \E k \in DOMAIN functions'[i].lines : Inside(functions'[i].lines[k], a)
    BY DEF CoverInv
  <2>1. /\ i \in DOMAIN functions /\ j \in DOMAIN lines
        /\ Inside(functions[i], a) /\ Inside(lines[j], a)
    BY <1>1, <1>9, <1>10
  <2>2. Apart(functions) /\ Apart(lines)
    BY <1>1, <1>9, <1>10 DEF Apart
  <2>3. \A k \in DOMAIN functions[i].lines :
           k \in DOMAIN functions'[i].lines /\ functions'[i].lines[k] = functions[i].lines[k]
    <3> DEFINE ls == functions[i].lines
    <3>1. ls \in Seq(LineRecords)
      BY <1>10, <2>1
    <3>2. functions'[i].lines = ls \/ functions'[i].lines = Append(ls, piece)
      BY <1>10, <2>1
    <3> HIDE DEF ls
    <3>3. \A k \in DOMAIN ls :
             k \in DOMAIN functions'[i].lines /\ functions'[i].lines[k] = ls[k]
      BY <3>1, <3>2
    <3> QED BY <3>3 DEF ls
  <2>4. CASE a < current
    <3>1. \E k \in DOMAIN functions[i].lines : Inside(functions[i].lines[k], a)
      BY <1>1, <1>5, <2>1, <2>2, <2>4 DEF CoverInv
    <3> QED BY <2>3, <3>1
  <2>5. CASE current <= a
    <3>1. next = 0 \/ a < next
      BY <1>6
    <3>2. both /\ i = func /\ j = line
      BY <1>3, <2>1, <2>2, <2>5, <3>1
    <3> DEFINE k == Len(functions[i].lines) + 1
    <3>3. k \in DOMAIN functions'[i].lines /\ functions'[i].lines[k] = piece
      <4> DEFINE ls == functions[i].lines
      <4>1. ls \in Seq(LineRecords) /\ functions'[i].lines = Append(ls, piece) /\ k = Len(ls) + 1
        BY <1>10, <2>1, <3>2
      <4> HIDE DEF ls, k
      <4> QED BY <4>1
    <3>4. piece.address = current /\ Until(piece) = next /\ next # 0
      BY <1>2, <1>3, <1>4, <1>7, <3>2 DEF piece
    <3>5. Inside(piece, a)
      BY <2>5, <3>1, <3>4 DEF Inside
    <3> QED BY <3>3, <3>5
  <2> QED BY <1>2, <1>4, <2>4, <2>5
<1>19. PendingInv'
  BY <1>6 DEF PendingInv
<1> QED BY <1>6, <1>12, <1>13, <1>14, <1>17, <1>18, <1>19 DEF LinesInv

\* When both iterators are at the end everything has been passed.
LEMMA FinishKeeps ==
    ASSUME LinesInv, Finish
    PROVE  LinesInv'
<1>1. /\ phase = "assign" /\ func > Len(functions) /\ line > Len(lines) /\ phase' = "done"
      /\ UNCHANGED <<row, omitted, lines, functions, func, line, current, program>>
  BY DEF Finish
<1>2. /\ functions \in Seq(FunctionRecords) /\ Passed(functions, func) /\ current \in 0..Modulus
      /\ Sorted(functions) /\ Sorted(lines)
  BY <1>1 DEF LinesInv, FunctionInv, AssignInv
<1>3. ProgramInv'
  <2>1. \A j \in DOMAIN lines : LineOfRow(lines[j])' <=> LineOfRow(lines[j])
    BY <1>1 DEF LineOfRow
  <2>2. \A a : RowsAt(a)' = RowsAt(a)
    BY <1>1 DEF RowsAt
  <2>3. \A a : MayBeDropped(a)' <=> MayBeDropped(a)
    BY <2>2 DEF MayBeDropped
  <2> QED BY <1>1, <2>1, <2>2, <2>3 DEF LinesInv, ProgramInv
<1>4. FunctionInv' /\ PieceInv'
  BY <1>1 DEF LinesInv, FunctionInv, PieceInv, PieceOf
<1>5. ASSUME NEW a \in Addresses, NEW i \in DOMAIN functions, Inside(functions[i], a)
      PROVE  a < current
  <2>1. i \in 1 .. func - 1
    <3>1. func \in 1 .. Len(functions) + 1 /\ Len(functions) \in Nat
          /\ DOMAIN functions = 1..Len(functions)
      BY <1>2 DEF Passed
    <3> QED BY <1>1, <3>1
  <2>2. Until(functions[i]) <= current
    BY <1>2, <2>1 DEF Passed
  <2>3. functions[i] \in FunctionRecords
    BY <1>2
  <2>5. functions[i].address \in Addresses /\ functions[i].size \in Addresses
    BY <2>3 DEF FunctionRecords
  <2>4. Until(functions[i]) \in Nat /\ a \in Nat /\ current \in Nat
    BY <1>2, <2>5, OrderedMapAssumption DEF Until, Addresses
  <2> QED BY <1>5, <2>2, <2>4 DEF Inside
<1>6. CoverInv'
  BY <1>1, <1>5 DEF LinesInv, CoverInv
<1> QED BY <1>1, <1>2, <1>3, <1>4, <1>6 DEF LinesInv, PendingInv, AssignInv

\* Each step keeps the invariant.
LEMMA LinesKeep == LinesInv /\ [LinesNext]_lineVars => LinesInv'
<1> SUFFICES ASSUME LinesInv, [LinesNext]_lineVars PROVE LinesInv'
  OBVIOUS
<1>1. CASE ReadLines
  <2>1. /\ phase = "rows" /\ phase' = "rows" /\ UNCHANGED <<functions, current>>
    BY <1>1 DEF ReadLines
  <2>2. FunctionInv' /\ AssignInv' /\ PieceInv' /\ CoverInv'
    BY <2>1 DEF LinesInv, FunctionInv, AssignInv, PieceInv, CoverInv
  <2> QED BY <1>1, <2>1, <2>2, RowsGrow DEF LinesInv
<1>2. CASE SortBoth
  BY <1>2, SortKeeps
<1>3. CASE AssignLines
  BY <1>3, AssignKeeps
<1>4. CASE AssertionFails
  <2>1. FirstInvariant
    BY <1>4, NextIs DEF AssertionFails
  <2> QED BY <1>4, <2>1 DEF AssertionFails
<1>5. CASE Finish
  BY <1>5, FinishKeeps
<1>6. CASE UNCHANGED lineVars
  <2>1. UNCHANGED <<phase, row, omitted, lines, functions, func, line, current, program>>
    BY <1>6 DEF lineVars
  <2>2. ProgramInv'
    <3>1. \A j \in DOMAIN lines : LineOfRow(lines[j])' <=> LineOfRow(lines[j])
      BY <2>1 DEF LineOfRow
    <3>2. \A a : RowsAt(a)' = RowsAt(a)
      BY <2>1 DEF RowsAt
    <3>3. \A a : MayBeDropped(a)' <=> MayBeDropped(a)
      BY <3>2 DEF MayBeDropped
    <3> QED BY <2>1, <3>1, <3>2, <3>3 DEF LinesInv, ProgramInv
  <2>3. PendingInv'
    <3>1. \A a : RowsAt(a)' = RowsAt(a)
      BY <2>1 DEF RowsAt
    <3> QED BY <2>1, <3>1 DEF LinesInv, PendingInv
  <2>4. FunctionInv' /\ PieceInv' /\ AssignInv' /\ CoverInv'
    BY <2>1 DEF LinesInv, FunctionInv, PieceInv, PieceOf, AssignInv, Passed, CoverInv
  <2> QED BY <2>1, <2>2, <2>3, <2>4 DEF LinesInv
<1> QED BY <1>1, <1>2, <1>3, <1>4, <1>5, <1>6 DEF LinesNext

\* No assertion of AssignLinesToFunctions fails, and every round gets on.
THEOREM LinesAreAssigned == LinesSpec => []LinesInv
<1> QED BY LinesBegin, LinesKeep, PTL DEF LinesSpec

-----------------------------------------------------------------------------
(* DwarfLines: what is looked up. *)

\* What is found is not "not found".
LEMMA RecordIsFound ==
    ASSUME NEW base, NEW extent, NEW entry1
    PROVE  [base |-> base, size |-> extent, entry |-> entry1] # NotFound
<1> DEFINE range == [base |-> base, size |-> extent, entry |-> entry1]
<1>1. DOMAIN range = {"base", "size", "entry"} /\ DOMAIN NotFound = {}
  BY DEF NotFound
<1> QED BY <1>1

\* A key of a reader's map is the last address of a record's range.
LEMMA KeyIs ==
    ASSUME NEW kind, NEW S, NEW es \in Seq(S), OneByOne(kind, es),
           NEW m, Ranges(kind, m, es, Len(es)), NEW x \in DOMAIN m
    PROVE  x \in Addresses /\ \E i \in DOMAIN es :
              /\ es[i].size \in Nat \ {0} /\ FirstOf(kind, es[i]) \in Nat
              /\ FirstOf(kind, es[i]) <= x /\ x = FirstOf(kind, es[i]) + es[i].size - 1
              /\ m[x] = [base |-> FirstOf(kind, es[i]), entry |-> KeptOf(kind, es[i])]
<1>1. DOMAIN es = 1..Len(es)
  OBVIOUS
<1>2. PICK i \in DOMAIN es : es[i].size > 0 /\ x = LastOf(kind, es[i])
  BY <1>1 DEF Ranges
<1> DEFINE first == FirstOf(kind, es[i])
           extent == es[i].size
<1>3. first \in Nat /\ extent \in Nat /\ first + extent <= Modulus
  BY DEF OneByOne
<1>4. x = first + extent - 1 /\ extent > 0
  BY <1>2 DEF LastOf
<1>5. m[x] = [base |-> first, entry |-> KeptOf(kind, es[i])]
  BY <1>1, <1>2 DEF Ranges
<1> HIDE DEF first, extent
<1>6. x \in Addresses /\ first <= x /\ extent \in Nat \ {0}
  BY <1>3, <1>4, OrderedMapAssumption DEF Addresses
<1> QED BY <1>3, <1>4, <1>5, <1>6 DEF first, extent

Outside(kind, es, a) ==
    \A i \in DOMAIN es : ~(FirstOf(kind, es[i]) <= a /\ a < FirstOf(kind, es[i]) + es[i].size)

\* An address in no range is not found.
LEMMA NoRangeFound ==
    ASSUME NEW kind, NEW S, NEW es \in Seq(S), OneByOne(kind, es),
           NEW m, Ranges(kind, m, es, Len(es)), NEW a \in Addresses, Outside(kind, es, a)
    PROVE  Map(m)!RetrieveRange(a) = NotFound
<1> DEFINE key == LowerBound(m, a)
<1>1. \A x \in DOMAIN m : x \in Addresses /\ \E i \in DOMAIN es :
         /\ es[i].size \in Nat \ {0} /\ FirstOf(kind, es[i]) \in Nat
         /\ FirstOf(kind, es[i]) <= x /\ x = FirstOf(kind, es[i]) + es[i].size - 1
         /\ m[x] = [base |-> FirstOf(kind, es[i]), entry |-> KeptOf(kind, es[i])]
  BY KeyIs
<1>2. key \in DOMAIN m \cup {End} /\ key >= a
  BY <1>1, LowerBoundBounds
<1>3. ASSUME key \in DOMAIN m PROVE a < m[key].base
  <2> HIDE DEF key
  <2>1. PICK i \in DOMAIN es :
           /\ es[i].size \in Nat \ {0} /\ FirstOf(kind, es[i]) \in Nat
           /\ FirstOf(kind, es[i]) <= key /\ key = FirstOf(kind, es[i]) + es[i].size - 1
           /\ m[key] = [base |-> FirstOf(kind, es[i]), entry |-> KeptOf(kind, es[i])]
    BY <1>1, <1>3
  <2> DEFINE first == FirstOf(kind, es[i])
             extent == es[i].size
  <2>2. ~(first <= a /\ a < first + extent)
    BY DEF Outside
  <2>3. m[key].base = first /\ first \in Nat /\ extent \in Nat /\ key = first + extent - 1
    BY <2>1
  <2>4. a \in Nat
    BY OrderedMapAssumption DEF Addresses
  <2> HIDE DEF first, extent
  <2> QED BY <1>2, <2>2, <2>3, <2>4
<1>4. Map(m)!RetrieveRange(a) = IF key = Modulus \/ a < m[key].base THEN NotFound
                                ELSE Map(m)!At(key)
  BY FileMaps DEF Map!RetrieveRange, Map!NotFound, NotFound
<1> QED BY <1>2, <1>3, <1>4 DEF End

\* The nearest range is that of the last record which begins at or before the address.
LEMMA NearestFound ==
    ASSUME NEW kind, NEW S, NEW es \in Seq(S), OneByOne(kind, es),
           \A i \in DOMAIN es : es[i].size > 0,
           NEW m, Ranges(kind, m, es, Len(es)), NEW a \in Addresses, Outside(kind, es, a)
    PROVE  LET near == Map(m)!RetrieveNearestRange(a) IN
           \/ near = NotFound /\ \A i \in DOMAIN es : ~(FirstOf(kind, es[i]) <= a)
           \/ \E i \in DOMAIN es :
                /\ near = [base |-> FirstOf(kind, es[i]), size |-> es[i].size,
                           entry |-> KeptOf(kind, es[i])]
                /\ FirstOf(kind, es[i]) <= a
                /\ \A j \in DOMAIN es :
                      FirstOf(kind, es[j]) <= a => FirstOf(kind, es[j]) <= FirstOf(kind, es[i])
<1> DEFINE near == Map(m)!RetrieveNearestRange(a)
           before == {k \in DOMAIN m : k <= a}
<1>1. \A x \in DOMAIN m : x \in Addresses /\ \E i \in DOMAIN es :
         /\ es[i].size \in Nat \ {0} /\ FirstOf(kind, es[i]) \in Nat
         /\ FirstOf(kind, es[i]) <= x /\ x = FirstOf(kind, es[i]) + es[i].size - 1
         /\ m[x] = [base |-> FirstOf(kind, es[i]), entry |-> KeptOf(kind, es[i])]
  BY KeyIs
<1>2. near = IF before = {} THEN NotFound ELSE Map(m)!At(Greatest(before))
  <2>1. Map(m)!RetrieveRange(a) = NotFound
    BY NoRangeFound
  <2>2. Map(m)!UpperBound(m, a) = UpperBound(m, a) /\ \A T : Map(m)!Greatest(T) = Greatest(T)
    BY DEF Map!UpperBound, Map!Least, Map!End, UpperBound, Least, End, Map!Greatest, Greatest
  <2>3. {k \in DOMAIN m : k < UpperBound(m, a)} = before
    BY <1>1, UpperBoundBounds
  <2>4. near = IF {k \in DOMAIN m : k < UpperBound(m, a)} = {} THEN NotFound
               ELSE Map(m)!At(Greatest({k \in DOMAIN m : k < UpperBound(m, a)}))
    BY <2>1, <2>2 DEF Map!RetrieveNearestRange, Map!NotFound, NotFound
  <2> HIDE DEF before, near
  <2> QED BY <2>3, <2>4
<1>3. a \in Nat
  BY OrderedMapAssumption DEF Addresses
\* A record that begins at or before the address has its key there.
<1>4. ASSUME NEW i \in DOMAIN es, FirstOf(kind, es[i]) <= a
      PROVE  /\ LastOf(kind, es[i]) \in before
             /\ FirstOf(kind, es[i]) \in Nat /\ es[i].size \in Nat \ {0}
  <2> DEFINE first == FirstOf(kind, es[i])
             extent == es[i].size
  <2>1. first \in Nat /\ extent \in Nat /\ extent > 0
    BY DEF OneByOne
  <2>2. ~(a < first + extent)
    BY <1>4 DEF Outside
  <2>3. LastOf(kind, es[i]) \in DOMAIN m
    <3>1. i \in 1..Len(es)
      OBVIOUS
    <3> QED BY <2>1, <3>1 DEF Ranges
  <2>4. LastOf(kind, es[i]) = first + extent - 1
    BY DEF LastOf
  <2> HIDE DEF first, extent
  <2>5. LastOf(kind, es[i]) <= a
    BY <1>3, <2>1, <2>2, <2>4
  <2> QED BY <2>1, <2>3, <2>5 DEF first, extent
<1>5. CASE before = {}
  BY <1>2, <1>4, <1>5
<1>6. CASE before # {}
  <2> DEFINE key == Greatest(before)
  <2>1. key \in before /\ \A y \in before : key >= y
    <3>1. before \subseteq Addresses
      BY <1>1
    <3> HIDE DEF before
    <3> QED BY <1>6, <3>1, GreatestExists
  <2> HIDE DEF key
  <2>2. key \in DOMAIN m /\ key <= a
    BY <2>1
  <2>3. PICK i \in DOMAIN es :
           /\ es[i].size \in Nat \ {0} /\ FirstOf(kind, es[i]) \in Nat
           /\ FirstOf(kind, es[i]) <= key /\ key = FirstOf(kind, es[i]) + es[i].size - 1
           /\ m[key] = [base |-> FirstOf(kind, es[i]), entry |-> KeptOf(kind, es[i])]
    BY <1>1, <2>2
  <2> DEFINE first == FirstOf(kind, es[i])
             extent == es[i].size
  <2>4. near = [base |-> first, size |-> extent, entry |-> KeptOf(kind, es[i])]
    <3>1. near = Map(m)!At(key)
      BY <1>2, <1>6 DEF key
    <3>2. Map(m)!At(key) = [base |-> m[key].base, size |-> key - m[key].base + 1,
                            entry |-> m[key].entry]
      BY DEF Map!At
    <3>3. m[key].base = first /\ m[key].entry = KeptOf(kind, es[i])
      BY <2>3
    <3>4. key - first + 1 = extent
      <4>1. first \in Nat /\ extent \in Nat /\ key = first + extent - 1
        BY <2>3
      <4> HIDE DEF first, extent
      <4> QED BY <4>1
    <3> HIDE DEF near, first, extent
    <3> QED BY <3>1, <3>2, <3>3, <3>4
  <2>5. first <= a
    BY <1>1, <1>3, <2>2, <2>3 DEF Addresses
  <2>6. ASSUME NEW j \in DOMAIN es, FirstOf(kind, es[j]) <= a
        PROVE  FirstOf(kind, es[j]) <= first
    <3> DEFINE low == FirstOf(kind, es[j])
               span == es[j].size
    <3>1. key >= LastOf(kind, es[j]) /\ low \in Nat /\ span \in Nat \ {0}
      BY <1>4, <2>1, <2>6
    <3>2. LastOf(kind, es[j]) = low + span - 1
      BY DEF LastOf
    <3>3. j \in 1..Len(es) /\ i \in 1..Len(es)
      OBVIOUS
    <3>4. i < j => first + extent <= low
      BY DEF OneByOne
    <3>5. j < i => low + span <= first
      BY DEF OneByOne
    <3>6. first \in Nat /\ extent \in Nat \ {0} /\ key = first + extent - 1
      BY <2>3
    <3>7. i = j => low = first
      OBVIOUS
    <3> HIDE DEF low, span, first, extent
    <3>8. ~(i < j)
      BY <3>1, <3>2, <3>4, <3>6
    <3>9. low <= first
      BY <3>1, <3>3, <3>5, <3>6, <3>7, <3>8
    <3> QED BY <3>9 DEF low, first
  <2> QED BY <2>4, <2>5, <2>6
<1> QED BY <1>5, <1>6

\* A public symbol is found from its address on, unless that is 0.
LEMMA PublicFound ==
    ASSUME NEW public \in Addresses, NEW a \in Addresses
    PROVE  Map(PublicsOf({public}))!Retrieve(a)
              = IF public # 0 /\ public <= a THEN [address |-> public, entry |-> public]
                ELSE NotFound
<1> DEFINE m == PublicsOf({public})
           before == {k \in DOMAIN m : k <= a}
<1>1. DOMAIN m = {public} \ {0} /\ \A k \in DOMAIN m : m[k] = k
  BY DEF PublicsOf
<1> HIDE DEF m
<1>2. Map(m)!Retrieve(a) = IF before = {} THEN NotFound
                           ELSE [address |-> Greatest(before), entry |-> m[Greatest(before)]]
  <2>1. Map(m)!UpperBound(m, a) = UpperBound(m, a) /\ \A T : Map(m)!Greatest(T) = Greatest(T)
    BY DEF Map!UpperBound, Map!Least, Map!End, UpperBound, Least, End, Map!Greatest, Greatest
  <2>2. {k \in DOMAIN m : k < UpperBound(m, a)} = before
    BY <1>1, UpperBoundBounds
  <2>3. Map(m)!Retrieve(a)
          = IF {k \in DOMAIN m : k < UpperBound(m, a)} = {} THEN NotFound
            ELSE [address |-> Greatest({k \in DOMAIN m : k < UpperBound(m, a)}),
                  entry |-> m[Greatest({k \in DOMAIN m : k < UpperBound(m, a)})]]
    BY <2>1 DEF Map!Retrieve, Map!NotFound, NotFound
  <2> HIDE DEF before
  <2> QED BY <2>2, <2>3
<1>3. CASE public # 0 /\ public <= a
  <2>1. before = {public} /\ m[public] = public
    BY <1>1, <1>3
  <2>2. Greatest({public}) = public
    BY GreatestExists
  <2> QED BY <1>2, <1>3, <2>1, <2>2 DEF m
<1>4. CASE ~(public # 0 /\ public <= a)
  <2>1. before = {}
    BY <1>1, <1>4
  <2> QED BY <1>2, <1>4, <2>1 DEF m
<1> QED BY <1>3, <1>4

-----------------------------------------------------------------------------
(* DwarfLines: what the processor finds. *)

\* In a set of at most one index there is no other.
LEMMA AtMostOne ==
    ASSUME NEW n \in Nat, NEW T, T \subseteq 1..n, Cardinality(T) <= 1, NEW x \in T, NEW y \in T
    PROVE  x = y
<1> SUFFICES ASSUME x # y PROVE FALSE
  OBVIOUS
<1>1. IsFiniteSet(T)
  <2>1. IsFiniteSet(1..n)
    BY FS_Interval
  <2> QED BY <2>1, FS_Subset
<1>2. IsFiniteSet({x}) /\ Cardinality({x}) = 1
  BY FS_Singleton
<1>3. Cardinality({x} \cup {y}) = 2
  BY <1>2, FS_AddElement
<1>4. {x} \cup {y} \in SUBSET T
  OBVIOUS
<1>5. Cardinality({x} \cup {y}) <= Cardinality(T) /\ Cardinality(T) \in Nat
  BY <1>1, <1>4, FS_Subset, FS_CardinalityType
<1> QED BY <1>3, <1>5

\* When at no address there are two rows or two functions, they are apart.
LEMMA WellFormedApart ==
    ASSUME LinesInv, phase # "rows", WellFormed
    PROVE  Apart(functions) /\ Apart(lines)
<1>1. /\ functions \in Seq(FunctionRecords) /\ lines \in Seq(LineRecords)
      /\ program \in Seq(RowRecords) /\ Sorted(functions) /\ Sorted(lines)
      /\ \A j \in DOMAIN lines : LineOfRow(lines[j])
      /\ \A i, j \in DOMAIN lines : lines[i].number = lines[j].number => i = j
  BY DEF LinesInv, ProgramInv, FunctionInv, AssignInv
<1>2. \A a \in Addresses : Cardinality(RowsAt(a)) <= 1 /\ Cardinality(FunctionsAt(a)) <= 1
  BY DEF WellFormed
<1>3. ASSUME NEW i \in DOMAIN functions, NEW j \in DOMAIN functions, i < j
      PROVE  Until(functions[i]) <= functions[j].address
  <2> DEFINE a == functions[j].address
  <2>1. /\ functions[i] \in FunctionRecords /\ functions[j] \in FunctionRecords
        /\ 0 < functions[j].size
    BY <1>1 DEF LinesInv, FunctionInv
  <2>2. /\ functions[i].address \in Addresses /\ functions[i].size \in Addresses
        /\ a \in Addresses /\ functions[j].size \in Addresses
    BY <2>1 DEF FunctionRecords
  <2>3. functions[i].address <= a
    BY <1>1, <1>3 DEF Sorted
  <2>4. FunctionsAt(a) \subseteq 1..Len(functions) /\ Len(functions) \in Nat
    BY <1>1 DEF FunctionsAt
  <2>5. j \in FunctionsAt(a)
    BY <2>1, <2>2, OrderedMapAssumption DEF FunctionsAt, Addresses
  <2>6. ~(i \in FunctionsAt(a))
    <3> SUFFICES ASSUME i \in FunctionsAt(a) PROVE FALSE
      OBVIOUS
    <3>1. i = j
      BY <1>2, <2>2, <2>4, <2>5, AtMostOne
    <3>2. i \in 1..Len(functions)
      BY <1>1
    <3> QED BY <1>3, <3>1, <3>2
  <2>7. ~(a < functions[i].address + functions[i].size)
    BY <2>3, <2>6 DEF FunctionsAt
  <2> QED BY <2>2, <2>7, OrderedMapAssumption DEF Until, Addresses
<1>4. ASSUME NEW i \in DOMAIN lines, NEW j \in DOMAIN lines, i < j
      PROVE  Until(lines[i]) <= lines[j].address
  <2> DEFINE a == lines[j].address
  <2>1. /\ lines[i] \in LineRecords /\ lines[j] \in LineRecords
        /\ LineOfRow(lines[i]) /\ LineOfRow(lines[j])
    BY <1>1
  <2>2. /\ lines[i].address \in Addresses /\ lines[i].size \in Addresses
        /\ a \in Addresses /\ lines[j].size \in Addresses
    BY <2>1 DEF LineRecords
  <2>3. lines[i].address <= a
    BY <1>1, <1>4 DEF Sorted
  <2>4. RowsAt(a) \subseteq 1..Len(program) /\ Len(program) \in Nat
    BY <1>1 DEF RowsAt
  <2>5. a < Until(lines[j]) /\ Until(lines[i]) \in Nat /\ a \in Nat
    BY <2>1, <2>2, OrderedMapAssumption DEF LineOfRow, Until, Addresses
  <2>6. lines[j].number \in RowsAt(a)
    BY <2>1, <2>5 DEF LineOfRow, RowsAt
  <2>7. a < Until(lines[i]) => lines[i].number \in RowsAt(a)
    BY <2>1, <2>3 DEF LineOfRow, RowsAt
  <2>8. ~(a < Until(lines[i]))
    <3> SUFFICES ASSUME a < Until(lines[i]) PROVE FALSE
      OBVIOUS
    <3>1. lines[i].number = lines[j].number
      BY <1>2, <2>2, <2>4, <2>6, <2>7, AtMostOne
    <3>2. i = j /\ i \in 1..Len(lines)
      BY <1>1, <3>1
    <3> QED BY <1>4, <3>2
  <2> QED BY <2>5, <2>8
<1> QED BY <1>3, <1>4 DEF Apart

\* The maps of a file with functions apart.
LEMMA FunctionsAreLoaded ==
    ASSUME LinesInv, phase # "rows", Apart(functions)
    PROVE  /\ OneByOne("function", functions)
           /\ Ranges("function", FunctionsOf(functions), functions, Len(functions))
<1> DEFINE kind == "function"
<1>1. functions \in Seq(FunctionRecords)
  BY DEF LinesInv, FunctionInv
<1>2. \A e : FirstOf(kind, e) = e.address
  BY DEF FirstOf
<1>3. \A i \in DOMAIN functions :
         /\ functions[i].address \in Nat /\ functions[i].size \in Nat
         /\ functions[i].address + functions[i].size <= Modulus
  <2> TAKE i \in DOMAIN functions
  <2>1. functions[i] \in FunctionRecords /\ Until(functions[i]) < Modulus
    BY <1>1 DEF LinesInv, FunctionInv
  <2>2. functions[i].address \in Addresses /\ functions[i].size \in Addresses
    BY <2>1 DEF FunctionRecords
  <2> QED BY <2>1, <2>2, OrderedMapAssumption DEF Addresses, Until
<1>4. OneByOne(kind, functions)
  BY <1>2, <1>3 DEF OneByOne, Apart, Until
<1>5. PICK it : Folds(kind, functions, Len(functions), it)
                /\ FunctionsOf(functions) = it[1..Len(functions)]
  BY <1>1, FunctionFold
<1>6. kind # "delta"
  OBVIOUS
<1> HIDE DEF kind
<1>7. Ranges(kind, it[1..Len(functions)], functions, Len(functions))
  BY <1>1, <1>4, <1>5, <1>6, RangesAreLoaded
<1> QED BY <1>4, <1>5, <1>7 DEF kind

\* The lines of a function are apart, so all are loaded.
LEMMA LinesAreLoaded ==
    ASSUME LinesInv, phase # "rows", NEW i \in DOMAIN functions
    PROVE  /\ functions[i].lines \in Seq(LineRecords)
           /\ OneByOne("line", functions[i].lines)
           /\ Ranges("line", LinesOf(functions[i]), functions[i].lines, Len(functions[i].lines))
<1> DEFINE kind == "line"
           f == functions[i]
           ls == f.lines
<1>1. f \in FunctionRecords /\ Until(f) < Modulus
  BY DEF LinesInv, FunctionInv
<1>2. ls \in Seq(LineRecords) /\ f.address \in Addresses /\ f.size \in Addresses
  BY <1>1 DEF FunctionRecords
<1>3. \A e : FirstOf(kind, e) = e.address
  BY DEF FirstOf
<1>4. /\ \A k \in DOMAIN ls : Until(ls[k]) <= Until(f)
      /\ Apart(ls)
  BY DEF LinesInv, PieceInv, PieceOf
<1> HIDE DEF ls, f
<1>5. \A k \in DOMAIN ls : /\ ls[k].address \in Nat /\ ls[k].size \in Nat
                           /\ ls[k].address + ls[k].size <= Modulus
  <2> TAKE k \in DOMAIN ls
  <2>1. ls[k] \in LineRecords
    BY <1>2
  <2>2. ls[k].address \in Nat /\ ls[k].size \in Nat
    BY <2>1, OrderedMapAssumption DEF LineRecords, Addresses
  <2>3. Until(f) \in Nat
    BY <1>2, OrderedMapAssumption DEF Until, Addresses
  <2> QED BY <1>1, <1>4, <2>2, <2>3, OrderedMapAssumption DEF Until
<1>6. OneByOne(kind, ls)
  BY <1>3, <1>4, <1>5 DEF OneByOne, Apart, Until
<1>7. PICK it : Folds(kind, ls, Len(ls), it) /\ LinesOf(f) = it[1..Len(ls)]
  BY <1>2, LineFold DEF ls
<1>8. kind # "delta"
  OBVIOUS
<1> HIDE DEF kind
<1>9. Ranges(kind, it[1..Len(ls)], ls, Len(ls))
  BY <1>2, <1>6, <1>7, <1>8, RangesAreLoaded
<1> QED BY <1>2, <1>6, <1>7, <1>9 DEF kind, ls, f

\* An address in a function.
LEMMA AnswersInside ==
    ASSUME LinesInv, phase = "done", WellFormed, NEW public, NEW publicMap, NEW a \in Addresses,
           NEW i \in FunctionsAt(a)
    PROVE  Answers(FunctionsOf(functions), publicMap, a, public)
<1> DEFINE m == FunctionsOf(functions)
           f == functions[i]
           near == Map(m)!RetrieveNearestRange(a)
           symbol == Map(publicMap)!Retrieve(a)
           found == near # NotFound /\ a >= near.base /\ a - near.base < near.size
           lm == LinesOf(f)
           ls == f.lines
           at1 == Map(lm)!RetrieveRange(a)
           answer == LookupAddress(m, publicMap, a)
<1>1. Apart(functions) /\ Apart(lines) /\ phase # "rows"
  BY WellFormedApart
<1>2. /\ functions \in Seq(FunctionRecords) /\ i \in DOMAIN functions
      /\ f.address <= a /\ a < f.address + f.size /\ a \in Nat
  BY OrderedMapAssumption DEF LinesInv, FunctionInv, FunctionsAt, Addresses
<1>3. f.address \in Nat /\ f.size \in Nat
  <2>1. f \in FunctionRecords
    BY <1>2
  <2>2. f.address \in Addresses /\ f.size \in Addresses
    BY <2>1 DEF FunctionRecords
  <2> QED BY <2>2, OrderedMapAssumption DEF Addresses
<1>4. near = [base |-> f.address, size |-> f.size, entry |-> f]
  <2> DEFINE kind == "function"
  <2>1. OneByOne(kind, functions) /\ Ranges(kind, m, functions, Len(functions))
    BY <1>1, FunctionsAreLoaded
  <2>2. FirstOf(kind, f) = f.address /\ KeptOf(kind, f) = f
    BY DEF FirstOf, KeptOf
  <2> HIDE DEF kind, m, f
  <2>3. Map(m)!RetrieveRange(a)
          = [base |-> FirstOf(kind, f), size |-> f.size, entry |-> KeptOf(kind, f)]
    BY <1>2, <2>1, <2>2, RangeFound DEF f
  <2>4. Map(m)!RetrieveRange(a) # NotFound
    BY <2>3, RecordIsFound
  <2>5. near = Map(m)!RetrieveRange(a)
    BY <2>4 DEF Map!RetrieveNearestRange, Map!NotFound, NotFound
  <2> QED BY <2>2, <2>3, <2>5
<1>5. found /\ near.entry = f
  <2>1. near # NotFound
    BY <1>4, RecordIsFound
  <2>2. near.base = f.address /\ near.size = f.size /\ near.entry = f
    BY <1>4
  <2> HIDE DEF near, f
  <2> QED BY <1>2, <1>3, <2>1, <2>2
<1>6. /\ answer.function = <<f.name>> /\ answer.public = <<>>
      /\ answer.line = IF at1 = NotFound THEN <<>> ELSE <<at1.entry>>
  <2>1. answer = [function |-> IF found THEN <<near.entry.name>> ELSE <<>>,
                  line |-> IF (IF found THEN Map(LinesOf(near.entry))!RetrieveRange(a) ELSE NotFound)
                              = NotFound THEN <<>>
                           ELSE <<(IF found THEN Map(LinesOf(near.entry))!RetrieveRange(a)
                                   ELSE NotFound).entry>>,
                  public |-> IF /\ ~found /\ symbol # NotFound
                                /\ near # NotFound => symbol.address > near.base
                             THEN <<symbol.address>> ELSE <<>>]
    BY DEF LookupAddress
  <2> HIDE DEF found, near, m, f, answer, symbol
  <2> QED BY <1>5, <2>1
<1> HIDE DEF near, m, answer, symbol
\* No other function is there.
<1>7. ASSUME NEW j \in FunctionsAt(a) PROVE j = i
  <2>1. FunctionsAt(a) \subseteq 1..Len(functions) /\ Len(functions) \in Nat
    BY <1>2 DEF FunctionsAt
  <2>2. Cardinality(FunctionsAt(a)) <= 1
    BY DEF WellFormed
  <2> QED BY <2>1, <2>2, AtMostOne
\* Its lines.
<1>8. /\ ls \in Seq(LineRecords) /\ OneByOne("line", ls)
      /\ Ranges("line", lm, ls, Len(ls))
  BY <1>1, <1>2, LinesAreLoaded
<1>9. ASSUME NEW k \in DOMAIN ls, Inside(ls[k], a)
      PROVE  answer.line = <<ls[k].number>> /\ ls[k].number \in RowsAt(a)
  <2>1. answer.line = <<ls[k].number>>
    <3> DEFINE kind == "line"
    <3>1. FirstOf(kind, ls[k]) = ls[k].address /\ KeptOf(kind, ls[k]) = ls[k].number
      BY DEF FirstOf, KeptOf
    <3>2. OneByOne(kind, ls) /\ Ranges(kind, lm, ls, Len(ls))
      BY <1>8
    <3> HIDE DEF kind, lm, ls
    <3>3. ls[k].address <= a /\ a < ls[k].address + ls[k].size
      BY <1>9 DEF Inside, Until
    <3>4. at1 = [base |-> FirstOf(kind, ls[k]), size |-> ls[k].size, entry |-> KeptOf(kind, ls[k])]
      BY <1>2, <1>8, <3>1, <3>2, <3>3, RangeFound
    <3>5. at1 # NotFound
      BY <3>4, RecordIsFound
    <3>6. at1.entry = ls[k].number
      BY <3>1, <3>4
    <3> HIDE DEF at1
    <3> QED BY <1>6, <3>5, <3>6
  <2>2. PICK j \in DOMAIN lines : /\ lines[j].number = ls[k].number
                                  /\ lines[j].address <= ls[k].address
                                  /\ Until(ls[k]) <= Until(lines[j])
    BY <1>1, <1>2 DEF LinesInv, PieceInv, PieceOf
  <2>3. lines[j] \in LineRecords /\ LineOfRow(lines[j]) /\ ls[k] \in LineRecords
    BY <1>8 DEF LinesInv, ProgramInv
  <2>4. /\ lines[j].address \in Nat /\ Until(lines[j]) \in Nat
        /\ ls[k].address \in Nat /\ Until(ls[k]) \in Nat
    BY <2>3, OrderedMapAssumption DEF LineRecords, Until, Addresses
  <2>5. lines[j].address <= a /\ a < Until(lines[j])
    BY <1>2, <1>9, <2>2, <2>4 DEF Inside
  <2>6. lines[j].number \in RowsAt(a)
    BY <2>3, <2>5 DEF LineOfRow, RowsAt
  <2> QED BY <2>1, <2>2, <2>6
<1>10. ASSUME \A k \in DOMAIN ls : ~Inside(ls[k], a)
       PROVE  answer.line = <<>> /\ (RowsAt(a) = {} \/ MayBeDropped(a))
  <2>1. answer.line = <<>>
    <3> DEFINE kind == "line"
    <3>1. \A k \in DOMAIN ls : FirstOf(kind, ls[k]) = ls[k].address
      BY DEF FirstOf
    <3>2. OneByOne(kind, ls) /\ Ranges(kind, lm, ls, Len(ls))
      BY <1>8
    <3> HIDE DEF kind, lm, ls
    <3>3. Outside(kind, ls, a)
      BY <1>10, <3>1 DEF Outside, Inside, Until
    <3>4. at1 = NotFound
      BY <1>8, <3>2, <3>3, NoRangeFound
    <3> HIDE DEF at1
    <3> QED BY <1>6, <3>4
  <2>2. ASSUME NEW n \in RowsAt(a) PROVE MayBeDropped(a)
    <3>1. (\E j \in DOMAIN lines : lines[j].number = n) \/ MayBeDropped(a)
      BY DEF LinesInv, ProgramInv
    <3>2. ASSUME NEW j \in DOMAIN lines, lines[j].number = n PROVE FALSE
      <4>1. Inside(lines[j], a)
        <5>1. LineOfRow(lines[j])
          BY DEF LinesInv, ProgramInv
        <5> QED BY <3>2, <5>1 DEF LineOfRow, RowsAt, Inside
      <4>2. Inside(f, a)
        BY <1>2 DEF Inside, Until
      <4>3. \E k \in DOMAIN functions[i].lines : Inside(functions[i].lines[k], a)
        BY <1>1, <1>2, <4>1, <4>2 DEF LinesInv, CoverInv
      <4> QED BY <1>10, <4>3
    <3> QED BY <3>1, <3>2
  <2> QED BY <2>1, <2>2
<1>11. IF answer.line = <<>> THEN RowsAt(a) = {} \/ MayBeDropped(a)
       ELSE answer.line[1] \in RowsAt(a)
  <2>1. CASE \E k \in DOMAIN ls : Inside(ls[k], a)
    <3>1. PICK k \in DOMAIN ls : Inside(ls[k], a)
      BY <2>1
    <3>2. answer.line = <<ls[k].number>> /\ ls[k].number \in RowsAt(a)
      BY <1>9, <3>1
    <3> HIDE DEF ls
    <3> QED BY <3>2
  <2>2. CASE ~\E k \in DOMAIN ls : Inside(ls[k], a)
    BY <1>10, <2>2
  <2> QED BY <2>1, <2>2
<1>12. \A j \in FunctionsAt(a) : answer.function = <<functions[j].name>>
  BY <1>6, <1>7
<1> QED BY <1>6, <1>11, <1>12 DEF Answers, answer, m

\* An address in none.
LEMMA AnswersOutside ==
    ASSUME LinesInv, phase = "done", WellFormed, NEW public \in Addresses, NEW a \in Addresses,
           FunctionsAt(a) = {}
    PROVE  Answers(FunctionsOf(functions), PublicsOf({public}), a, public)
<1> DEFINE m == FunctionsOf(functions)
           publicMap == PublicsOf({public})
           near == Map(m)!RetrieveNearestRange(a)
           symbol == Map(publicMap)!Retrieve(a)
           found == near # NotFound /\ a >= near.base /\ a - near.base < near.size
           answer == LookupAddress(m, publicMap, a)
           between == {i \in DOMAIN functions : functions[i].address \in public..a}
<1>1. Apart(functions) /\ phase # "rows"
  BY WellFormedApart
<1>2. functions \in Seq(FunctionRecords) /\ a \in Nat /\ public \in Nat
  BY OrderedMapAssumption DEF LinesInv, FunctionInv, Addresses
<1>3. \A i \in DOMAIN functions : functions[i].address \in Nat /\ functions[i].size \in Nat \ {0}
  <2> TAKE i \in DOMAIN functions
  <2>1. functions[i] \in FunctionRecords /\ 0 < functions[i].size
    BY <1>2 DEF LinesInv, FunctionInv
  <2>2. functions[i].address \in Addresses /\ functions[i].size \in Addresses
    BY <2>1 DEF FunctionRecords
  <2> QED BY <2>1, <2>2, OrderedMapAssumption DEF Addresses
<1>4. \A i \in DOMAIN functions :
         ~(functions[i].address <= a /\ a < functions[i].address + functions[i].size)
  BY DEF FunctionsAt
<1>5. \/ near = NotFound /\ \A i \in DOMAIN functions : ~(functions[i].address <= a)
      \/ \E i \in DOMAIN functions :
           /\ near = [base |-> functions[i].address, size |-> functions[i].size,
                      entry |-> functions[i]]
           /\ functions[i].address <= a
           /\ \A j \in DOMAIN functions :
                 functions[j].address <= a => functions[j].address <= functions[i].address
  <2> DEFINE kind == "function"
  <2>1. OneByOne(kind, functions) /\ Ranges(kind, m, functions, Len(functions))
    BY <1>1, FunctionsAreLoaded
  <2>2. \A e : FirstOf(kind, e) = e.address /\ KeptOf(kind, e) = e
    BY DEF FirstOf, KeptOf
  <2> HIDE DEF kind, m
  <2>3. Outside(kind, functions, a)
    BY <1>4, <2>2 DEF Outside
  <2>4. \A i \in DOMAIN functions : functions[i].size > 0
    BY <1>3
  <2>5. \/ near = NotFound /\ \A i \in DOMAIN functions : ~(FirstOf(kind, functions[i]) <= a)
        \/ \E i \in DOMAIN functions :
             /\ near = [base |-> FirstOf(kind, functions[i]), size |-> functions[i].size,
                        entry |-> KeptOf(kind, functions[i])]
             /\ FirstOf(kind, functions[i]) <= a
             /\ \A j \in DOMAIN functions : FirstOf(kind, functions[j]) <= a
                   => FirstOf(kind, functions[j]) <= FirstOf(kind, functions[i])
    BY <1>2, <2>1, <2>3, <2>4, NearestFound
  <2> HIDE DEF near
  <2> QED BY <2>2, <2>5
<1>6. symbol = IF public # 0 /\ public <= a THEN [address |-> public, entry |-> public]
               ELSE NotFound
  BY PublicFound
<1> HIDE DEF m, near, symbol, publicMap
<1>7. ~found
  <2>1. ASSUME NEW i \in DOMAIN functions,
               near = [base |-> functions[i].address, size |-> functions[i].size,
                       entry |-> functions[i]]
        PROVE  ~found
    <3>1. near.base = functions[i].address /\ near.size = functions[i].size
      BY <2>1
    <3> QED BY <1>2, <1>3, <1>4, <3>1
  <2> QED BY <1>5, <2>1
<1>8. answer = [function |-> <<>>, line |-> <<>>,
                public |-> IF symbol # NotFound /\ (near # NotFound => symbol.address > near.base)
                           THEN <<symbol.address>> ELSE <<>>]
  <2>1. answer = [function |-> IF found THEN <<near.entry.name>> ELSE <<>>,
                  line |-> IF (IF found THEN Map(LinesOf(near.entry))!RetrieveRange(a) ELSE NotFound)
                              = NotFound THEN <<>>
                           ELSE <<(IF found THEN Map(LinesOf(near.entry))!RetrieveRange(a)
                                   ELSE NotFound).entry>>,
                  public |-> IF /\ ~found /\ symbol # NotFound
                                /\ near # NotFound => symbol.address > near.base
                             THEN <<symbol.address>> ELSE <<>>]
    BY DEF LookupAddress, near, symbol, m, publicMap
  <2> HIDE DEF found, answer
  <2> QED BY <1>7, <2>1
\* The nearest function is below the public symbol exactly if none is between.
<1>9. public <= a => ((near # NotFound => public > near.base) <=> between = {})
  <2> SUFFICES ASSUME public <= a PROVE (near # NotFound => public > near.base) <=> between = {}
    OBVIOUS
  <2>1. CASE near = NotFound /\ \A i \in DOMAIN functions : ~(functions[i].address <= a)
    BY <2>1
  <2>2. ASSUME NEW i \in DOMAIN functions,
               near = [base |-> functions[i].address, size |-> functions[i].size,
                       entry |-> functions[i]],
               functions[i].address <= a,
               \A j \in DOMAIN functions :
                  functions[j].address <= a => functions[j].address <= functions[i].address
        PROVE  (near # NotFound => public > near.base) <=> between = {}
    <3>1. near # NotFound /\ near.base = functions[i].address
      BY <2>2, RecordIsFound
    <3>2. ASSUME ~(public > functions[i].address) PROVE i \in between
      BY <1>2, <1>3, <2>2, <3>2
    <3>3. ASSUME NEW j \in between PROVE ~(public > functions[i].address)
      BY <1>2, <1>3, <2>2, <3>3
    <3> HIDE DEF between
    <3> QED BY <3>1, <3>2, <3>3
  <2> QED BY <1>5, <2>1, <2>2
<1>10. answer.public = IF public # 0 /\ public <= a /\ between = {} THEN <<public>> ELSE <<>>
  <2> HIDE DEF between, answer
  <2>1. CASE public # 0 /\ public <= a
    <3>1. symbol = [address |-> public, entry |-> public]
      BY <1>6, <2>1
    <3>2. symbol # NotFound /\ symbol.address = public
      <4>1. DOMAIN symbol = {"address", "entry"} /\ DOMAIN NotFound = {}
        BY <3>1 DEF NotFound
      <4> QED BY <3>1, <4>1
    <3> QED BY <1>8, <1>9, <2>1, <3>2
  <2>2. CASE ~(public # 0 /\ public <= a)
    BY <1>6, <1>8, <2>2
  <2> QED BY <2>1, <2>2
<1>11. answer.function = <<>> /\ answer.line = <<>>
  <2> HIDE DEF answer
  <2> QED BY <1>8
<1> QED BY <1>10, <1>11 DEF Answers, answer, m, publicMap

\* The processor finds for every address the function and the line that the DWARF data give
\* it, and the public symbol below it, for any line program and any functions; and no
\* assertion of AssignLinesToFunctions fails.
THEOREM LinesComeThrough == LinesSpec => []LinesSurvive
<1>1. LinesInv => LinesSurvive
  <2> SUFFICES ASSUME LinesInv PROVE LinesSurvive
    OBVIOUS
  <2>1. phase # "aborted"
    BY DEF LinesInv
  <2>2. ASSUME phase = "done", WellFormed, NEW public \in Addresses, NEW a \in Addresses
        PROVE  Answers(FunctionsOf(functions), PublicsOf({public}), a, public)
    <3>1. CASE FunctionsAt(a) = {}
      BY <2>2, <3>1, AnswersOutside
    <3>2. CASE FunctionsAt(a) # {}
      <4>1. PICK i \in FunctionsAt(a) : TRUE
        BY <3>2
      <4> QED BY <2>2, <4>1, AnswersInside
    <3> QED BY <3>1, <3>2
  <2> QED BY <2>1, <2>2, Zenon DEF LinesSurvive
<1> QED BY <1>1, LinesAreAssigned, PTL

-----------------------------------------------------------------------------
(* StackWalk, SymbolLoading: the buffers of symbols.  The state of the walk but for its
   place has the names that it has in StackWalk, and so have the constants; the rest is
   SymbolLoading's. *)

CONSTANTS Cpus, Code, StackTop, Garbage, MaxCalls, MaxWork, MaxFrames, ScanWords
VARIABLES cpu, memory, regs, calls, place, stack, frame, noSymbols, scan, walks, interrupts

Walk == INSTANCE StackWalk WITH pc <- place

\* The buffers that resolver and supplier keep are there, hold the symbols of the module
\* they are kept for, and are not shared; those no map knows of any more stay.
HeldInv ==
    /\ \A m \in DOMAIN given : given[m] \in DOMAIN heap /\ heap[given[m]] = m
    /\ \A m \in DOMAIN kept : kept[m] \in DOMAIN heap /\ heap[kept[m]] = m
    /\ \A m \in DOMAIN kept, n \in DOMAIN given : kept[m] # given[n]
    /\ misfreed = {}

BufferInv ==
    /\ HeldInv
    /\ DOMAIN heap \subseteq Nat /\ IsFiniteSet(DOMAIN heap)
    /\ ~fast => DOMAIN kept = {}
    /\ fast => \A m \in DOMAIN loaded :
                   loaded[m] \in DOMAIN heap /\ heap[loaded[m]] = m
    /\ place = "run" => DOMAIN loaded = {} /\ DOMAIN kept = {}

\* new char[] finds an address that is not in use.
LEMMA FreshIsFree ==
    ASSUME DOMAIN heap \subseteq Nat, IsFiniteSet(DOMAIN heap)
    PROVE  Walk!Fresh \in Nat /\ Walk!Fresh \notin DOMAIN heap
  <1> DEFINE n == Cardinality(DOMAIN heap)
             S == {b \in 1 .. n + 1 : b \notin DOMAIN heap}
  <1>1. n \in Nat
    BY FS_CardinalityType
  <1>2. S # {}
    <2> SUFFICES ASSUME S = {} PROVE FALSE
      OBVIOUS
    <2>1. 1 .. n + 1 \subseteq DOMAIN heap
      OBVIOUS
    <2>2. Cardinality(1 .. n + 1) = n + 1
      BY <1>1, FS_Interval
    <2> QED
      BY <1>1, <2>1, <2>2, FS_Subset
  <1>3. S \subseteq Nat
    BY <1>1
  <1>4. Least(S) \in S
    <2> HIDE DEF S
    <2> QED BY <1>2, <1>3, LeastExists
  <1>5. Walk!Fresh = Least(S)
    <2>1. Walk!Cardinality(DOMAIN heap) = n
      BY DEF Walk!Cardinality, Cardinality
    <2> QED
      BY <2>1 DEF Walk!Fresh, Walk!Min, Least
  <1> QED
    BY <1>3, <1>4, <1>5

\* What a load makes of the resolver's modules.
LEMMA LoadedFromIs ==
    ASSUME NEW m, NEW b, NEW g, g = Walk!LoadedFrom(m, b)
    PROVE  \/ g = loaded
           \/ /\ m \notin DOMAIN loaded /\ DOMAIN g = DOMAIN loaded \cup {m} /\ g[m] = b
              /\ \A y \in DOMAIN loaded : g[y] = loaded[y]
  <1>1. CASE Walk!Loads(m)
    <2>1. g = Walk!Inserted(loaded, m, b) /\ m \notin DOMAIN loaded
      BY <1>1 DEF Walk!LoadedFrom, Walk!Loads, Walk!HasModule
    <2> QED BY <2>1 DEF Walk!Inserted
  <1>2. CASE ~Walk!Loads(m)
    BY <1>2 DEF Walk!LoadedFrom
  <1> QED BY <1>1, <1>2

\* What Walk and the scan have the supplier fetch and free leaves each module its buffer.
LEMMA FetchKeeps ==
    ASSUME BufferInv, NEW m, place' # "run",
           Walk!FetchForWalk(m) \/ Walk!NothingForWalk(m) \/ Walk!FetchForScan(m)
    PROVE  BufferInv'
  <1> DEFINE b == Walk!Fresh
  <1>1. b \in Nat /\ b \notin DOMAIN heap
    BY FreshIsFree DEF BufferInv
  <1> HIDE DEF b
  <1> DEFINE held == Walk!Inserted(given, m, b)
             more == Walk!Inserted(heap, b, m)
             with == Walk!LoadedFrom(m, b)
  <1>2. /\ DOMAIN held = DOMAIN given \cup {m}
        /\ \A y \in DOMAIN given : held[y] = given[y]
        /\ m \notin DOMAIN given => held[m] = b
    BY DEF Walk!Inserted
  <1>3. /\ DOMAIN more = DOMAIN heap \cup {b} /\ more[b] = m
        /\ \A y \in DOMAIN heap : more[y] = heap[y]
    BY <1>1 DEF Walk!Inserted
  <1>4. \/ with = loaded
        \/ /\ m \notin DOMAIN loaded /\ DOMAIN with = DOMAIN loaded \cup {m} /\ with[m] = b
           /\ \A y \in DOMAIN loaded : with[y] = loaded[y]
    BY LoadedFromIs
  <1>5. DOMAIN more \subseteq Nat /\ IsFiniteSet(DOMAIN more)
    BY <1>1, <1>3, FS_AddElement DEF BufferInv
  <1>6. \A y \in DOMAIN held : held[y] \in DOMAIN more /\ more[held[y]] = y
    BY <1>1, <1>2, <1>3 DEF BufferInv, HeldInv
  <1>7. \A y \in DOMAIN kept, z \in DOMAIN held : kept[y] # held[z]
    BY <1>1, <1>2 DEF BufferInv, HeldInv
  <1>8. \A y \in DOMAIN kept : kept[y] \in DOMAIN more /\ more[kept[y]] = y
    BY <1>1, <1>3 DEF BufferInv, HeldInv
  <1>9. fast => \A y \in DOMAIN with : with[y] \in DOMAIN more /\ more[with[y]] = y
    BY <1>1, <1>3, <1>4 DEF BufferInv
  <1> HIDE DEF held, more, with
  <1>10. CASE /\ loaded' = with /\ given' = held /\ heap' = more
              /\ UNCHANGED <<fast, kept, misfreed>>
    BY <1>5, <1>6, <1>7, <1>8, <1>9, <1>10 DEF BufferInv, HeldInv
  <1>11. CASE Walk!FetchForScan(m)
    BY <1>10, <1>11 DEF Walk!FetchForScan, Walk!Fetch, b, held, more, with
  <1>12. CASE Walk!FetchForWalk(m)
    <2>1. CASE fast
      BY <1>10, <1>12, <2>1 DEF Walk!FetchForWalk,
         Walk!ShouldDeleteMemoryBufferAfterLoadModule, b, held, more, with
    <2>2. CASE ~fast
      <3>1. /\ given' = Walk!Without(held, m) /\ heap' = Walk!Without(more, held[m])
            /\ misfreed' = misfreed \cup ({held[m]} \ DOMAIN more)
            /\ UNCHANGED <<fast, kept>>
        BY <1>12, <1>3, <2>2 DEF Walk!FetchForWalk,
           Walk!ShouldDeleteMemoryBufferAfterLoadModule, b, held, more
      <3>2. /\ DOMAIN given' = DOMAIN held \ {m} /\ \A y \in DOMAIN given' : given'[y] = held[y]
            /\ DOMAIN heap' = DOMAIN more \ {held[m]}
            /\ \A y \in DOMAIN heap' : heap'[y] = more[y]
        BY <3>1 DEF Walk!Without
      <3>3. DOMAIN heap' \subseteq Nat /\ IsFiniteSet(DOMAIN heap')
        BY <1>5, <3>2, FS_Subset
      <3>4. misfreed' = {}
        BY <1>2, <1>6, <3>1 DEF BufferInv, HeldInv
      <3> QED
        BY <1>2, <1>6, <2>2, <3>1, <3>2, <3>3, <3>4 DEF BufferInv, HeldInv
    <2> QED BY <2>1, <2>2
  <1>13. CASE Walk!NothingForWalk(m)
    <2>1. CASE fast \/ m \notin DOMAIN given
      BY <1>13, <2>1 DEF BufferInv, HeldInv, Walk!NothingForWalk,
         Walk!ShouldDeleteMemoryBufferAfterLoadModule
    <2>2. CASE ~fast /\ m \in DOMAIN given
      <3>1. /\ given' = Walk!Without(given, m) /\ heap' = Walk!Without(heap, given[m])
            /\ misfreed' = misfreed \cup ({given[m]} \ DOMAIN heap)
            /\ UNCHANGED <<fast, kept>>
        BY <1>13, <2>2 DEF Walk!NothingForWalk, Walk!ShouldDeleteMemoryBufferAfterLoadModule
      <3>2. /\ DOMAIN given' = DOMAIN given \ {m} /\ \A y \in DOMAIN given' : given'[y] = given[y]
            /\ DOMAIN heap' = DOMAIN heap \ {given[m]}
            /\ \A y \in DOMAIN heap' : heap'[y] = heap[y]
        BY <3>1 DEF Walk!Without
      <3>3. DOMAIN heap' \subseteq Nat /\ IsFiniteSet(DOMAIN heap')
        BY <3>2, FS_Subset DEF BufferInv
      <3>4. misfreed' = {}
        BY <2>2, <3>1 DEF BufferInv, HeldInv
      <3> QED
        BY <2>2, <3>1, <3>2, <3>3, <3>4 DEF BufferInv, HeldInv
    <2> QED BY <2>1, <2>2
  <1> QED
    BY <1>11, <1>12, <1>13

\* So do the loads of the program itself, and the deletion of the resolver.
LEMMA ProgramLoadsKeep ==
    ASSUME BufferInv, place' # "run", Walk!ProgramLoads
    PROVE  BufferInv'
  <1> DEFINE b == Walk!Fresh
  <1>1. b \in Nat /\ b \notin DOMAIN heap
    BY FreshIsFree DEF BufferInv
  <1> HIDE DEF b
  <1>2. CASE Walk!DeleteResolver
    <2> DEFINE gone == {kept[m] : m \in DOMAIN kept}
    <2>1. /\ DOMAIN loaded' = {} /\ DOMAIN kept' = {} /\ UNCHANGED <<fast, given>>
          /\ heap' = [x \in DOMAIN heap \ gone |-> heap[x]]
          /\ misfreed' = misfreed \cup (gone \ DOMAIN heap)
      BY <1>2 DEF Walk!DeleteResolver
    <2>2. DOMAIN heap' = DOMAIN heap \ gone /\ \A x \in DOMAIN heap' : heap'[x] = heap[x]
      BY <2>1
    <2>3. DOMAIN heap' \subseteq Nat /\ IsFiniteSet(DOMAIN heap')
      BY <2>2, FS_Subset DEF BufferInv
    <2>4. misfreed' = {} /\ \A n \in DOMAIN given : given[n] \notin gone
      BY <2>1 DEF BufferInv, HeldInv
    <2> HIDE DEF gone
    <2> QED
      BY <2>1, <2>2, <2>3, <2>4 DEF BufferInv, HeldInv
  <1>3. ASSUME NEW m \in Modules, Walk!LoadModule(m) PROVE BufferInv'
    <2> DEFINE more == Walk!Inserted(heap, b, m)
               held == Walk!Inserted(kept, m, b)
               with == Walk!LoadedFrom(m, b)
    <2>1. /\ DOMAIN more = DOMAIN heap \cup {b} /\ more[b] = m
          /\ \A y \in DOMAIN heap : more[y] = heap[y]
      BY <1>1 DEF Walk!Inserted
    <2>2. /\ DOMAIN held = DOMAIN kept \cup {m}
          /\ \A y \in DOMAIN kept : held[y] = kept[y]
          /\ m \notin DOMAIN kept => held[m] = b
      BY DEF Walk!Inserted
    <2>3. \/ with = loaded
          \/ /\ m \notin DOMAIN loaded /\ DOMAIN with = DOMAIN loaded \cup {m} /\ with[m] = b
             /\ \A y \in DOMAIN loaded : with[y] = loaded[y]
      BY LoadedFromIs
    <2>4. loaded' = with /\ UNCHANGED <<fast, given, misfreed>>
      BY <1>3 DEF Walk!LoadModule, b
    <2>5. CASE fast /\ Walk!Loads(m)
      <3>1. heap' = more /\ kept' = held
        BY <1>3, <2>5 DEF Walk!LoadModule, Walk!ShouldDeleteMemoryBufferAfterLoadModule, b
      <3>2. DOMAIN more \subseteq Nat /\ IsFiniteSet(DOMAIN more)
        BY <1>1, <2>1, FS_AddElement DEF BufferInv
      <3> HIDE DEF more, held, with
      <3>3. HeldInv'
        BY <1>1, <2>1, <2>2, <2>4, <3>1 DEF BufferInv, HeldInv
      <3>4. fast' => \A y \in DOMAIN loaded' : loaded'[y] \in DOMAIN heap' /\ heap'[loaded'[y]] = y
        BY <1>1, <2>1, <2>3, <2>4, <3>1 DEF BufferInv
      <3> QED
        BY <2>4, <2>5, <3>1, <3>2, <3>3, <3>4 DEF BufferInv
    <2>6. CASE ~(fast /\ Walk!Loads(m))
      <3>1. UNCHANGED <<heap, kept>>
        BY <1>3, <2>6 DEF Walk!LoadModule, Walk!ShouldDeleteMemoryBufferAfterLoadModule
      <3>2. fast => loaded' = loaded
        BY <2>4, <2>6 DEF Walk!LoadedFrom
      <3> HIDE DEF with
      <3> QED
        BY <2>4, <3>1, <3>2 DEF BufferInv, HeldInv
    <2> QED BY <2>5, <2>6
  <1>4. ASSUME NEW m \in Modules, Walk!UnloadModule(m) PROVE BufferInv'
    <2>1. /\ DOMAIN loaded' = DOMAIN loaded \ {m}
          /\ \A y \in DOMAIN loaded' : loaded'[y] = loaded[y]
          /\ UNCHANGED <<fast, given>>
      BY <1>4 DEF Walk!UnloadModule, Walk!Without
    <2>2. CASE m \in DOMAIN kept
      <3>1. /\ kept' = Walk!Without(kept, m) /\ heap' = Walk!Without(heap, kept[m])
            /\ misfreed' = misfreed \cup ({kept[m]} \ DOMAIN heap)
        BY <1>4, <2>2 DEF BufferInv, Walk!UnloadModule,
           Walk!ShouldDeleteMemoryBufferAfterLoadModule
      <3>2. /\ DOMAIN kept' = DOMAIN kept \ {m} /\ \A y \in DOMAIN kept' : kept'[y] = kept[y]
            /\ DOMAIN heap' = DOMAIN heap \ {kept[m]}
            /\ \A y \in DOMAIN heap' : heap'[y] = heap[y]
        BY <3>1 DEF Walk!Without
      <3>3. DOMAIN heap' \subseteq Nat /\ IsFiniteSet(DOMAIN heap')
        BY <3>2, FS_Subset DEF BufferInv
      <3>4. misfreed' = {}
        BY <2>2, <3>1 DEF BufferInv, HeldInv
      <3>5. HeldInv'
        BY <2>1, <2>2, <3>2, <3>4 DEF BufferInv, HeldInv
      <3> QED
        BY <2>1, <2>2, <3>2, <3>3, <3>5 DEF BufferInv, HeldInv
    <2>3. CASE m \notin DOMAIN kept
      <3>1. UNCHANGED <<heap, kept, misfreed>>
        BY <1>4, <2>3 DEF Walk!UnloadModule
      <3> QED
        BY <2>1, <3>1 DEF BufferInv, HeldInv
    <2> QED BY <2>2, <2>3
  <1> QED
    BY <1>2, <1>3, <1>4 DEF Walk!ProgramLoads

\* A scan is for the sake of one of its callers.
Reasons == {"better", "instead", "base", "stack"}
ScanInv == place = "scan" => "why" \in DOMAIN scan /\ scan.why \in Reasons

\* A new frame is looked at next, or the walk is over.
LEMMA AcceptGoes ==
    ASSUME NEW r, NEW trust, Walk!Accept(r, trust)
    PROVE  place' \in {"done", "frame"}
  BY DEF Walk!Accept, Walk!Goto

\* So it is for one from the debugging information.
LEMMA AcceptWindowsGoes ==
    ASSUME NEW d, NEW offset, NEW trust, Walk!AcceptWindows(d, offset, trust)
    PROVE  place' \in {"done", "frame"}
  BY AcceptGoes DEF Walk!AcceptWindows

\* A scan begins with what it is for.
LEMMA StartScanGoes ==
    ASSUME NEW from, NEW why \in Reasons, NEW d, Walk!StartScan(from, why, d)
    PROVE  place' = "scan" /\ ScanInv'
  BY DEF Walk!StartScan, Walk!Goto, ScanInv

\* The frame pointer gives a frame, or a scan is next.
LEMMA BaseGoes ==
    ASSUME Walk!GetCallerByEBPAtBase
    PROVE  place' \in {"done", "frame", "scan"} /\ ScanInv'
  BY AcceptGoes, StartScanGoes DEF Walk!GetCallerByEBPAtBase, Reasons, ScanInv

\* Nor does anything that looks for a caller begin the program again.
LEMMA CallerGoes ==
    ASSUME Walk!GetCallerFrame
    PROVE  place' \in {"done", "frame", "scan"} /\ ScanInv'
  <1>1. CASE Walk!GetCallerByWindowsFrameInfo
    BY <1>1, AcceptWindowsGoes, StartScanGoes
       DEF Walk!GetCallerByWindowsFrameInfo, Reasons, ScanInv
  <1>2. CASE Walk!GetCallerByStackScan
    BY <1>2, StartScanGoes DEF Walk!GetCallerByStackScan, Reasons
  <1> QED
    BY <1>1, <1>2, BaseGoes, AcceptGoes DEF Walk!GetCallerFrame, ScanInv

\* A scan goes on, or ends with a frame or without; it loads at most one module.
LEMMA ScanGoes ==
    ASSUME ScanInv, Walk!Scan
    PROVE  /\ place' \in {"done", "frame", "scan"} /\ ScanInv'
           /\ (\E m : Walk!FetchForScan(m)) \/ UNCHANGED Walk!loading
  <1> DEFINE next == place' = "scan" /\ scan' = [scan EXCEPT !.at = @ + Walk!W]
             found == Walk!Found
             nothing == Walk!NotFoundAtAll
             m == Walk!ModuleAt(memory[scan.at])
  <1>1. place = "scan" /\ "why" \in DOMAIN scan /\ scan.why \in Reasons
    BY DEF Walk!Scan, ScanInv
  <1>2. next \/ found \/ nothing
    BY DEF Walk!Scan, Walk!Goto
  <1>3. Walk!FetchForScan(m) \/ UNCHANGED Walk!loading
    BY DEF Walk!Scan
  <1>4. CASE next
    BY <1>1, <1>3, <1>4 DEF ScanInv
  <1>5. CASE found
    BY <1>1, <1>3, <1>5, AcceptGoes, AcceptWindowsGoes DEF Walk!Found, Reasons, ScanInv
  <1>6. CASE nothing
    BY <1>1, <1>3, <1>6, AcceptWindowsGoes, BaseGoes DEF Walk!NotFoundAtAll, Walk!Goto, Reasons, ScanInv
  <1> QED
    BY <1>2, <1>3, <1>4, <1>5, <1>6

\* A resolver finds its buffers whatever the walkers and the program ask of it.
LEMMA StepBufferInv == BufferInv /\ ScanInv /\ [Walk!Next]_Walk!vars => BufferInv' /\ ScanInv'
  <1> SUFFICES ASSUME BufferInv, ScanInv, [Walk!Next]_Walk!vars PROVE BufferInv' /\ ScanInv'
    OBVIOUS
  <1>1. CASE /\ UNCHANGED <<fast, loaded, kept, given, heap, misfreed>>
             /\ place' = "run" => place = "run"
             /\ ScanInv'
    BY <1>1 DEF BufferInv, HeldInv
  <1>2. CASE UNCHANGED Walk!vars
    BY <1>1, <1>2 DEF Walk!vars, Walk!loading, Walk!walking, ScanInv
  <1>3. CASE Walk!Run
    BY <1>1, <1>3 DEF Walk!Run, Walk!loading, Walk!walking, ScanInv
  <1>4. CASE Walk!Crash
    BY <1>4 DEF Walk!Crash, Walk!Provide, BufferInv, HeldInv, ScanInv
  <1>5. CASE Walk!Begin
    BY <1>1, <1>5 DEF Walk!Begin, Walk!Goto, Walk!loading, ScanInv
  <1>6. CASE Walk!Resolve
    <2>1. place' # "run" /\ ScanInv'
      BY <1>6 DEF Walk!Resolve, Walk!Goto, ScanInv
    <2>2. \/ Walk!FetchForWalk(Walk!Module) \/ Walk!NothingForWalk(Walk!Module)
          \/ UNCHANGED Walk!loading
      BY <1>6 DEF Walk!Resolve
    <2> QED
      BY <1>1, <2>1, <2>2, FetchKeeps DEF Walk!loading
  <1>7. CASE Walk!AddFrame
    BY <1>1, <1>7 DEF Walk!AddFrame, Walk!Goto, Walk!loading, ScanInv
  <1>8. CASE Walk!GetCallerFrame
    BY <1>1, <1>8, CallerGoes DEF Walk!GetCallerFrame, Walk!loading
  <1>9. CASE Walk!Scan
    BY <1>1, <1>9, ScanGoes, FetchKeeps DEF Walk!loading
  <1>10. CASE Walk!Return
    BY <1>1, <1>10 DEF Walk!Return, Walk!Goto, Walk!loading, ScanInv
  <1>11. CASE Walk!Manage
    <2>1. place' # "run" /\ ScanInv'
      BY <1>11 DEF Walk!Manage, Walk!walking, ScanInv
    <2> QED
      BY <1>11, <2>1, ProgramLoadsKeep DEF Walk!Manage
  <1> QED
    BY <1>2, <1>3, <1>4, <1>5, <1>6, <1>7, <1>8, <1>9, <1>10, <1>11 DEF Walk!Next

\* As long as a module of the fast resolver is loaded, the buffer it points into is there,
\* and nothing is deleted twice, for any modules, code and symbols, and any number of walks
\* and of loads by the program.
THEOREM BuffersAreThere == Walk!Spec => []BuffersOutliveModules
  <1>1. Walk!Init => BufferInv /\ ScanInv
    <2> SUFFICES ASSUME Walk!Init PROVE BufferInv /\ ScanInv
      OBVIOUS
    <2>1. DOMAIN heap = {} /\ DOMAIN kept = {} /\ DOMAIN given = {} /\ DOMAIN loaded = {}
      BY DEF Walk!Init, Walk!LoadingInit
    <2>2. misfreed = {} /\ place = "run"
      BY DEF Walk!Init, Walk!LoadingInit
    <2> QED
      BY <2>1, <2>2, FS_EmptySet DEF BufferInv, HeldInv, ScanInv
  <1>2. BufferInv => BuffersOutliveModules
    BY DEF BufferInv, HeldInv, BuffersOutliveModules
  <1> QED
    BY <1>1, <1>2, StepBufferInv, PTL DEF Walk!Spec
=============================================================================
